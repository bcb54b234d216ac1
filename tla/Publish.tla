------------------------------ MODULE Publish -------------------------------
(***************************************************************************)
(* The end of a handoff (src/team_protocol/workflow.py): the run writes a  *)
(* CPA file and a Sub2API file for its personal access token and pushes    *)
(* them to the management service (management.py) and to Sub2API           *)
(* (sub2api.py). The command line (cli.py) may push the Sub2API file too,  *)
(* in a process of its own. Every remote call is a step: between two of    *)
(* them the administrators of the services act, the process may die, or    *)
(* the answer is lost. A new run of the same child has a new token.        *)
(***************************************************************************)
EXTENDS Naturals, FiniteSets

CONSTANTS
  Groups,             \* the OpenAI groups Sub2API may have
  MaxPats,            \* bounds the runs of the child
  MaxAccounts,        \* bounds the Sub2API accounts created
  MaxManualPushes,    \* bounds the pushes of the command line
  MaxPublishFaults,   \* bounds crashes and errors
  MaxAdminActs        \* bounds what administrators and operator change

ASSUME PublishAssumption ==
  /\ "none" \notin Groups
  /\ MaxPats \in Nat \ {0} /\ MaxAccounts \in Nat
  /\ MaxManualPushes \in Nat /\ MaxPublishFaults \in Nat /\ MaxAdminActs \in Nat

Pushers == {"run", "cli"}
Pats == 1..MaxPats
Absent == 0
NoFile == [token |-> Absent, group |-> "none"]

VARIABLES
  allGroups, replace,    \* settings sub2api_all_groups, management_replace
  wanted,                \* setting sub2api_group_id
  active,                \* the active OpenAI groups of Sub2API
  accounts,              \* the Sub2API accounts of the child, by id
  created,               \* the ids Sub2API has given
  credential,            \* the child's file on the management service
  runtimeOnly,           \* its runtime_only flag
  publish,               \* runs.state
  pat,                   \* the token of the run
  done,                  \* the steps in the checkpoint
  cpaFiles, subFiles,    \* the export files, by the token of their run
  place,                 \* where each pusher is
  localCpa,              \* the token in the CPA file the run uses
  desired, fileToken,    \* groups and token each pusher wants to see
  accountId,             \* the account each pusher works on
  touched, touchedCpa,   \* somebody acted since the run last looked
  overlapped,            \* the two pushers were once both at Sub2API
  manualPushes, publishFaults, adminActs

services == <<active, accounts, created, credential, runtimeOnly, touched, touchedCpa>>
settingsP == <<allGroups, replace, wanted>>
runP == <<publish, pat, done>>
files == <<cpaFiles, subFiles>>
pushing == <<place, localCpa, desired, fileToken, accountId, overlapped>>
publishCounts == <<manualPushes, publishFaults, adminActs>>
publishVars == <<services, settingsP, runP, files, pushing, publishCounts>>

AtSub2API == {"push_sub2api", "exporting", "matching", "updating", "creating", "verifying"}
PublishPlaces == {"off", "cpa", "sub2api_export", "push", "deleting", "uploading",
                  "checking", "finish"} \cup AtSub2API

PublishInit ==
  /\ allGroups \in BOOLEAN /\ replace \in BOOLEAN /\ wanted \in Groups
  /\ active = Groups /\ accounts = <<>> /\ created = 0
  /\ credential = Absent /\ runtimeOnly = FALSE
  /\ publish = "queued" /\ pat = 1 /\ done = {}
  /\ cpaFiles = {} /\ subFiles = [t \in Pats |-> NoFile]
  /\ place = [p \in Pushers |-> "off"] /\ localCpa = Absent
  /\ desired = [p \in Pushers |-> {}] /\ fileToken = [p \in Pushers |-> Absent]
  /\ accountId = [p \in Pushers |-> 0]
  /\ touched = FALSE /\ touchedCpa = FALSE /\ overlapped = FALSE
  /\ manualPushes = 0 /\ publishFaults = 0 /\ adminActs = 0
-----------------------------------------------------------------------------
(* The queue and the command line around the two pushers. *)

\* A pusher moves on; both may be at Sub2API at once.
GoTo(p, l) ==
  /\ place' = [place EXCEPT ![p] = l]
  /\ overlapped' = (overlapped \/ \A q \in Pushers : place'[q] \in AtSub2API)

\* A pusher ends and forgets what it read.
Ends(p) ==
  /\ place' = [place EXCEPT ![p] = "off"]
  /\ localCpa' = IF p = "run" THEN Absent ELSE localCpa
  /\ desired' = [desired EXCEPT ![p] = {}]
  /\ fileToken' = [fileToken EXCEPT ![p] = Absent]
  /\ accountId' = [accountId EXCEPT ![p] = 0]
  /\ UNCHANGED overlapped

\* The push raises: the run fails, the command ends with an error.
PushFails(p) ==
  /\ Ends(p)
  /\ publish' = IF p = "run" THEN "failed" ELSE publish
  /\ UNCHANGED <<services, settingsP, pat, done, files>>

PublishFault ==
  /\ publishFaults < MaxPublishFaults /\ publishFaults' = publishFaults + 1
  /\ UNCHANGED <<manualPushes, adminActs>>

PushError(p) == place[p] # "off" /\ PublishFault /\ PushFails(p)

PublishCrash ==
  /\ publish = "running" /\ PublishFault
  /\ Ends("run") /\ publish' = "queued"
  /\ UNCHANGED <<services, settingsP, pat, done, files>>

PublishBegin ==
  /\ publish = "queued" /\ publish' = "running"
  /\ GoTo("run", "cpa")
  /\ UNCHANGED <<services, settingsP, pat, done, files, localCpa, desired, fileToken,
                 accountId, publishCounts>>

PublishRetry ==
  /\ publish = "failed" /\ publish' = "queued"
  /\ UNCHANGED <<services, settingsP, pat, done, files, pushing, publishCounts>>

\* Another run for the same child: an empty checkpoint, a new token.
PublishAgain ==
  /\ publish \in {"failed", "succeeded"} /\ pat < MaxPats
  /\ publish' = "queued" /\ pat' = pat + 1 /\ done' = {}
  /\ UNCHANGED <<services, settingsP, files, pushing, publishCounts>>

\* command_push_sub2api with a file of an earlier or of the present run.
CliBegin(t) ==
  /\ place["cli"] = "off" /\ subFiles[t] # NoFile
  /\ GoTo("cli", "push_sub2api")
  /\ fileToken' = [fileToken EXCEPT !["cli"] = subFiles[t].token]
  /\ manualPushes < MaxManualPushes /\ manualPushes' = manualPushes + 1
  /\ UNCHANGED <<services, settingsP, runP, files, localCpa, desired, accountId,
                 publishFaults, adminActs>>
-----------------------------------------------------------------------------
(* Administrators and operator. *)

Administrator ==
  /\ adminActs < MaxAdminActs /\ adminActs' = adminActs + 1
  /\ touched' = TRUE /\ touchedCpa' = TRUE
  /\ UNCHANGED <<allGroups, replace, runP, pushing, created, manualPushes, publishFaults>>

GroupToggled(g) ==
  /\ Administrator
  /\ active' = IF g \in active THEN active \ {g} ELSE active \cup {g}
  /\ UNCHANGED <<wanted, accounts, credential, runtimeOnly, files>>

AccountEdited(a) ==
  /\ Administrator /\ a \in DOMAIN accounts
  /\ \E g \in Groups : accounts' = [accounts EXCEPT ![a].groups = @ \ {g}, ![a].fixed = FALSE]
  /\ UNCHANGED <<wanted, active, credential, runtimeOnly, files>>

AccountDeleted(a) ==
  /\ Administrator /\ a \in DOMAIN accounts
  /\ accounts' = [i \in DOMAIN accounts \ {a} |-> accounts[i]]
  /\ UNCHANGED <<wanted, active, credential, runtimeOnly, files>>

CredentialTaken ==
  /\ Administrator /\ credential # Absent
  /\ \/ credential' = Absent /\ runtimeOnly' = FALSE
     \/ UNCHANGED credential /\ runtimeOnly' = ~runtimeOnly
  /\ UNCHANGED <<wanted, active, accounts, files>>

\* The settings of a run are read when it starts.
GroupConfigured(g) ==
  /\ Administrator /\ publish # "running" /\ wanted' = g
  /\ UNCHANGED <<active, accounts, credential, runtimeOnly, files>>

\* The exports hold plaintext credentials: the operator deletes them.
FilesDeleted(t) ==
  /\ Administrator
  /\ cpaFiles' = cpaFiles \ {t} /\ subFiles' = [subFiles EXCEPT ![t] = NoFile]
  /\ UNCHANGED <<wanted, active, accounts, credential, runtimeOnly>>
-----------------------------------------------------------------------------
(* The run writes its files. *)

\* The file the checkpoint names, if it is still there.
CachedCpa == IF "cpa" \in done THEN cpaFiles \cap {pat} ELSE {}

WriteCpa ==
  /\ place["run"] = "cpa"
  /\ \/ localCpa' \in CachedCpa /\ UNCHANGED <<done, cpaFiles>>
     \/ /\ CachedCpa = {}
        /\ localCpa' = pat /\ cpaFiles' = cpaFiles \cup {pat}
        /\ done' = done \cup {"cpa"}
  /\ GoTo("run", "sub2api_export")
  /\ UNCHANGED <<services, settingsP, publish, pat, subFiles, desired, fileToken, accountId,
                 publishCounts>>

\* The process dies after writing the file and before the checkpoint names it.
CpaUnnamed ==
  /\ place["run"] = "cpa" /\ CachedCpa = {} /\ PublishFault
  /\ cpaFiles' = cpaFiles \cup {pat}
  /\ Ends("run") /\ publish' = "queued"
  /\ UNCHANGED <<services, settingsP, pat, done, subFiles>>

\* build_sub2api_export: the account in the file, by its token and its group.
Export == [token |-> pat, group |-> IF allGroups THEN "none" ELSE wanted]
\* It is kept only when it holds what the run would write.
ExportIsCurrent == "sub2api_export" \in done /\ subFiles[pat] = Export

WriteSub2apiExport ==
  /\ place["run"] = "sub2api_export"
  /\ subFiles' = IF ExportIsCurrent THEN subFiles ELSE [subFiles EXCEPT ![pat] = Export]
  /\ done' = done \cup {"sub2api_export"}
  /\ GoTo("run", "push")
  /\ UNCHANGED <<services, settingsP, publish, pat, cpaFiles, localCpa, desired, fileToken,
                 accountId, publishCounts>>
-----------------------------------------------------------------------------
(* ManagementClient.push_payload. *)

PushStep(l) ==
  /\ GoTo("run", l)
  /\ UNCHANGED <<active, accounts, created, touched, settingsP, publish, pat, files, localCpa,
                 desired, fileToken, accountId, publishCounts>>

PushVerified ==
  /\ PushStep("push_sub2api") /\ done' = done \cup {"push"} /\ touchedCpa' = FALSE
  /\ UNCHANGED <<credential, runtimeOnly>>

PushResumes ==
  /\ place["run"] = "push" /\ "push" \in done
  /\ PushStep("push_sub2api") /\ UNCHANGED <<done, credential, runtimeOnly, touchedCpa>>

PushRefused ==
  \/ localCpa \notin cpaFiles
  \/ credential # Absent /\ (runtimeOnly \/ (credential # localCpa /\ ~replace))

PushLooks ==
  /\ place["run"] = "push" /\ "push" \notin done
  /\ \/ PushRefused /\ PushFails("run") /\ UNCHANGED publishCounts
     \/ ~PushRefused /\ credential = localCpa /\ PushVerified
     \/ /\ ~PushRefused /\ credential # localCpa
        /\ PushStep(IF credential = Absent THEN "uploading" ELSE "deleting")
        /\ UNCHANGED <<done, credential, runtimeOnly, touchedCpa>>

PushDeletes ==
  /\ place["run"] = "deleting" /\ PushStep("uploading")
  /\ credential' = Absent /\ runtimeOnly' = FALSE /\ UNCHANGED <<done, touchedCpa>>

PushUploads ==
  /\ place["run"] = "uploading" /\ PushStep("checking")
  /\ credential' = localCpa /\ UNCHANGED <<done, runtimeOnly, touchedCpa>>

PushChecks ==
  /\ place["run"] = "checking"
  /\ \/ credential = localCpa /\ PushVerified
     \/ credential # localCpa /\ PushFails("run") /\ UNCHANGED publishCounts
-----------------------------------------------------------------------------
(* Sub2APIClient.push_production_account and push_account. *)

Production(p) == p = "cli" \/ allGroups
SettingsMatch(p, a) == a.fixed /\ a.groups = desired[p]
GroupsMatch(p, a) == desired[p] \subseteq a.groups
\* Does the account hold what the pusher wants to see?
Fits(p, a) == IF Production(p) THEN SettingsMatch(p, a) ELSE GroupsMatch(p, a)
SameToken(p) == {i \in DOMAIN accounts : accounts[i].token = fileToken[p]}
\* Mutant: an account with another token is not in the way.
NeverTaken == FALSE
IdentityTaken == DOMAIN accounts # {}

SubStep(p, l) ==
  /\ GoTo(p, l)
  /\ UNCHANGED <<settingsP, runP, files, localCpa, publishCounts>>

SubFails(p) == PushFails(p) /\ UNCHANGED publishCounts

\* The push is verified: the run saves the step, the command ends.
Verified(p) ==
  /\ IF p = "cli"
       THEN Ends(p) /\ UNCHANGED <<done, touched>>
       ELSE GoTo(p, "finish") /\ done' = done \cup {"push_sub2api"} /\ touched' = FALSE
            /\ UNCHANGED <<localCpa, desired, fileToken, accountId>>
  /\ UNCHANGED <<active, accounts, created, credential, runtimeOnly, touchedCpa, settingsP,
                 publish, pat, files, publishCounts>>

ReadGroups(p) ==
  LET t == IF p = "run" THEN pat ELSE fileToken[p] IN
  /\ place[p] = "push_sub2api"
  /\ \/ /\ p = "run" /\ "push_sub2api" \in done
        /\ SubStep(p, "finish") /\ UNCHANGED <<services, desired, fileToken, accountId>>
     \/ /\ ~(p = "run" /\ "push_sub2api" \in done)
        /\ IF subFiles[t] = NoFile \/ (Production(p) /\ active = {})
             THEN SubFails(p)
             ELSE /\ SubStep(p, "exporting")
                  /\ desired' = [desired EXCEPT ![p] =
                                   IF Production(p) THEN active ELSE {subFiles[t].group}]
                  /\ fileToken' = [fileToken EXCEPT ![p] = subFiles[t].token]
                  /\ UNCHANGED <<services, accountId>>

\* export_accounts, and what follows from it. A token match outside the
\* group, two matches, or the identity under another token are refused.
ReadAccounts(p) ==
  LET same == SameToken(p) IN
  /\ place[p] = "exporting"
  /\ IF same = {}
       THEN IF IdentityTaken THEN SubFails(p)
            ELSE SubStep(p, "creating") /\ UNCHANGED <<services, desired, fileToken, accountId>>
       ELSE IF Production(p)
            THEN IF Cardinality(same) > 1 THEN SubFails(p)
                 ELSE SubStep(p, "matching")
                      /\ UNCHANGED <<services, desired, fileToken, accountId>>
            ELSE IF \E i \in same : Fits(p, accounts[i]) THEN Verified(p) ELSE SubFails(p)

\* list_accounts must give one account of this identity and name.
MatchAccount(p) ==
  /\ place[p] = "matching"
  /\ IF Cardinality(DOMAIN accounts) # 1 THEN SubFails(p)
     ELSE LET i == CHOOSE i \in DOMAIN accounts : TRUE IN
          IF Fits(p, accounts[i]) THEN Verified(p)
          ELSE /\ SubStep(p, "updating") /\ accountId' = [accountId EXCEPT ![p] = i]
               /\ UNCHANGED <<services, desired, fileToken>>

\* _settings_payload: limits and groups.
Updated(a, gs) == [a EXCEPT !.groups = gs, !.fixed = TRUE]

UpdateAccount(p) ==
  LET i == accountId[p] IN
  /\ place[p] = "updating"
  /\ IF i \notin DOMAIN accounts THEN SubFails(p)
     ELSE /\ SubStep(p, "verifying")
          /\ accounts' = [accounts EXCEPT ![i] = Updated(@, desired[p])]
          /\ touched' = (touched \/ p = "cli")
          /\ UNCHANGED <<active, created, credential, runtimeOnly, touchedCpa,
                         desired, fileToken, accountId>>

\* _create_payload: the token of the file, the wanted groups and limits.
NewAccount(p) == [token |-> fileToken[p], groups |-> desired[p], fixed |-> Production(p)]

CreateAccount(p) ==
  LET new == created + 1 IN
  /\ place[p] = "creating" /\ created < MaxAccounts
  /\ SubStep(p, "verifying")
  /\ created' = new
  /\ accounts' = [i \in DOMAIN accounts \cup {new} |->
                    IF i = new THEN NewAccount(p) ELSE accounts[i]]
  /\ accountId' = [accountId EXCEPT ![p] = new]
  /\ UNCHANGED <<active, credential, runtimeOnly, touched, touchedCpa, desired, fileToken>>

\* The account as it is now: by id in production, else by token.
VerifyAccount(p) ==
  LET found == IF Production(p) THEN {accountId[p]} \cap DOMAIN accounts ELSE SameToken(p) IN
  /\ place[p] = "verifying"
  /\ IF \E i \in found : Fits(p, accounts[i]) THEN Verified(p) ELSE SubFails(p)

PublishFinish ==
  /\ place["run"] = "finish" /\ Ends("run") /\ publish' = "succeeded"
  /\ UNCHANGED <<services, settingsP, pat, done, files, publishCounts>>
-----------------------------------------------------------------------------
SubSteps(p) ==
  ReadGroups(p) \/ ReadAccounts(p) \/ MatchAccount(p) \/ UpdateAccount(p)
    \/ CreateAccount(p) \/ VerifyAccount(p)
RunSteps ==
  WriteCpa \/ WriteSub2apiExport \/ PushResumes \/ PushLooks \/ PushDeletes \/ PushUploads
    \/ PushChecks \/ SubSteps("run") \/ PublishFinish

PublishNext ==
  \/ PublishBegin \/ PublishRetry \/ PublishAgain \/ PublishCrash \/ CpaUnnamed
  \/ RunSteps \/ SubSteps("cli")
  \/ \E p \in Pushers : PushError(p)
  \/ \E t \in Pats : CliBegin(t) \/ FilesDeleted(t)
  \/ \E g \in Groups : GroupToggled(g) \/ GroupConfigured(g)
  \/ \E a \in 1..MaxAccounts : AccountEdited(a) \/ AccountDeleted(a)
  \/ CredentialTaken

PublishSpec == PublishInit /\ [][PublishNext]_publishVars
-----------------------------------------------------------------------------
(* Properties. *)

\* Lost answers, crashes, retries and later runs leave at most one Sub2API
\* account of the child, unless a manual push ran at the same time: the check
\* of the exported accounts and the creation are two requests.
OneAccountPerChild == overlapped \/ Cardinality(DOMAIN accounts) <= 1

\* A run that has published left the token it created at both services, in
\* the groups it was to be in, and nothing that was not looked at since: as
\* long as nobody else changed them they are there.
VerifiedIsPublished ==
  /\ "push" \in done /\ ~touchedCpa => credential = pat
  /\ place["run"] = "finish" /\ ~touched /\ ~overlapped =>
       \E i \in DOMAIN accounts :
         /\ accounts[i].token = pat
         /\ IF allGroups THEN accounts[i].fixed /\ accounts[i].groups # {}
            ELSE wanted \in accounts[i].groups

\* What a run publishes exists once, and as the run verified it.
PublishedOnce == OneAccountPerChild /\ VerifiedIsPublished

\* What the services hold against the run, whatever it does.
PushIsRefused ==
  \/ \E i \in DOMAIN accounts : accounts[i].token # pat
  \/ Cardinality(DOMAIN accounts) > 1
  \/ allGroups /\ active = {}
  \/ ~allGroups /\ \E i \in DOMAIN accounts : wanted \notin accounts[i].groups
  \/ credential # Absent /\ runtimeOnly
  \/ credential \notin {Absent, pat} /\ ~replace
  \/ created = MaxAccounts /\ place["run"] = "creating"  \* the bound of the model

\* A run that is retried until it succeeds is published in the end, the
\* credential it deleted included, unless what the services hold refuses it.
PublishCompletes == <>[](publish = "succeeded" \/ PushIsRefused)
=============================================================================

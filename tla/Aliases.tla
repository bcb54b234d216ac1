------------------------------ MODULE Aliases -------------------------------
(***************************************************************************)
(* The Hide My Email aliases of one iCloud mailbox (the alias and mailbox  *)
(* transactions of src/team_protocol/database.py, their handlers in        *)
(* web_console.py, the client icloud_hme.py). Checking the mailbox,        *)
(* generating, importing and the preparation of a handoff exclude each     *)
(* other by _icloud_operation_lock; edits of the mailbox and changes of an *)
(* alias's state do not take it. A remote call and the transaction after   *)
(* it are two steps.  The aliases are children, and the workspace one of   *)
(* an owner in the same mailbox; a child of another one may be its current *)
(* child, bound by the operator. What the queue does with a run is left    *)
(* out, so the edits it would hold off come before or after it.            *)
(***************************************************************************)
EXTENDS Naturals, FiniteSets

CONSTANTS
  MaxAliases,        \* remote aliases that may ever exist
  Clickers,          \* API threads that prepare a handoff of the workspace
  Togglers,          \* API threads that change an alias's state
  MaxSecrets,        \* bounds the settings a mailbox has had
  MaxVersions,       \* bounds the version of a workspace that is edited
  MaxAliasFaults     \* bounds failed remote calls and crashes

ASSUME AliasesAssumption ==
  /\ MaxAliases \in Nat /\ MaxSecrets \in Nat \ {0}
  /\ MaxVersions \in Nat /\ MaxAliasFaults \in Nat
  /\ Clickers \cap {"free", "check", "generate", "import"} = {}

AliasIds == 1..MaxAliases
NoAlias == 0

VARIABLES
  ready,             \* icloud_mailboxes.status is ready; no other status lets anything begin
  secret,            \* the mailbox's settings, as a version
  rejected,          \* settings whose session Apple rejects by now
  hme,               \* the aliases at Apple
  row,               \* icloud_aliases.state
  child3,            \* status of the alias's account
  parented,          \* the aliases whose parent is the owner of the workspace
  curAlias,          \* workspaces.current_account_id, NoAlias for a child not among these
  nextAlias,         \* workspaces.next_account_id
  wsVersion,         \* workspaces.version
  lockOp,            \* what holds _icloud_operation_lock
  opAt,              \* its place
  opSecret,          \* the settings it read
  inHand,            \* the remote alias it has created
  listing,           \* the remote aliases an import has read
  click,             \* by clicker: where it is, and the workspace version it has read
  toggle,            \* by toggler: its place, alias and target, whether the account it saw
                     \* is to move too, and the settings it has read
  abandoned,         \* history: aliases whose clean-up failed or was interrupted
  crossed,           \* history: aliases whose state or account another thread changed
                     \* while a toggler was switching them
  apart,             \* history: inactive aliases whose account the operator enabled, or
                     \* whose account was not reached before the process died
  aliasFaults

mailVars == <<ready, secret, rejected>>
wsVars3 == <<curAlias, nextAlias, wsVersion>>
localVars == <<row, child3, parented, wsVars3>>
opVars == <<lockOp, opAt, opSecret, inHand, listing>>
toggleVars == <<toggle, crossed, apart>>
apiVars == <<click, toggleVars>>
aliasVars == <<mailVars, hme, localVars, opVars, apiVars, abandoned, aliasFaults>>

Idle == [at |-> "idle", version |-> 0]
NoToggle == [at |-> "idle", alias |-> NoAlias, to |-> "active", moves |-> FALSE, with |-> 0]

AliasTypeOK ==
  /\ ready \in BOOLEAN
  /\ secret \in 1..MaxSecrets /\ rejected \subseteq 1..MaxSecrets
  /\ hme \in [AliasIds -> {"none", "active", "inactive"}]
  /\ row \in [AliasIds -> {"none", "active", "inactive"}]
  /\ child3 \in [AliasIds -> {"none", "available", "disabled", "bound", "retired"}]
  /\ \A a \in AliasIds : row[a] = "none" <=> child3[a] = "none"
  /\ parented \subseteq AliasIds
  /\ {curAlias, nextAlias} \subseteq AliasIds \cup {NoAlias} /\ wsVersion \in Nat
  /\ lockOp \in {"free", "check", "generate", "import"} \cup Clickers
  /\ inHand \in AliasIds \cup {NoAlias} /\ abandoned \subseteq AliasIds
  /\ crossed \subseteq AliasIds /\ apart \subseteq AliasIds

AliasInit ==
  /\ ready = FALSE /\ secret = 1 /\ rejected = {}
  /\ hme = [a \in AliasIds |-> "none"] /\ row = [a \in AliasIds |-> "none"]
  /\ child3 = [a \in AliasIds |-> "none"] /\ parented = {}
  /\ curAlias = NoAlias /\ nextAlias = NoAlias /\ wsVersion = 0
  /\ lockOp = "free" /\ opAt = "off" /\ opSecret = 1 /\ inHand = NoAlias
  /\ listing = [a \in AliasIds |-> "none"]
  /\ click = [c \in Clickers |-> Idle]
  /\ toggle = [t \in Togglers |-> NoToggle]
  /\ abandoned = {} /\ crossed = {} /\ apart = {} /\ aliasFaults = 0
-----------------------------------------------------------------------------
(* The mailbox. *)

\* New settings are unchecked settings.
UpdateICloudMailbox ==
  /\ secret < MaxSecrets /\ secret' = secret + 1 /\ ready' = FALSE
  /\ UNCHANGED <<rejected, hme, localVars, opVars, apiVars, abandoned, aliasFaults>>

UpdateMailboxStatus ==
  /\ ready' = FALSE
  /\ UNCHANGED <<secret, rejected, hme, localVars, opVars, apiVars, abandoned, aliasFaults>>

AliasFault == aliasFaults < MaxAliasFaults /\ aliasFaults' = aliasFaults + 1

SessionEnds ==
  /\ AliasFault /\ rejected' = rejected \cup {secret}
  /\ UNCHANGED <<ready, secret, hme, localVars, opVars, apiVars, abandoned>>

Take(what, place) ==
  /\ lockOp = "free" /\ lockOp' = what /\ opAt' = place /\ opSecret' = secret
  /\ UNCHANGED <<inHand, listing>>

Release ==
  /\ lockOp' = "free" /\ opAt' = "off" /\ inHand' = NoAlias
  /\ listing' = [a \in AliasIds |-> "none"] /\ opSecret' = 1

CheckBegin ==
  /\ Take("check", "settings")
  /\ UNCHANGED <<mailVars, hme, localVars, apiVars, abandoned, aliasFaults>>

\* The result is written, whatever has happened to the mailbox since.
CheckEnd ==
  /\ lockOp = "check" /\ Release
  /\ IF opSecret \in rejected
       THEN ready' = FALSE /\ UNCHANGED aliasFaults
       ELSE \/ ready' = TRUE /\ UNCHANGED aliasFaults
            \/ AliasFault /\ ready' = FALSE
  /\ UNCHANGED <<secret, rejected, hme, localVars, apiVars, abandoned>>
-----------------------------------------------------------------------------
(* Generation, and the child of a handoff. *)

GenerateBegin ==
  /\ ready /\ Take("generate", "create")
  /\ UNCHANGED <<mailVars, hme, localVars, apiVars, abandoned, aliasFaults>>

\* The handler reads the workspace first, and takes the lock after it.
ClickRead(c) ==
  /\ click[c] = Idle /\ nextAlias = NoAlias /\ ready
  /\ click' = [click EXCEPT ![c] = [at |-> "read", version |-> wsVersion]]
  /\ UNCHANGED <<mailVars, hme, localVars, opVars, toggleVars, abandoned, aliasFaults>>

\* A prepared child whose run could not be enqueued is only enqueued again.
ClickAgain(c) ==
  /\ click[c] = Idle /\ nextAlias # NoAlias
  /\ click' = [click EXCEPT ![c].at = "enqueue"]
  /\ UNCHANGED <<mailVars, hme, localVars, opVars, toggleVars, abandoned, aliasFaults>>

ClickLock(c) ==
  /\ click[c].at = "read"
  /\ IF lockOp = "free" THEN Take(c, "create") /\ UNCHANGED click
                        ELSE click' = [click EXCEPT ![c] = Idle] /\ UNCHANGED opVars
  /\ UNCHANGED <<mailVars, hme, localVars, toggleVars, abandoned, aliasFaults>>

Creating == lockOp \in Clickers \cup {"generate"}
Idle3(c) == [d \in Clickers |-> IF d = c THEN Idle ELSE click[d]]

Unused == {a \in AliasIds : hme[a] = "none"}

CreateAlias ==
  /\ Creating /\ opAt = "create" /\ opSecret \notin rejected
  /\ \E a \in Unused :
       /\ \A b \in Unused : a <= b
       /\ hme' = [hme EXCEPT ![a] = "active"] /\ inHand' = a
  /\ opAt' = "store"
  /\ UNCHANGED <<mailVars, localVars, lockOp, opSecret, listing, apiVars, abandoned, aliasFaults>>

\* The session is rejected, or the call fails: Apple may have reserved the
\* alias although the answer is lost.
CreateFails ==
  /\ Creating /\ opAt = "create" /\ Release /\ click' = Idle3(lockOp)
  /\ \/ /\ opSecret \in rejected /\ ready' = FALSE
        /\ UNCHANGED <<hme, abandoned, aliasFaults>>
     \/ /\ opSecret \notin rejected /\ AliasFault
        /\ ready' = (ready /\ lockOp # "generate")
        /\ \/ UNCHANGED <<hme, abandoned>>
           \/ \E a \in Unused :
                /\ \A b \in Unused : a <= b
                /\ hme' = [hme EXCEPT ![a] = "active"]
                /\ abandoned' = abandoned \cup {a}
  /\ UNCHANGED <<secret, rejected, localVars, toggleVars>>

\* Mutant: the preparation does not look at the version again.
AnyVersion(c) == ready

PrepareAccepts(c) ==
  /\ ready /\ wsVersion = click[c].version /\ nextAlias = NoAlias
  /\ curAlias # NoAlias => row[curAlias] = "active" /\ curAlias \in parented

\* create_icloud_alias, or prepare_icloud_workspace_handoff: the child is
\* stored and bound in one transaction.
StoreAlias ==
  /\ opAt = "store" /\ Creating
  /\ row' = [row EXCEPT ![inHand] = "active"]
  /\ IF lockOp = "generate"
       THEN /\ ready /\ child3' = [child3 EXCEPT ![inHand] = "available"]
            /\ UNCHANGED <<parented, nextAlias, wsVersion, click>>
       ELSE /\ PrepareAccepts(lockOp) /\ child3' = [child3 EXCEPT ![inHand] = "bound"]
            /\ parented' = parented \cup {inHand}
            /\ nextAlias' = inHand /\ wsVersion' = wsVersion + 1
            /\ click' = [click EXCEPT ![lockOp] = [at |-> "enqueue", version |-> 0]]
  /\ Release
  /\ UNCHANGED <<mailVars, hme, curAlias, toggleVars, abandoned, aliasFaults>>

\* Mutant: the alias that cannot be stored is left at Apple.
LeaveAlias ==
  /\ opAt = "store" /\ Creating
  /\ ~ IF lockOp = "generate" THEN ready ELSE PrepareAccepts(lockOp)
  /\ Release /\ click' = Idle3(lockOp)
  /\ UNCHANGED <<mailVars, hme, localVars, toggleVars, abandoned, aliasFaults>>

\* The transaction refuses: the new alias is deactivated, if Apple answers.
UndoAlias ==
  /\ opAt = "store" /\ Creating
  /\ ~ IF lockOp = "generate" THEN ready ELSE PrepareAccepts(lockOp)
  /\ Release /\ click' = Idle3(lockOp)
  /\ \/ hme' = [hme EXCEPT ![inHand] = "inactive"] /\ UNCHANGED <<abandoned, aliasFaults>>
     \/ AliasFault /\ abandoned' = abandoned \cup {inHand} /\ UNCHANGED hme
  /\ UNCHANGED <<mailVars, localVars, toggleVars>>

\* The run is enqueued, or is not and the child stays bound.
Enqueue3(c) ==
  /\ click[c].at = "enqueue" /\ click' = [click EXCEPT ![c] = Idle]
  /\ UNCHANGED <<mailVars, hme, localVars, opVars, toggleVars, abandoned, aliasFaults>>
-----------------------------------------------------------------------------
(* What else becomes of the accounts: the operator edits the workspace and  *)
(* the statuses, runs rotate it and replace its accounts.                   *)

Named3(S) == S \ {NoAlias}
Switching(a) == \E t \in Togglers : toggle[t].at # "idle" /\ toggle[t].alias = a
CrossedBy(S) == crossed \cup {a \in Named3(S) : Switching(a)}

\* complete_run_and_rotate, advance_workspace_accounts: the next child becomes
\* the current one, which is used up.
Rotate3 ==
  /\ nextAlias # NoAlias
  /\ \A a \in Named3({curAlias, nextAlias}) : child3[a] = "bound" /\ a \in parented
  /\ child3' = [a \in AliasIds |-> IF a = curAlias THEN "retired" ELSE child3[a]]
  /\ curAlias' = nextAlias /\ nextAlias' = NoAlias /\ wsVersion' = wsVersion + 1
  /\ UNCHANGED <<mailVars, hme, row, parented, opVars, apiVars, abandoned, aliasFaults>>

\* update_workspace_bindings: an account that stays may have any status, one
\* that leaves is available again, whatever its alias has become.
UpdateBindings3(cur, nxt) ==
  LET old == Named3({curAlias, nextAlias})
      new == Named3({cur, nxt})
  IN  /\ ready /\ wsVersion < MaxVersions
      /\ <<cur, nxt>> # <<curAlias, nextAlias>> /\ (nxt # NoAlias => nxt # cur)
      /\ \A a \in new : /\ row[a] = "active" /\ a \in parented
                        /\ a \in old \/ child3[a] = "available"
      /\ child3' = [a \in AliasIds |->
                      IF a \in new THEN "bound"
                      ELSE IF a \in old /\ child3[a] = "bound" THEN "available"
                      ELSE child3[a]]
      /\ curAlias' = cur /\ nextAlias' = nxt /\ wsVersion' = wsVersion + 1
      /\ crossed' = CrossedBy(new)
      /\ UNCHANGED <<mailVars, hme, row, parented, opVars, click, toggle, apart,
                     abandoned, aliasFaults>>

FailureCodes3 == {"alias_disabled", "mailbox_credentials_invalid", "account_deactivated"}

\* The pairs of a current and a next child that may take over from the lost
\* ones: the next child first, else one that is free; without any the current
\* child stays.
Free3(S) == {a \in AliasIds \ S : child3[a] = "available" /\ row[a] = "active"}
FirstOf(S) == IF S = {} THEN {NoAlias} ELSE S
Replacements(role, lost, open) ==
  LET Free(S)  == IF open THEN Free3(S) ELSE {}
      promoted == IF nextAlias \in lost \cup {NoAlias} THEN Free(lost) ELSE {nextAlias}
  IN  IF role = "next" THEN {curAlias} \X FirstOf(Free(lost))
      ELSE IF promoted = {} THEN {<<curAlias, NoAlias>>}
      ELSE UNION {{c} \X FirstOf(Free(lost \cup {c})) : c \in promoted}

\* replace_workspace_account, and the same for a run whose child has failed:
\* only that keeps a lost current account when there is no other. A child whose
\* mail cannot be read takes the others of its mailbox with it.
ReplaceChild(role, code) ==
  LET target == IF role = "current" THEN curAlias ELSE nextAlias
      noMail == code = "mailbox_credentials_invalid" /\ target # NoAlias
      lost   == Named3(IF role = "current" /\ noMail THEN {target, nextAlias} ELSE {target})
  IN  /\ wsVersion < MaxVersions /\ (role = "next" => nextAlias # NoAlias)
      /\ \E pair \in Replacements(role, lost, ready /\ ~noMail) :
           /\ pair[2] # NoAlias => pair[2] # pair[1]
           /\ curAlias' = pair[1] /\ nextAlias' = pair[2]
           /\ child3' = [a \in AliasIds |->
                           IF a \in lost THEN "disabled"
                           ELSE IF a = pair[2] \/ (a = pair[1] /\ role = "current")
                             THEN "bound" ELSE child3[a]]
           /\ crossed' = CrossedBy(lost \cup {pair[1], pair[2]})
      /\ ready' = (ready /\ ~noMail)
      /\ row' = [a \in AliasIds |-> IF code = "alias_disabled" /\ a \in lost
                                      THEN "inactive" ELSE row[a]]
      /\ wsVersion' = wsVersion + 1
      /\ UNCHANGED <<secret, rejected, hme, parented, opVars, click, toggle, apart,
                     abandoned, aliasFaults>>

Manual(status) == CASE status = "available" -> {"disabled", "retired"}
                    [] status = "disabled"  -> {"available", "retired"}
                    [] OTHER -> {}

\* transition_account_status, asked for by the operator: it does not look at
\* the alias.
TransitionAccountStatus3(a, new) ==
  /\ new \in Manual(child3[a])
  /\ child3' = [child3 EXCEPT ![a] = new]
  /\ crossed' = CrossedBy({a})
  /\ apart' = IF new = "available" /\ row[a] = "inactive" THEN apart \cup {a} ELSE apart
  /\ UNCHANGED <<mailVars, hme, row, parented, wsVars3, opVars, click, toggle,
                 abandoned, aliasFaults>>
-----------------------------------------------------------------------------
(* Import, and the state of an alias. *)

ImportList ==
  /\ ready /\ lockOp = "free" /\ secret \notin rejected
  /\ lockOp' = "import" /\ opAt' = "store" /\ opSecret' = secret /\ listing' = hme
  /\ UNCHANGED <<mailVars, hme, localVars, inHand, apiVars, abandoned, aliasFaults>>

ImportRejected ==
  /\ ready /\ lockOp = "free" /\ secret \in rejected /\ ready' = FALSE
  /\ UNCHANGED <<secret, rejected, hme, localVars, opVars, apiVars, abandoned, aliasFaults>>

\* The selected aliases that the list calls active are stored as such, in one
\* transaction; an account there already keeps its status.
ImportAliases ==
  /\ lockOp = "import" /\ Release
  /\ IF ~ready THEN UNCHANGED <<row, child3, parented, abandoned, apart>>
     ELSE \E S \in SUBSET {a \in AliasIds : listing[a] = "active"} :
            /\ row' = [a \in AliasIds |-> IF a \in S THEN "active" ELSE row[a]]
            /\ child3' = [a \in AliasIds |->
                            IF a \in S /\ child3[a] = "none" THEN "available" ELSE child3[a]]
            /\ parented' = parented \cup S
            /\ abandoned' = abandoned \ S /\ apart' = apart \ S
  /\ UNCHANGED <<mailVars, hme, wsVars3, click, toggle, crossed, aliasFaults>>

ToggleAllowed(a) == child3[a] # "bound"

SwitchedFrom(to) == IF to = "active" THEN "disabled" ELSE "available"
SwitchedTo(to)   == IF to = "active" THEN "available" ELSE "disabled"

ToggleRead(t) ==
  /\ toggle[t].at = "idle" /\ ready
  /\ \E a \in AliasIds, s \in {"active", "inactive"} :
       /\ row[a] \notin {"none", s} /\ ToggleAllowed(a)
       /\ toggle' = [toggle EXCEPT ![t] =
                       [at |-> "remote", alias |-> a, to |-> s,
                        moves |-> child3[a] = SwitchedFrom(s), with |-> secret]]
       /\ crossed' = CrossedBy({a})
  /\ UNCHANGED <<mailVars, hme, localVars, opVars, click, apart, abandoned, aliasFaults>>

ToggleRemote(t) ==
  /\ toggle[t].at = "remote"
  /\ \/ /\ toggle[t].with \notin rejected
        /\ hme' = [hme EXCEPT ![toggle[t].alias] = toggle[t].to]
        /\ toggle' = [toggle EXCEPT ![t] = [@ EXCEPT !.at = "local", !.with = 0]]
        /\ UNCHANGED <<ready, aliasFaults>>
     \/ /\ toggle[t].with \in rejected
        /\ ready' = FALSE /\ toggle' = [toggle EXCEPT ![t] = NoToggle]
        /\ UNCHANGED <<hme, aliasFaults>>
     \/ AliasFault /\ toggle' = [toggle EXCEPT ![t] = NoToggle] /\ UNCHANGED <<ready, hme>>
  /\ UNCHANGED <<secret, rejected, localVars, opVars, click, crossed, apart, abandoned>>

\* set_icloud_alias_state writes the row, whatever has become of the account.
ToggleLocal(t) ==
  /\ toggle[t].at = "local"
  /\ row' = [row EXCEPT ![toggle[t].alias] = toggle[t].to]
  /\ toggle' = [toggle EXCEPT ![t] =
                  IF @.moves THEN [@ EXCEPT !.at = "account"] ELSE NoToggle]
  /\ apart' = IF toggle[t].to = "active" THEN apart \ {toggle[t].alias} ELSE apart
  /\ UNCHANGED <<mailVars, hme, child3, parented, wsVars3, opVars, click, crossed,
                 abandoned, aliasFaults>>

\* transition_account_status refuses an account that has moved on.
MovesWithRow(t, status) == IF status = SwitchedFrom(toggle[t].to) THEN SwitchedTo(toggle[t].to) ELSE status

ToggleAccount(t) ==
  /\ toggle[t].at = "account"
  /\ child3' = [child3 EXCEPT ![toggle[t].alias] = MovesWithRow(t, @)]
  /\ toggle' = [toggle EXCEPT ![t] = NoToggle]
  /\ UNCHANGED <<mailVars, hme, row, parented, wsVars3, opVars, click, crossed, apart,
                 abandoned, aliasFaults>>

HalfSwitched == {toggle[t].alias : t \in {u \in Togglers :
                   toggle[u].at = "account" /\ toggle[u].to = "inactive"}}

\* The process dies: nothing in memory is left.
AliasCrash ==
  /\ AliasFault /\ Release
  /\ click' = [c \in Clickers |-> Idle] /\ toggle' = [t \in Togglers |-> NoToggle]
  /\ abandoned' = abandoned \cup ({inHand} \ {NoAlias})
  /\ apart' = apart \cup HalfSwitched
  /\ UNCHANGED <<mailVars, hme, localVars, crossed>>

AliasNext ==
  \/ UpdateICloudMailbox \/ UpdateMailboxStatus \/ SessionEnds \/ CheckBegin \/ CheckEnd
  \/ GenerateBegin \/ CreateAlias \/ CreateFails \/ StoreAlias \/ UndoAlias
  \/ ImportList \/ ImportRejected \/ ImportAliases \/ AliasCrash
  \/ \E c \in Clickers : ClickRead(c) \/ ClickAgain(c) \/ ClickLock(c) \/ Enqueue3(c)
  \/ Rotate3
  \/ \E cur, nxt \in AliasIds \cup {NoAlias} : UpdateBindings3(cur, nxt)
  \/ \E role \in {"current", "next"}, code \in FailureCodes3 : ReplaceChild(role, code)
  \/ \E a \in AliasIds, new \in {"available", "disabled", "retired"} :
       TransitionAccountStatus3(a, new)
  \/ \E t \in Togglers : ToggleRead(t) \/ ToggleRemote(t) \/ ToggleLocal(t) \/ ToggleAccount(t)

AliasSpec == AliasInit /\ [][AliasNext]_aliasVars
-----------------------------------------------------------------------------
(* Properties. *)

\* No alias the console has created is forgotten: it is stored, deactivated,
\* in the hands of the operation that created it, or the deactivation could
\* not be done.
AliasesAreAccountedFor ==
  \A a \in AliasIds :
    hme[a] = "active" /\ row[a] = "none" => a = inHand \/ a \in abandoned

\* README.md: clicking again never creates a second child. No operation on the
\* mailbox, a click that comes back from Apple before all, replaces the child a
\* workspace waits for by then, whoever has given it to the workspace.
NextChildIsNotReplaced ==
  [][lockOp' # lockOp /\ nextAlias # NoAlias => nextAlias' = nextAlias]_aliasVars

\* The account a workspace waits for stays bound, though its alias may be
\* switched, imported or bound between the handler's read, Apple's answer and
\* its two writes; a bound account is one of the workspace's, with an active
\* alias; and no account is available whose alias is inactive. Apart from this
\* are the aliases that something else changed while they were switched: the
\* handler looks at an account once, and neither a second switch, an edit of the
\* workspace nor a change of the status looks at it. Apart are also, until it is
\* active again, an alias whose account the operator enabled, and one whose
\* account the process did not reach before it died.
AccountsFollowAliases ==
  /\ nextAlias # NoAlias => child3[nextAlias] = "bound"
  /\ \A a \in AliasIds : child3[a] = "bound" =>
       a \in {curAlias, nextAlias} /\ (row[a] = "active" \/ a \in crossed)
  /\ \A a \in AliasIds : child3[a] = "available" /\ row[a] = "inactive" =>
       \/ a \in apart \cup crossed
       \/ \E t \in Togglers : toggle[t].at = "account" /\ toggle[t].alias = a

\* Remote aliases, their rows and the accounts made of them agree but for the
\* operation that is under way or was interrupted.
AliasesAgree == AliasesAreAccountedFor /\ AccountsFollowAliases
=============================================================================

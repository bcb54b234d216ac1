# Team Workflow: a verification project

TLA+ models, TLC runs and TLAPS proofs of the Team Workflow console
(`src/team_protocol`). The console rotates the child accounts of ChatGPT Team
workspaces: a *handoff* lets the current child invite the next one and leave,
logs the next one in and gives it a personal access token. Handoffs are
queued in SQLite and executed one at a time by a worker thread.

## The system

| Part | State | Operations | Interaction |
| --- | --- | --- | --- |
| Tables (`database.py`) | SQLite: accounts, aliases, mailboxes, workspaces, runs, queue items, settings, events | one write transaction per call, under one lock, rolled back on any exception | called by the API threads and the worker |
| Task queue (`task_queue.py`) | condition lock, worker thread, stop event, active run, active refresh | start, shutdown, enqueue, pause, reorder, stop, retry, refresh; worker loop; building of a run's inputs | API threads and worker share the lock and the tables |
| Handoff, refresh and rescue (`workflow.py`) | checkpoint of the run; remote Team; stored sessions | stages with a checkpoint each | run by the worker; remote calls |
| Publication (`cpa.py`, `management.py`, `sub2api.py`) | export files; credentials and accounts of two services | upload, create, update, verify | last stages of a run, or a manual push of the command line |
| Console (`web_console.py`) | lifecycle lock, statuses, caches, operation lock of the mailboxes | HTTP handlers; startup, shutdown, restore, cleanup | calls all other parts |
| Alerts (`sub2api_alerts.py`) | poller thread, latches, cursor | poll, measure, act | started and stopped by the console; starts handoffs and refreshes |
| Backup, migration (`migration.py`) | old files, backups, status in the database and in memory | import, back up, verify, clean up, restore | restore stops and starts the queue |
| Aliases (`icloud_hme.py`) | aliases at Apple and in the tables | create, import, switch, deactivate | the console, between two transactions |
| Capture (`icloud_hme_capture.py`) | one thread and one window for a mailbox | start, cancel, store | the console; stores beside edits of the mailbox |
| Proxy chains (`proxy_chain.py`) | relays, their configurations, cached second hops | prepare, apply, refresh, serve, stop | the console configures, the workflow connects |
| Browser profiles (`openbrowser.py`) | reserved profile of an account | choose, reserve | first login of an account |
| Registrar (`registrar.py`, `registrar_runtime/`) | attempt, mails seen | log in, read codes | the workflow; mailboxes |
| ChatGPT client, secrets, front end | none of their own that matters here | remote calls, encryption, wording | |

What is hard: the worker executes for minutes outside the lock while users edit
the tables; the process may die between a remote call and its checkpoint, or
between a file operation and its status; the Team applies changes with a delay,
mails arrive late and out of order, answers are lost; a failed run may be
retried long after; the worker's own database calls may fail; restore stops and
restarts the queue; API threads read, call out and write in separate steps.
`PROJECT.json` lists these hazards at their lines with the properties for them.

What makes the parts correct:

* tables: runs, items and workspaces agree; positions are distinct; an active
  run keeps its bindings; accounts neither leak nor are shared; used children
  stay out;
* queue: one worker, one run; memory and tables agree; a refresh excludes a run;
  a stop in time prevails; a queued run is served;
* handoff: one invitation, one token, no departure before the invitation, no
  login before the departure, success is a handover;
* rescue: removals are limited, the invited child stays, it ends;
* sessions: retired children keep none, a refused token leads to one fresh login,
  what a refresh obtained is stored;
* publication: one account for a child, what was pushed is what was created;
* alerts: no mail is skipped, no action repeated, the measured child is acted on;
* migration: no plaintext is deleted without a verified backup, the queue runs
  exactly when the console is ready, no restore replaces the tables under a run;
* aliases: none is lost, accounts and aliases agree whatever is edited meanwhile, a
  workspace's next child is not replaced;
* capture: what is shown agrees with what is stored; both writers' settings stay;
* chains: relays match configurations, ports are distinct, sockets are closed;
* identities: proxies, fingerprints and profiles stay with run and account;
* login: a code is used once, none is overlooked, the attempts are bounded.

## The modules

| Module | Models |
| --- | --- |
| `ConsoleDb` | the tables, one action per write transaction |
| `SerialQueue` | what the queue promises: runs in an order, one in execution, results |
| `QueueRefinement` | the mapping from the tables to `SerialQueue` |
| `TaskQueue` | `ConsoleDb` with the lock, the worker threads, lifecycle calls, faults and crashes |
| `Handoff` | `WorkflowRunner.run` with its checkpoints against the remote Team |
| `Rescue` | `RescueWorkflowRunner.run`: the owner clears the Team and invites one child |
| `Sessions` | stored sessions: refreshes, handoffs, recorded switches, ends of sessions |
| `Publish` | the last stages of a run and the manual push, against both services |
| `Alerts` | the alert coordinator: cursor, latches, measurements, actions |
| `Backups` | import, verified backup, cleanup, restore, with the statuses on disk and in memory |
| `RunNetwork` | frozen proxies of a run, fingerprints and profiles of accounts |
| `Aliases` | a mailbox's aliases at Apple and in the tables, with the console's handlers |
| `HmeCapture` | captures of a session, their cancellation and storing |
| `ProxyChains`, `ChainRelay` | the manager of the chains; one relay with its threads |
| `Login` | one login with its recycles, limits and mailed codes |
| `ConsoleDb_proofs`, `Accounts_proofs` | theorems about the tables: types, agreement, order, refinement; accounts and runs |
| `TaskQueue_proofs` | theorems about the task queue |
| `Team_proofs` | theorems about `Handoff` and `Rescue` |
| `Services_proofs` | theorems about `Aliases`, `Login`, `HmeCapture`, `ProxyChains`, `ChainRelay`, `RunNetwork` |
| `Flows_proofs` | theorems about `Sessions`, `Backups`, `Publish`, `Alerts` |
| `MCFlows_proofs`, `MCServices_proofs` | theorems about the composed specifications |
| `MCConsoleDb`, `MCTaskQueue` | small instances |
| `MCFlows` | `Handoff`, `Rescue`, `Sessions`, `Alerts`, `Publish`, `Backups` for one run |
| `MCAliases` | `Aliases`, with the bound `TwoAtATime` on what is under way at once |
| `MCServices` | `RunNetwork`, `HmeCapture`, `ProxyChains`, `ChainRelay`, `Login` for one run |

### ConsoleDb

`BEGIN IMMEDIATE` under the maintenance lock makes a transaction atomic, and a
refused one changes nothing, so a refusal is a stutter. The functions over
`Accounts`, `Workspaces` and `Runs` are columns; a run and its queue item share
an identifier. `used`, `inactive` and `badMailbox` are what the queries read of
aliases and mailboxes. `BindingAllowed` is the unique indexes and triggers, so a
step they abort is not a step. The replacement queries (`Replacements`) keep the
order of preference; the order by creation time or id is left open.

Abstracted: versions (a stale call is a refusal), credentials, rotation counts,
events, results, names. Left out: importing mailboxes and aliases (a child is
created with its parent), accounts without an inventory entry, deletion, and a
repeated completion of a run that has succeeded, which changes nothing. The
status `paused` of a workspace is in the schema and never written. Positions
grow while the queue is not empty; the guards cap them with `MaxPos`.

`QueueRefinement` maps the tables to `SerialQueue`: the pending items are the
waiting runs, their positions the order among them - a set of pairs, so that no
step depends on the numbers - and the running item is the run in execution.

### TaskQueue

A critical section of `_condition` is one action; a worker outside it moves from
one database transaction to the next (`pc`). `wait` is a thread on the condition,
`Notify` is `notify_all`. `Fault` is a database call of the worker that raises;
`Attempt` gives every terminal transaction its three outcomes and names where the
worker goes when it raises. `caller` is an API thread inside a restore or the
console's shutdown: look, close, join, start again. `Crash` loses the memory and
keeps the tables; `Boot` is the console's startup. `QueueNext` is what goes
through the queue, `EditTables` every other transaction on accounts and
workspaces, from an API thread that does not take the lock. `inTime` is history: the runs
stopped while their runner was at work.

A restore is modelled by what it does to the queue; the contents it brings are
taken to be those of the tables. Whether an identity error replaces an account
or is refused is left open. `MaxFaults`, `MaxCrashes` and `MaxRefreshes` bound
the steps they name; `Threads` bounds the worker threads alive at a time.

### Handoff

`pc` is the place of the runner, `ck` the steps in its checkpoint. A remote call
and the checkpoint that records it are two steps, so that a crash or an error
may come between them; an error after the call is a lost answer. The pair of
reads at the start of a stage is one step. The Team is external: `Departs` and
`Joins` apply a removal or an invitation later, `OutsiderMoves` changes what the
program does not control, `Expires` invalidates the old child's token. A former
member may be answered or refused. Files and pushes replace by name and are one
action, `Publish`. The fallback login of the new child repeats a login and is not
separate. `MaxCrashes`, `MaxErrors`, `MaxStops` and `MaxRuns` bound what they
name.

### Rescue

`at` is the place of the runner, `saved` and `removedSaved` its checkpoint,
`removedNow` the count in memory. Asking for a removal and its confirmation are
two steps; the Team applies it in between. `requests` counts what one run and
its retries asked for, `interruptions` the crashes and errors that may have lost
the count of one. A cancelled run is followed by a new one with an empty
checkpoint. `Meddle` invites or brings in outsiders.

### Sessions

`cookie` is the session column of the accounts, `rpc` and `hpc` the places of a
refresh and a handoff. Sessions are numbered by login; the server may end one
(`exchangeable`) or refuse its access tokens. `overtaken` is history: children
switched away from while they were refreshed, whose session the refresh stores
afterwards - the code does not look again, and the properties except it.

### Publish

Every request to the management service and Sub2API is a step, for the run and
for a manual push at once. Administrators change accounts, the process dies, the
answer to a creation is lost. Files carry the token they were written for.
`overlapped` is history: two pushes were in progress together; the check of the
exported accounts and the creation are two requests, so that they may create two
accounts, and `OneAccountPerChild` excepts this.

### Alerts

One poll is a sequence of steps: fetch, measure each Team, act, save the cursor.
The latches of the actions and the cursor are the settings in the database and
survive the thread. Mails are numbered; `MailboxReset` is a new UIDVALIDITY.
`todo` is what one application of the signals has left to do, taken in the order
of the code (`Before`: refreshes, then handoffs, each by Team), and `atWork` the
action whose call is out and not yet recorded.
`unrecorded` is history: a refresh was started and the process died before it
could be recorded; one repetition is then possible.

### Backups

A file is a version number, a database is a record of its status, its import,
the rows it has and whether a run is executing. `step` is the place of the
migration, `rs` of the restore; each transaction, file operation and look is a
step. Backups are numbered and never altered. `gaveUp` is the join that gives up
waiting for a run: the queue then stays closed, as in `TaskQueue`. `StatusIsTaken`
is the row an import cannot insert: once a migration has failed before its import
was committed, every later import fails on the stored `migration_error`. One request
works at a time; the moment between the last look at a source file and its
removal is not modelled.

### RunNetwork

Two runs that hand over from a to b and from b to c. Settings, overrides and the
profile pool are edited between the executions of a run; `TakeSnapshot` freezes
its proxies, `PrintFor` and `ReserveProfile` give an account its identity.
`OldPrint` is a run of an older version, which stored none.

### Aliases

`hme` is the state at Apple, `row` in the tables, `child3` the status of the
account. Generation, import, the check of the mailbox and the preparation of a
handoff take `_icloud_operation_lock`; edits of the mailbox and changes of one
alias (`ToggleRead`, `ToggleRemote`, `ToggleLocal`, `ToggleAccount`) do not, nor does
what else becomes of the accounts: `UpdateBindings3` (binding, and unbinding, which
makes an account available whatever its alias is), `Rotate3`, `ReplaceChild` and the
operator's `TransitionAccountStatus3`, which does not look at the alias either. A
remote call and the transaction after it are two steps, the two writes of a change
two more. The workspace is one of an owner in this mailbox; its current child may
be of another mailbox (`NoAlias`). Statuses of one kind are merged: `bound` is current
or next. `exited_pending` is left out: a rotation sets it only in a workspace without
an owner (`database.py:4814`).

Three histories say what the properties leave out. `crossed`: an alias whose state
or account another thread changed between a toggler's read and its last write,
which may then be written in any order. `apart`, until the alias is active again:
an inactive alias whose account the operator enabled, or whose account was not yet
disabled when the process died. `abandoned`: an alias at Apple whose clean-up failed
or was interrupted.

### HmeCapture

A capture is a thread with a place `at`; `captureOf` is the last one of a
mailbox and `shown` what the interface says of it. The manager's lock is
released between a check and the publication of a status. `disturbed` marks
captures that ran while the thread of an earlier one did - the statuses go by
mailbox, so each is shown the other's - and `overlapped` a read and write around
another one's write.

### ProxyChains and ChainRelay

In `ProxyChains` API threads store configurations and apply them under the apply
lock while connections ask for the second hop under the owner's lock; sources
are numbered by operation. `clashed`, `outdated` and `unapplied` are history for
ports chosen at one time, a source that was asked while another was stored or
cached while the owner's relay was not running, and relays that did not start. In `ChainRelay` a client is accepted by one thread and
served by its own; `stop` closes the server, the clients and joins the serving
thread only.

### Login

Every request makes the server send one mail, which arrives late or in any
order; a mail stands for its code. `attempt` is one pass through the pages,
restarted by a phone gate, a lost sign-in or a rate limit, each with its own
budget. The mails seen are in memory and in the checkpoint. `overwritten` is
history: a browser thread the login gave up on has written the checkpoint. A mailbox
that cannot be reached fails with the message of a mail that did not come; the model
keeps the two apart, and `TimeoutMeansNoMail` speaks of the second. The clocks of the
mail server and of the console are taken to agree within what the search allows.

## The runs

| Run | Question | Instance |
| --- | --- | --- |
| `ConsoleDb_pool` | do accounts stay with one workspace, in the right role? | 3 inventory accounts in 2 mailboxes, 2 workspaces, 1 run, from empty tables |
| `ConsoleDb_owner` | are used children gone for good, do active runs keep their accounts, and runs live once? | 1 owner, 3 children, 1 workspace, 1 run, from empty tables |
| `ConsoleDb_queue` | do runs, items, workspaces and positions agree, and implement the serial queue? | 3 runs, 2 workspaces with accounts of two mailboxes |
| `TaskQueue_faults` | do memory and tables agree under faults, a crash and a join that gives up? | 2 threads, 1 lifecycle caller: 2 runs of 2 ready workspaces with a fault or a crash, 1 run of them with both, or 1 run of a workspace that is created and edited with one of them (`OneOfEach`) |
| `TaskQueue_live` | is every queued run served across a crash, a restore and a refresh, which excludes runs? | 2 runs, 1 thread, 1 lifecycle caller |
| `Flows` | do the flows on a Team neither repeat nor skip a remote effect, and complete when undisturbed? | below |
| `Aliases` | is no alias lost, do accounts follow their aliases, and does a prepared child stay? | 2 aliases, 2 clicks, 2 threads that switch, 2 settings, 1 fault or death, 2 edits of the workspace |
| `Services` | does what the flows use stay frozen, exclusive and recorded, and end? | below |

`Flows` and `Services` compose models that share no state: `part`, chosen at the
start, says whose steps the behaviour takes. An interleaving of two of them
would show each of them the states it has alone, so every interleaving of their
actions that matters is in one of the parts, and the interactions between parts
are inside the models: `Sessions` has the handoffs that rotate what a refresh
stores, `Alerts` the handoffs of users, `Backups` the runs and the queue,
`Publish` the runs of one child. An invariant that several parts could break is
stated of all of them, one of a single part holds of the others because they
leave its variables alone.

| Part | Instance |
| --- | --- |
| `handoff` | 2 crashes, an error, a stop, a second run, an outsider, a token that expires |
| `undisturbed` | 2 crashes, an error, a valid token, nobody else: the part whose runs must succeed |
| `rescue` | 2 members besides the owner, a limit of 2 removals, a fault, a stop, 2 acts of outsiders |
| `sessions` | 2 children, 3 logins, 2 ends of sessions, 1 fault |
| `alerts` | 2 Teams, 2 children each, 1 mail, 1 change of an account, 1 fault, reset or handoff by the user |
| `publish` | 2 groups, 2 tokens, 2 accounts, 1 manual push, 1 fault, 1 act of administrators |
| `backups` | 1 edit of the sources, 1 fault, 1 crash, 2 backups |
| `network` | 2 proxies, 2 profiles, 1 edit, 1 fault, two runs |
| `capture` | 1 mailbox, 2 captures, 1 edit |
| `chains` | 2 owners, 2 threads, 2 ports, 2 operations, 1 fault |
| `relay` | 2 clients |
| `login` | 2 mails, 1 crash, 1 retry or new run |

`Aliases` has a run of its own, since it is as large as the others together.
`TwoAtATime` bounds what is under way at once in it: a second thread switches only
while there is one alias and nothing else is under way, settings change or a fault
happens only while there is one alias, a crossed switch is over before the mailbox
is worked with again, and the second click comes while nothing is switched. The
proofs have none of these bounds.

The bounds are chosen for the cases: three accounts for two workspaces make the
pool run out; three runs with two workspaces put a retried run, a pending one
and an executing one in the queue together; two threads are what a mistaken
second start needs; two crashes and an error reach a crash during the recovery
of a crash; two outsider's acts bring a removed member back, so that the limit
of a rescue is reached (with that limit, its completion is asked for one fault:
each interruption after the invitation costs a removal more, and the code allows
100); two captures, two owners and two clients are what one may disturb the
other with; two mails are what may be mistaken for each other. Every property a
configuration names is also checked against a mutant: a definition marked so in
the modules, with a mistake that breaks the property.

Properties of one part that belong together are checked under one name:

| Property | Conjuncts |
| --- | --- |
| `ActiveRunKeepsItsAccounts` | `ActiveRunOwnsItsBindings`, and no account of an active run is used up |
| `OneHandover` | `InvitedOnce`, `SuccessIsHandover`, `TokensArePaidFor` |
| `SessionsAreKept` | `RetiredHaveNoSession`, `OneFreshLogin` |
| `AlertsActOnce` | `NoAlertIsSkipped`, `OneHandoffPerChild`, `OneRefreshPerOutage` |
| `PublishedOnce` | `OneAccountPerChild`, `VerifiedIsPublished` |
| `RestorableState` | `PlaintextIsBackedUp`, `QueueFollowsStatus`, `InventoryIsComplete`, `RestoredWorks` |
| `StaleReadsDoNoHarm` | `RefreshedSessionIsStored`, `MeasuredChildIsHandedOver`, `NoRunIsReplaced` |
| `FlowsComplete` | `UndisturbedHandoffCompletes`, `EveryRescueCompletes`, `AlertsAreServed`, `EveryPublicationCompletes` |
| `IdentitiesAreKept` | `ProxiesStayFrozen`, `FingerprintsAreKept`, `ProfilesAreExclusive` |
| `AliasesAgree` | `AliasesAreAccountedFor`, `AccountsFollowAliases` |
| `CapturesAgree` | `ShownAgreesWithStored`, `SettingsAreKept`, `EndedIsShownEnded` |
| `ChainsAgree` | `RelaysMatchConfigs`, `PortsAreDistinct`, `SourceIsCurrent` |
| `LoginCodes` | `CodesAreUsedOnce`, `TimeoutMeansNoMail` |
| `ServicesEnd` | `CaptureEnds`, `StopClosesUpstreams`, `LoginEnds` |

### What the code does otherwise

| Run | Finding |
| --- | --- |
| `TaskQueue_restores` | Two overlapping restores end with two workers executing runs, against `README.md:29`: `shutdown` clears the thread without checking that it is still the one it joined. |
| `Handoff_token` | A refused token counts as the old child's departure once the removal has been started, against `README.md:167`. |
| `Handoff_pat` | A crash between creating the token and saving it creates a second token, against `README.md:167`. |
| `Backups_restore` | A first migration that failed after the import is retried: its verified backup holds a database that says `migration_error`, and restoring it blocks the console, against `tests/test_web_console.py:2607`. |

Three more disagreements follow from definitions of the modules, without a run of
their own:

* the replacement query ignores the workspace's owner (`Replacements`,
  `database.py:2484`), so an owner workspace may get an account of another mailbox,
  while `IMPLEMENTATION_PLAN.md:70` says that owner and children are of one;
* an account that is free when a deactivation of its alias begins may be bound before
  it is deactivated at Apple (`ToggleRemote`, `web_console.py:2605`), which
  `web_console.py:2593` means to refuse; `crossed` names these aliases;
* a first migration that failed before its import was committed fails for ever
  (`StatusIsTaken`): the failure stores the `migration_status` row that the import
  inserts (`web_console.py:766`, `database.py:5709`), though `database.py:5496` gives
  only tables that are not fresh as a reason to refuse an import.

What is left of such a promise is stated: an owner workspace leaves its mailbox
only by a replacement (`MailboxLeftByReplacement`, proved); a bound account has an
active alias unless that was switched while it was bound (`AccountsFollowAliases`);
a failed import has removed nothing (`RestorableState`); each further token is the price of one crash, error or new run (`TokensArePaidFor`);
and a restore blocks the console only with a migration's own backup, as that
migration was (`RestoredWorks`).

`TaskQueue_live` assumes a join that waits. When it gives up, `start()` finds the
queue started, `_closing` stays set and the worker leaves when it is done: queued
runs then wait for the next start of the process.

Further behaviour that no document promises otherwise, and that the properties
except by name or do not state:

* a refresh stores the session of a child that was switched away from meanwhile;
* a refresh that died before it was recorded is started once more;
* a manual push during a run may create a second Sub2API account; it always uses
  the production mode;
* once a run of a child has created its account, a new run with a new token is
  refused; the deletion and the upload of a CPA file are two requests;
* a crash while a CPA file is written may leave plaintext under a temporary name;
* a crash after the removal of the old configuration and before the status
  `complete` leaves `migration_error`; `retry_migration_cleanup` starts the
  queue, not the alerts and the chains;
* `retry_run` (`database.py:4609`), unlike `enqueue`, does not look at the owner's
  group: a workspace that was given an owner while its run had failed runs again
  with accounts that are not that owner's children. `RunLifecycle` says that only
  a retry does this (`CarriesItsGroup`);
* the operator may enable an account whose alias is inactive; a child that was bound
  while its alias was being deactivated is available when it is unbound; two changes
  of one alias at once (`web_console.py:2617`) may leave Apple, the row and
  the account with different states;
* two captures may be at work at once after a cancellation;
* two ports chosen at the same time may be equal; the answer of an older source
  may be cached when it was asked while the new one was stored; a second hop may be
  cached for a configuration whose relay is not running (`proxy_chain.py:1304`), and
  is not asked again when the relay starts;
* a phone gate renews the delays for rate limits, so a login may start over eight
  times; a browser thread left behind may take seen mails out of the checkpoint;
  a new run begins with none.

### Fairness

`TaskQueue`: the operating system schedules the worker; runners and refreshes
return because every remote call has a timeout; an API thread in a lifecycle call
goes on; a dead process is started again. No fairness is asked of users, and
`QueuedIsServed` speaks of a queue left unpaused, without reorderings, by which a
user may keep a run waiting for ever.

`Flows`: in the part `undisturbed` the runner and the worker go on, the Team
applies what it has accepted, and the user retries a failed run; nobody stops it.
Without the retry a failed run stays failed. In `rescue` likewise, and a
cancelled one is started again. The alert thread polls and runs end; a run that
publishes goes on and is retried. `MCFlows` states these as conditions on
disjunctions of one action of each part: since one part acts, each disjunct is
treated fairly. `Sessions` and `Backups` need none.

`Services`: the threads of a relay and of a login go on, their calls have
timeouts; the wait in a capture's window has a deadline. Nothing is asked of
users, of clients, of arriving mail or of the other end of a connection.

## The proofs

Every theorem holds for all values of the constants that satisfy the named
assumptions of its module: sizes and bounds are arbitrary, and the names that
stand for states or for nobody (`None`, `"free"`, `"none"`) are not among the
identifiers. The runs show the same properties on small instances; each
inductive invariant was also checked by TLC before it was proved.

`ConsoleDb_proofs`:

* `TypeCorrect`: the type invariant;
* `ItemsAgree` and `TablesAgree`: `RunAndItemAgree` and `WorkspaceAgreesWithRun`.
  Neither is inductive: a transaction that ends a run writes the status of the
  run's workspace, so the run must have one (`RunHasWorkspace`), and the last
  conjunct needs that two active runs never share it. `Agree` is the conjunction;
* `OrderKept`: `QueueOrder`, from `Agree`, with one lemma for each of the four
  transactions that write positions and one for those that only take runs out;
* `TablesAreASerialQueue`: `Spec` implements `SerialQueue`. Each transaction maps to
  one operation or to a stutter: enqueue and retry to `Submit`, the claim to
  `Take` (all pending runs can be claimed, by `Agree`, so that the first of those
  is the first of all), a stop to `Withdraw`, recovery to `Interrupt` (the running
  item is ahead of the pending ones, by `QueueOrder`), the ends to `End`.

`Accounts_proofs`, over all transactions:

* `PoolAgrees`, `UsedStayOut`, `RunsKeepTheirAccounts`: `BindingsAndStatusesAgree`,
  `UsedChildrenStayOut`, `ActiveRunKeepsItsAccounts`, from one invariant, `PoolInv`.
  They need each other: a rotation keeps the pool in order only if the run still
  has the accounts it was queued with, and those stay because a used child is
  neither free nor bound. `Pool` adds what the roles of an owner workspace may
  be, `RunRows` what the columns of a run are;
* `UsedOnlyWhenSucceeding` and `RunsLiveOnce`: the action properties
  `UsedOnlyByRotation` and `RunLifecycle`;
* `MailboxKeptButByReplacement`: a workspace whose accounts are of its owner's
  mailbox leaves that mailbox only when one of its accounts is replaced, by the
  user or by a run that fails. A rotation keeps it because an owner's workspace gets no next child.

`TaskQueue_proofs`:

* `QueueTypes`: the types of memory and threads;
* `QueueUsesTables`: every step of the queue is a transaction of `ConsoleDb` or
  leaves the tables alone, so that all theorems about the tables hold here, and
  `QueueIsSerial`: the queue with its threads, faults and crashes implements
  `SerialQueue`;
* `OneWorkerThread`, `MemoryAgrees`, `RefreshAlone`, `StopPrevails`, `OneAtATime`, under
  the hypothesis `OneCaller`: one lifecycle call (restore, shutdown) at a time.
  The hypothesis is needed - `TaskQueue_restores` shows two workers with two
  overlapping restores - and `Callers` with one member is what a console whose
  lifecycle calls follow one another does. `ThreadInv` says which thread may be
  alive beside the remembered one: none, unless a join gave up, and then nobody
  starts another; `WorkInv` where the run in memory, the refresh and the stop
  event are at each place of the worker.

`Team_proofs`, of a handoff for any number of crashes, errors, stops, runs and
outsiders, of a rescue for any members and limit too:

* `HandoffTypes`, `InviteAndSuccess` (`OneHandover`), `LeaveNeedsInvite`,
  `PatNeedsHandover`, from `TeamInv`. What a run may rely on when its checkpoint is
  lost is only in the Team: after the invitation the new child stays invited or
  is a member (`Welcome`), and nobody but the old child leaves it. The tokens
  made are one for each checkpoint that holds one and one for each interruption
  that may have lost it;
* `DepartureFirst`: `NewLoginAfterDeparture`, if the token does not expire; with
  one that does, `Handoff_token` refutes it;
* `RemovalsLimited`: `RemovalsAreBounded`. `Counting` relates the count in memory
  to the saved one inside the loop, and lets the requests exceed the saved count
  by one while a removal is confirmed; only a cancelled run keeps that one
  uncounted, and its successor starts from nothing;
* `InvitedKept`: `InvitedChildIsKept`, from `Clearing`: the invitation is saved
  after the clearing, and both together lock the loop. `RescueTypes` is the type
  invariant;
* `HandoffAttemptsEnd` and `RescueEndsAttempts`: an attempt comes to an end (below).

`Services_proofs`:

* `AliasesTyped`: the types of the aliases, which no run checks;
* `AliasesAreKept` and `NextChildStays`: `AliasesAgree`, `NextChildIsNotReplaced`.
  `AliasInv` says what an operation that holds the lock has in hand (an alias
  nobody else knows), that rows have their alias at Apple, and that the account a
  change of state saw moves only with it. The last is what a second change, an edit,
  a replacement or the operator break, hence `crossed`; `WorkspaceMovesKeep` is what
  those four still keep;
* `CapturesAreKept`: `CapturesAgree`. A capture that no other disturbed is the one
  the manager knows, and what a writer has read is current unless the other wrote;
* `ChainsAreKept`: `ChainsAgree`. Under the apply lock the relays are between the
  old and the stored configurations (`Applying`); a port belongs to one owner
  unless two were chosen at once; a cached hop is of the current source or of
  one that is being asked again, and its relay was running (`HopsAreCurrent`);
* `IdentitiesKept`: `IdentitiesAreKept`. A snapshot is written whole, an account's
  fingerprint is stored before it is used, a reserved profile has one owner;
* `StartsAreBounded` and `CodesAreNotWasted`: `AttemptsAreBounded` and `LoginCodes`.
  A mail is remembered before its code is submitted, in memory and on disk; the
  budgets left bound the starts (`StartsLeft`);
* `ChainsAreTyped`: the type invariant of the manager, which needs which thread
  holds the apply lock and that every source a relay or a cache has was once
  configured;
* `StoppedRelay`: `StoppedHasNoClients`. `Stopping` says that an open client is in
  `_active` or was just accepted, and that nobody enters `_active` once the event
  is set, so that what `stop` closes is everything;
* `NoSocketLeft`: `NoSocketIsLeft`, from `Serving`, what a thread has opened and
  said at each of its places;
* `LoginsComeToAnEnd` and `CapturesComeToAnEnd`: below.

`Flows_proofs`:

* `SessionsTypes`, `SessionsKept`, `RefreshStores`: types, `SessionsAreKept`,
  `RefreshedSessionIsStored`. The session a refresh works with is of its own
  login or of the stored cookie, and one program at a time uses it;
* `BackupsTypes`, `BackupsRestorable` and `NoRunUnderARestore`: types,
  `RestorableState`, `NoRunIsReplaced`.
  What was removed belongs to the import the database records, what an operation
  has in hand too, and a finished migration was imported; hence the file a
  cleanup removes is in a backup of the same import. At most one request is past
  the gate, and while it works the queue is closed or nothing runs;
* `PublishedAsVerified`: `PublishedOnce`. The account a request is about was found
  or created by that pusher, and unless two overlapped nobody creates another
  between the look and the creation;
* `AlertsTypes`, `AlertsOnce` and `MeasuredIsHandedOver`: types, `AlertsActOnce`,
  `MeasuredChildIsHandedOver`.
  A child that was handed over from and is still current keeps its latch and its
  bound successor (`HandedOverOnce`), so a restart sees one of them; `RefreshesAreOwed`
  is the same for refreshes, counted; a child that was never current was never
  acted upon (`NothingAhead`); the cursor never passes a mail whose measurement
  is not complete (`MailsAreFollowed`).

`MCFlows_proofs` and `MCServices_proofs` carry this over to the specifications the
runs `Flows` and `Services` check, for all values of their constants:

* `FlowsTypes`, `FlowsAreSafe`, `FlowsRemoveInOrder`, `StaleReadsAreHarmless`: all
  invariants and action properties of the run `Flows`. Each step of `FlowsSpec` is
  a step of each flow or leaves it alone (`FlowsStep`); for the part `undisturbed`,
  which runs `Handoff` with other constants, this is a lemma of its own
  (`UndisturbedIsAHandoff`). `StaleReadsDoNoHarm` combines what `RefreshStores`,
  `MeasuredIsHandedOver` and `NoRunUnderARestore` say;
* `ServicesTypes`, `ServicesAreSafe`, `ServicesLoseNothing`: the same for `Services`.

Liveness under fairness is outside the prover's reach, but what it rests on here
is not: that the attempts are finite. Five theorems give a measure that every
step of the one who is to finish makes smaller, and that nobody else makes
larger except by beginning anew:

| Theorem | Measure | Begins anew |
| --- | --- | --- |
| `HandoffAttemptsEnd` | the stages left, at most 18 | the next attempt |
| `RescueEndsAttempts` | the stages left and three for each removal left | the next attempt |
| `PublicationsComeToAnEnd` | the requests left, at most 13 | the next attempt |
| `LoginsComeToAnEnd` | logins, starts over, pages and untried codes left, in this order | the next run |
| `CapturesComeToAnEnd` | the places left, at most 9 | nobody |

What liveness adds is that the thread goes on, that retries come, and that an
attempt which nothing disturbs ends well. That stays with TLC: `FlowsComplete`,
`ServicesEnd`, `QueuedIsServed` and `StoppingEnds` are only model-checked. They use
fairness and `ENABLED`. So is what the runs that expect a violation refute.

## Plan

1. `ConsoleDb`, `SerialQueue`, `QueueRefinement`, `TaskQueue`, `Handoff`, with their
   proofs (done).
2. `Rescue`, `Sessions`, `Publish`, `Alerts`, `Backups`, `RunNetwork`, `Aliases`,
   `HmeCapture`, `ProxyChains`, `ChainRelay`, `Login`, and the proofs of `Rescue` and
   `ChainRelay` (done).
3. The import of Teams and of mailbox lists beside `ConsoleDb`; a restore's tables
   together with `TaskQueue`.
4. Proofs of the pool, of the lives of runs, of `TaskQueue`, of the services and of
   the remaining flows, and that the tables and the queue implement
   `SerialQueue` (done).
5. The composed specifications and the measures of the attempts, with their
   proofs (done).
6. The lemmas of `TaskQueue_proofs` with more than one lifecycle caller, as far as
   they are true.

## Not modelled

* The import of Teams and mailbox lists (`web_console.py`, `database.py`): long
  validations and one transaction each; their effect on the pool is the creation
  of accounts in `ConsoleDb`.
* The pages inside one login attempt, sentinel tokens, fingerprint generation,
  parsing of proxies and mails: sequential input and output, one outcome each in
  `Login`, `RunNetwork` and `ProxyChains`.
* Requests that timed out and are applied later than the next look at the
  service.
* Encryption, the ChatGPT client, the display of the command line and the front
  end: no state of the system.

# Verification of agola

TLA+ models of agola's services, TLC configurations that check them on small
instances, and TLAPS proofs of the properties that matter most. agola is a CI/CD
system: a *runservice* stores runs (graphs of tasks) and drives them, *executors*
run the tasks in pods, a *scheduler* decides which queued runs start, a *gateway*
is the users' API, a *configstore* keeps projects and users, a *notification*
service reports run results.

Paths below are relative to the repository; `scheduler.go` is
`internal/services/runservice/scheduler.go` and `executor.go` is
`internal/services/executor/executor.go` unless said otherwise.

## Inventory

| part | state | operations | hard behaviour | what makes it correct |
|---|---|---|---|---|
| **run scheduler** (`scheduler.go`) | rows `run`, `executortask`, `executor`, `runevent` | `runsScheduler`/`scheduleRun` (read, advance, submit), `handleExecutorTaskUpdate`, `executorTaskCleaner`, `fetcher`, `finishedRunArchiver` | several goroutines act on the same run in several transactions each; executors vanish; reports come late | tasks start only when their dependencies allow it; the result agrees with the tasks; data is fetched before its executor task goes; a run finishes and is archived |
| **runservice actions** (`runservice/action/action.go`) | runs, run configs, change groups | create, recreate, change phase, stop, approve, set annotations | requests arrive at any moment of the scheduler's steps | nothing committed is taken back; events tell the truth |
| **runservice executor API** (`runservice/api/executor.go`) | executors, executor tasks, caches, archives | status of executors and of their tasks, removal of executors | reports are stored in the order they arrive | see run scheduler |
| **executor** (`executor.go`) | `runningTasks`, pods, task data | `taskUpdater` (called by `tasksUpdater` and `handleTasks`), `executeTask`, status senders, cleaners | goroutines, locks held during setup, restarts, outdated lists, lost posts | a completed task isn't executed again, unless a post outlives a restart; data kept until fetched; every task ends; nothing leaks |
| **object store** (`internal/sql`, `runservice/db`) | rows with revisions | `Do` with retries, `Insert`/`Update`/`Delete` of objects | serialization failures, retries with objects held in memory | no committed update is lost |
| **scheduler service and change groups** (`internal/services/scheduler`, `action.go`) | phases of runs, change groups | `schedule`, `scheduleRun`, `UpdateChangeGroups`, `compactChangeGroups`, `approve` | three calls per start, several schedulers, tokens that disappear | one running run per group, in order; no queued run is forgotten |
| **run config algorithms** (`internal/runconfig`, `internal/config`) | none | `ParseConfig`'s checks, `MatchWhen`, `CheckRunConfigTasks`, `GenTasksLevels`, `GetAllParents`, `GenRunConfigTasks` | cycles, conditions, two checks that must agree | agree with their definitions on graphs |
| **run events, notification** (`internal/services/notification`) | last event | `runEventsHandler`, `sendRunEvents`, commit statuses | reconnections, locks, lost events, statuses that share a context | the last status of a run is reported |
| **locks** (`internal/lock`) | local map, Postgres advisory locks | lock, trylock, unlock | reference counts, lost connections | mutual exclusion, no leaked entry |
| **executor drivers** (`executor/driver`) | pods, leases | pods, `updateLease`, `cleanStaleExecutorsLease` | lease expiry | only dead executors are removed |
| **configstore** (`internal/services/configstore`) | users, tokens, linked accounts, remote sources, orgs, members; the tree of project groups with projects, variables, secrets | create, update, move, delete, list | moves that cross, names taken twice, references by path that change their meaning | no cycles, unique names, the nearest variable and secret win, lists are complete |
| **gateway** (`internal/services/gateway`) | none of its own; deploy keys and webhooks at the git source | authorization, all the users' requests, webhooks, manual runs, restarts, approvals | every request is several calls to other services: checks are stale when used, calls fail midway, answers are lost | nobody acts on what isn't his; the git source agrees with the projects; a delivery creates its runs; runs are numbered without gaps |
| **gitserver** | bare repositories | push, clone, repo cleaner | cleaner against push | no ref of a recent push is removed |
| **object storage** | files | atomic write, list, delete | crash during a write | no partial object |
| others: configuration parsing, git sources, command line, toolbox, export/import/migration | | | | see `PROJECT.json` |

How they interact: the gateway creates, stops and approves runs through the
runservice's API. The scheduler polls the runservice and asks it to start runs. The
runservice posts executor tasks to executors, which also list their tasks
periodically and report statuses; the runservice fetches logs and archives from
the executors. The notification service follows the runservice's stream of events.
Every service keeps its objects in a database (sqlite3 or Postgres) through
`internal/sql`. Within the runservice the goroutines only share the database and
locks.

`PROJECT.json` lists the hazards (at their lines) that the properties are for.

## Modules

| module | what it is |
|---|---|
| `RunScheduler` | one run in the runservice: workers, reports, cleaner, fetcher, archiver, API requests |
| `RunSchedulerLive` | its fairness and liveness properties, with bounded faults and requests |
| `RunSchedulerProofs` | TLAPS proofs about it |
| `Executor`, `ExecutorProofs` | one executor against an abstract runservice; proofs |
| `ObjectTx`, `ObjectTxProofs` | transactions with retries and optimistic locking; proofs |
| `GroupQueue` | abstract specification: one FIFO, one-at-a-time queue of runs per group |
| `RunQueue`, `RunQueueProofs` | schedulers, runs' phases and change groups; proof that they implement `GroupQueue` |
| `ConfigDB`, `ConfigStore`, `ConfigAPI` | the configstore's tables and queries, operations, HTTP handlers, as functions of the database |
| `GatewayOps`, `GatewayAPI` | the gateway's operations on the configstore's objects; its authentication, handlers and routes |
| `Gateway`, `GatewayProofs` | composition: sessions of the gateway that interleave, the configstore, the git source; proofs about the database |
| `RunConfig` | configurations, conditions, graphs of tasks |
| `RunDB`, `RunAPI` | the runservice's tables and queries, its operations on runs, HTTP handlers |
| `RunGateway` | the gateway's operations on runs: webhooks, manual runs, actions, lists, logs, badges |
| `Runs`, `RunsProofs` | composition: sessions of the gateway, runservice, scheduler service, executors, fetcher, notification services; proof about approvals |
| `RunNumbersProofs`, `RunReportsProofs` | proofs about `Runs`: the numbers of runs; the logs of tasks and the commit statuses |
| `MC*` | instances for TLC |

A definition named `X_slip` just above `X` is `X` with a plausible mistake. It is
used by nothing; putting it in the place of `X` shows that the property it is
listed with in `PROJECT.json` (`mutants`) can fail.

### RunScheduler

State: the run's row (`phase`, `result`, `stop`, `archived`, and per task `status`,
`waiting`, `approved`, `logs`, `archives`), the executor tasks (`et`), the executors
(`registry`), the run's `events`; per worker its program counter and what it holds
between transactions (`ets`, `todo`, `cur`, `chosen`); per task the fetcher's step;
`submits` counts the executor tasks inserted for a task (history).

A *worker* is an invocation of `scheduleRun` or of `handleExecutorTaskUpdate`:
both the goroutine of `runsScheduler` and that of the executor task updates call
them, and several runservices may run against one database. A transaction is an
action. `scheduleRun` is `ReadRun` (the first transaction), `AdvanceRun` (the
second: `advanceRun`, `advanceRunTasks`, stop of executor tasks, event, update),
then `NextTask`/`ChooseExecutor`/`InsertExecutorTask` for each task of
`getTasksToRun` (three transactions in `submitRunTasks`). Other steps may come
between any two. An update of a row that changed since it was read fails: instead of
revisions the model marks the worker `stale`, and `AdvanceConflict` is all it can do.
`ExecutorProgress`, the task's real progress on the executor, is external;
`ExecutorTaskStatus` stores what the executor reports, with `LateMessages` also
earlier phases and reports of removed executors. `taskFetcher` is `TaskFetcher`
(taking the lock), `FetchLog`, `FetchArchive`, `FetchFails` and
`DeleteExecutorTask`. `WorkerAborts` and `FetcherAborts` are errors and restarts.

Abstracted: the setup log and the logs of steps are one flag per task, archives
too; executors' labels and architectures are `CanRun`; the post of an executor task
is part of the step that precedes it, as its loss makes no difference to the
runservice (the executor lists its tasks anyway).

### Executor

State: the runservice as the executor sees it (`db`, `submitted`, `ended`), messages
(`posts`, `answers`), `runningTasks` (`rt`, each entry with its copy of the executor
task, its context and the step of `executeTask`), the two callers of `taskUpdater`
(`adding`, and `round`/`list`/`left` for `tasksUpdater`), executions removed from the
map that still unwind (`zombies`), `pods`, `data`. Every access to `runningTasks`
under its lock is an action; the entry's own lock, which `executeTask` holds during
the setup, makes `taskUpdater` and the sender wait. A task's setup, and its steps, are
one action each.

`data[t]` is what the task's directory holds: nothing, the beginnings of an execution,
the logs and archives of one that is over, or what is left of these when an execution
that `tasksUpdater` swept has removed or added something. `setupTask` removes the
directory first (`executor.go:806`), in `StartTask` and, for an execution swept before
its setup, in `ZombieEnds`. `Crash` loses all but pods and data. The posts stay: the
runservice makes them after its own commit, in a goroutine of its own, and knows nothing
of the restart. `late` (history) are the tasks with a post that starts them under way at a
restart; `NotExecutedAgain` and `DataKept` except them (see the findings).

### ObjectTx

Operations (`Ops`) update a few rows each in one `Do`. `Held[o]` are the rows whose
objects `o` read in an earlier transaction, as `scheduleRun` does. `Update` increments
the revision in memory and in the transaction; a serialization failure restarts the
function with the objects in memory as they are; the objects the function reads
itself are read again. In sqlite3 transactions exclude each other (`BEGIN
IMMEDIATE`); in Postgres they are concurrent, with row locks and first-updater-wins.
The data of a row is the set of operations whose update it contains.

### RunQueue

State: `last`, `phase` and `group` of runs; per scheduler its step, the page, the
groups it found, and the group, run and token at hand. The value of a change group is
reduced to whether it is still the current one. `Covers[g]` are the groups whose path
matches the path of `g` when it is used as a LIKE pattern (`db.go`,
`getRunsFilteredQuery`), which for names with `_` or `%` is more than `g`.
`StartRun` is `ChangeRunPhase` with a token, `CancelRun` without.
The refinement mapping to `GroupQueue` gives each group its queued and its running runs.

### Gateway, and the modules below it

The configstore's database is a record of tables, each a set of rows (`ConfigDB`); a
reference in a request is a uuid, a name or a path (`ByID`, `ByName`, `ByPath`), and is
looked up when the transaction runs. An operation of the configstore (`ConfigStore`,
one operator per method of `action/`) maps the database its transaction starts from to
the one it commits, or is `Refused`; that transactions are serializable is `ObjectTx`'s
subject. The gateway keeps no state, so an operation of it (`GatewayOps`) is what it
decides from its reads: a *plan*, the steps it will take and what it remembers for
them; a request that is refused has none. `Gateway` runs the sessions. `Arrive` is the
authentication, the reads and the decision; `Call` the configstore's transaction;
`RefreshLinkedAccount`, `UpdateUserLA`, `GetRepoInfo`, `UpdateDeployKey`,
`CreateRepoWebhook`, `DeleteDeployKey`, `DeleteRepoWebhook` the calls to the git source
(external, as the gitea client uses it); `UndoCreate` deletes the project whose setup
failed; `Oauth2Callback` is the return of a user from the remote source. Between any two
of them other sessions run. `CallLost` and `GitFailed` are calls that fail, or whose
answer is lost after the commit; `Crash` ends all the sessions of a gateway. History:
what the caller owned when the gateway looked (`roots`, `held`), and the projects whose
setup or cleanup was cut short or overlapped (`dirty`).

Abstracted: names are members of an ordered set (`NameOrder`), ids are numbers, a
secret's data and a variable's values are what `GetVarValueMatchingSecret` looks at.
`MaxDepth` bounds the walk up the tree; a walk that would exceed it is `Endless`, which
`HierarchyEnds` shows doesn't happen.

### Runs, and the modules below it

The runservice's database is modelled the same way (`RunDB`, `RunAPI`): sequences,
change groups, runs, run configs, counters, events, executor tasks. A session of the
gateway reads and decides in `Arrive` and makes its calls in `Call`, `CreateNext` (one
turn of the loop over the runs of a configuration), `RecreateRun` followed by the save
(two transactions in the code), `DeleteLogsCall`, and `ReadLogs` followed, for a log that
isn't fetched, by `ReadExecutorLog` (again two transactions). `StartRun` is the scheduler service, here in one step
(`RunQueue` has its calls); `ReadApprovals` and `ApproveTask` are its approval loop, with
the change group it takes; `compactChangeGroups` removes groups in between.
`AdvanceRun`, `SubmitTask`, `TaskEnds`, `TaskFetcher`, `DropExecutorTask`,
`finishedRunArchiver` are the runservice's loops, a transaction each (`RunScheduler` has
their races). `ExecutorLoses` makes logs and archives of a task unavailable (`missing`):
the executor was removed, or answers 404. The fetcher then marks the part as fetched and
stores nothing (`scheduler.go:1037`, `1069`, `1248`, `1271`), as it does for a task
cancelled before it started. `Connect`, `SendRunEvents`, `HandleEvent`, `EventFails` (a
report that fails is logged and forgotten, `notification/runevents.go:103`) and
`Disconnect` are the notification services, the runservice's stream of events and the git
source's statuses.

Abstracted: who may act on a project's runs is the constant `Owners` (`CanDoRunActions`
itself is in `GatewayOps`); a query by group compares the parts of the path, the last of
which, a reference's name, is a LIKE pattern: `Like` are the pairs of a name and another
that it matches, by `_`, by the `%` of an escaped character or, in sqlite3, by case (the
theorems are for any such pairs); a condition is the set of names it matches; a log is where it
is, in the executor or in the object store, and not what it says.

A *scenario* (`Scenarios`, defined in `MCRuns` and `MCGateway`) is an initial database
made by the system's own operations, the requests that may come, and for `Runs` the
parts that are at work.

## Runs

| run | instance | shows |
|---|---|---|
| `chain` | tasks a -> b (b needs an approval, a saves a workspace), two workers, reports late and out of order | `DependenciesRespected`, `EventsMatchRun`, `SubmittedOncePerWorker`, `ArchivedComplete`, `ResultConsistent`, `KeptUntilFetched`, `NothingTakenBack` |
| `handler` | a, its failure handler b, d after a that the run config skips, c after b and d or their skipping; one worker, an executor that may be removed, late reports | `WorkspaceComplete`: judging readiness by direct parents is enough, except for what comes before a task that the run config skips |
| `live` | a -> b, a may run for ever, two executors one of which may go, one fault, three requests | `RunFinishes`, `FinishedRunArchived`, `StoppedRunFinishes` |
| `executor` | one executor task, limit one, two restarts, posts before and after them | `NotExecutedAgain`, `DataKept`, `EveryTaskEnds`, `StopEnds`, `Released`, `PostsAnswered` |
| `postgres` | scheduleRun (holding its objects), a report, its handling, another event | `NothingOfFailed`, `NoLostUpdate`, `OverwritesNothing` |
| `queue` | two schedulers, two groups one of which matches the other, three runs, pages of one, one fault | `IsGroupQueue` (refinement), `QueuedRunLeaves` |
| `gateway` | six scenarios (a user's tree, an org's, accounts with passwords and with oauth2, git sources, expired tokens), two sessions, any three of a scenario's requests, one fault | `HierarchyEnds`, `UniqueRows`, `NearestWins`, `PrivateHidden`, `PagesCoverList`, `HooksMatch`, `OwnedByCaller` |
| `runs` | eight scenarios (deliveries, approvals, restarts with deletions of logs, events, all graphs of three tasks, requests for logs, a restart with lost archives, a branch that is LIKE another one), two sessions, two notification services, one fault | `RunNumbers`, `DeliveryComplete`, `ApprovedByUser`, `LogsServed`, `RestartConsistent`, `CommitStatusCurrent`, `RunConfigsSound` |
| `atmostonce`, `cancelled`, `sweep`, `retry` | smallest instances | the findings below |

Bounds, and why they are enough. *Two tasks in a chain, four in the handler*: every
condition on a parent, a skipped parent between two tasks and an ancestor that is not a
parent occur. *Two workers*: a worker's steps can fall between any two of another's; a
third would only repeat what the second does, and the proofs are for any number.
`EarlyStop` (constraint of `chain` and `handler`) lets one task be fetched at a time and
excludes a stop after the first task; in `handler` the sibling that removes a stale
executor keeps its own status (`SiblingUsable`); `live` has neither restriction, and the proofs
cover all the properties of both runs without these constraints. *One task in `executor`*: tasks of
one executor share only the limit, and the goroutines that wait for a task's lock. *Two
restarts* let a restart hit the recovery from the first. *One fault in `runs`*: a lost
call, a part that isn't fetched or that the executor lost, a compaction, a failed report
or a broken connection, each with every order of the other steps around it. *MaxTxRetries 1* instead of 20:
one retry already has the objects of the first attempt in memory; the theorems are for
any number. *Three runs in two groups*: a group has a queue of two while the other,
which matches it, has a run. *One fault* in `live` and `queue`: each fault leads back to
a state from which the other steps go on as before. *Three requests in `gateway`*: two
that interleave and one before or after them; the requests of a scenario are chosen so
that any of them get in each other's way, e.g. two moves that would close a cycle, a
move between the check and the call of a deletion, a creation that takes the name a
rename is about to take. The `runs` scenarios have one to three requests, with every
step of the loops in between; *three tasks* have all the shapes of a cycle and of a
common dependency through another task; *pages of two* make lists and events of three
take two pages. *`MaxTokens` 2* is one refresh. Requests that are refused are followed
to the refusal. Symmetry (of workers, sessions, notification services) is only used
without liveness. Deadlock is checked, except where all operations are finished
(`postgres`, `retry`) or the requests are used up (`live`, `cancelled`, `gateway`,
`runs`).

Fairness. The loops of the runservice, the executor and the scheduler run for ever
with a sleep in between, so each of their steps is weakly fair. Two are strongly fair
in `RunSchedulerLive`: a worker's update conflicts only when somebody else's update
succeeded, and retries every second or so (`AdvanceRun`); the report of a task
waits in a channel for a free worker (`HandleExecutorTaskUpdate`). Executors that are
registered report and make progress; tasks in `Endless`, and steps of the executor,
need not end. Faults and requests are finitely many. In `RunQueue` running runs end,
which is what `RunFinishes` shows. A post that
reaches the executor is received at last (Go's channels serve their senders in order, its
locks don't starve a waiter), provided the setups of tasks end; but any post may be lost
before. `Gateway` and `Runs` have safety properties only: a gateway that makes no
further call is one of their behaviours.

## Findings

* `atmostonce`: `common.go:133` promises at most once execution of a task. A worker
  with an outdated list submits a task that has been completed and fetched meanwhile.
  What holds is `SubmittedOncePerWorker`.
* `cancelled`: a run cancelled in the queue is never archived, because the fetch phases
  of its tasks are only completed inside the block for runs with a result
  (`scheduler.go:660`).
* `sweep`: `tasksUpdater` cancels a task that was submitted and started after the list
  it compares with was read (`executor.go:1130`).
* `retry`: with Postgres the retry of `scheduleRun`'s transaction runs with the
  incremented revisions of the first attempt, and can overwrite an update committed
  in between. `NoLostUpdate` and `OverwritesNothing` show that only such retries can.

Four more disagreements are the exceptions of properties of `executor` and `runs`; without
its exception TLC finds each of these properties violated on the same instance:

* `NotExecutedAgain`, `DataKept`: again `common.go:133`. A task may be executed from the
  list before its post comes; when the executor restarts in between, its map of running
  tasks is empty and the post, a copy from before the start, makes it execute the
  completed task again (`executor.go:1201`) and remove its logs and archives
  (`executor.go:806`). The properties show that it takes such a post.
* `LogsServed`: "if the log has been already fetched use it"
  (`runservice/api/api.go:135`), but a log that is fetched, and whose executor task is
  removed, between the two transactions of a request (`112`, `157`) isn't used: the answer
  is that it doesn't exist. The same request made again finds it.
* `RestartConsistent`: "can restart only if the successful tasks are fully archived"
  (`services/runservice/types/run.go:162`), but a task whose archive the executor didn't
  have any more counts as such (`scheduler.go:1248`, `1271`), and the restarted run keeps
  it; the tasks that depend on it find no workspace.
* `RunNumbers`: the badge of a branch `a_b` is that of the last run of the groups that
  match it as a pattern, e.g. of the branch `axb` (`runservice/db/db.go:321`).

Other disagreements met while modelling, not checked by a run of their own: a run can
be marked finished while a task inserted by an outdated worker is running, contrary to
`types/run.go:87`; the cleaner tells executor tasks of a finished run to stop only
inside the block for tasks that ended (`scheduler.go:902`); the fetcher meets cancelled
root tasks without executor task, which `scheduler.go:1032` says "shouldn't happen"; an
execution that `tasksUpdater` swept before its setup empties the directory of the task's next
execution, or adds to it (`executor.go:806`; `DataKept` excepts what it damages); an
executor at its limit starts one more task (`executor.go:1205` compares with `>`); the
entry of an ended task stays in `runningTasks` after its status was sent, the `select`
at `executor.go:1080` looks at the wrong context; the change groups aren't what keeps the runs of a group
apart: the proof of `RunsAreQueued` doesn't use the tokens, as a scheduler only ever
starts a run that is still the first queued one.

Of the gateway and the configstore: a refreshed oauth2 token is never stored, as the
configstore's `UpdateUserLA` writes the user (`configstore/action/user.go:392`), although
`gateway/action/user.go:298` says that the linked account is updated; users' API tokens
are only looked at when an administrator's token is configured
(`gateway/handlers/auth.go:62`); the linked accounts of a deleted user stay; the role of a
member can't be changed; `RemoteSource` requests lose the ssh host key
(`configstore/api/remotesource.go:89`); a project is checked by path and deleted by path in
a later call, so that another one may be deleted than was checked, of the same owners
(`OwnedByCaller`), and the webhook of the first is removed; two reconfigurations that
overlap leave two webhooks, one that overlaps a deletion leaves one (`HooksMatch` excepts
them).

Of runs: one of two concurrent approvals of a task is lost, since the annotation is read
and written in two calls with an empty token (`gateway/action/run.go:279`); the second
task approved in a round of the scheduler fails on the token the first changed, and waits
for the next round (`scheduler/scheduler.go:175`); a delivery whose third run fails leaves
two, and its redelivery makes all three (`DeliveryComplete` says how many there can be);
events between two connections of the notification service are never delivered, so that a
commit may keep an old status (`runservice/api/api.go:983`), and so is an event whose
report failed, which is only logged (`notification/runevents.go:103`; `CommitStatusCurrent`
excepts both); the log of a task whose executor is gone before the fetch is marked as
fetched and can't be read any more (`scheduler.go:1037`; excepted in `LogsServed`); two runs of one name for one commit overwrite each other's status; the place of
the setup log is looked up by the phase of the step's log (`runservice/api/api.go:137`;
excepted in `LogsServed`); the logs of a task that a restarted run keeps are shared, and
deleting them in one run deletes them in the other; a request for a run by number that
fails goes on without a run (`runservice/api/api.go:546`); a restarted run loses its
environment, which the gateway doesn't send (`runservice/action/action.go:386`).

## Proofs

For every value of the constants that meets the `ASSUME`s: types of the run config,
`None` distinct from other values, bounds that are natural numbers, finitely many
workers (`WorkersAssumption`), initial databases of the scenarios that are in order
(`ScenariosAssumption`): for `Gateway` without duplicate rows, for `Runs` with ids that were
given out and nothing approved or executed yet, and configurations with finitely many tasks.
These databases are made by the system's own operations, and TLC evaluates the assumptions
on those of `MCGateway` and `MCRuns`.

`RunSchedulerProofs`. All the safety properties of `RunScheduler`.

* `TypeInv` adds to `TypeOK` what a worker holds at each program counter (`LocalOK`) and
  that the executor tasks in the snapshot of a worker about to stop them still exist.
* `StepKeeps` shows for every step that finished statuses, approvals, archives, results,
  stops and phases stay: that is `NeverTakenBack` (`NothingTakenBack`) and makes `MayRun`
  stable.
* `DependenciesRespected` isn't inductive, since a worker holds tasks across
  transactions: `DependInv` says that what it holds may run.
* `ResultConsistent` needs that no worker is busy with a run that isn't started
  (`ResultInv`).
* `ArchivedComplete` and `KeptUntilFetched` need that the fetcher only works on finished
  tasks and deletes only what is fetched (`FetchInv`).
* `EventsMatchRun`: phases and results only go forward, so an event that differs from the
  current one can't come again; `EventInv`: every event has a higher rank (`EventRank`)
  than the ones before it.
* `SubmittedOncePerWorker`: a task can be submitted again only by a worker that holds it
  since before it was finished. `SubmitInv` counts: until a task is finished it was
  submitted once if it has an executor task and never otherwise; from then on the
  submissions and the workers that may still submit it (`Holders`) are together at most
  the workers, as nobody takes it up any more and the worker that finished it doesn't hold it.
* `WorkspaceComplete`: readiness looks at direct parents. `WorkspaceInv` says that
  until the run is set to stop tasks are finished in the order of the graph
  (`FinishedInOrder`), so that a task taken up by a worker has all the ancestors it waited
  for finished and fetched (`Complete`), and keeps them while the worker holds it. The
  attempt to prove it for every run config failed where the run config skips a task: it is
  skipped before its parents are finished, and a task that follows its skipping starts
  without their workspaces. `Ancestors` now says so, and the `handler` run has the case.

Theorems: `TypeCorrect`, `DependenciesAlwaysRespected`, `ResultAlwaysConsistent`,
`NeverTakenBack`, `ArchivedAlwaysComplete`, `ExecutorTaskKeptUntilFetched`,
`EventsAlwaysMatch`, `SubmittedAtMostOncePerWorker`, `WorkspaceAlwaysComplete`.

`ObjectTxProofs`. `LockInv` relates a transaction in progress to the rows: those it has
written are unchanged since its snapshot, and its objects contain what the rows
contain, unless its copies come from an earlier attempt (`Trusted`). From it a commit
of a trusted operation keeps all data of the rows. `CommittedInv` says of the rows and of the
objects in memory that they contain only updates of operations that committed. Theorems: `TypeCorrect`, `NeverLost`,
`NothingOverwritten`, `NothingLeft`.

`ExecutorProofs`. The executor learns of its tasks through copies that may be old: posts,
lists, entries of `runningTasks`. `KnownInv`: they are all of submitted tasks, so that a
newly submitted one is in none of them. `DataInv` adds to `DataKept` that only an execution
that is over reports a completion, that its data is there then, and that an execution that isn't
over, whose beginning emptied the directory, isn't one of a completed task, unless a post
that outlived a restart started it. `NotExecutedAgain` needs that whatever may still start a task (`Pending`: a post, the list,
a caller that is adding it) finds it incomplete, unless it is running; the hard case is
`tasksUpdater` removing a task that isn't in its list, for which `AgainInv` says that at
most one thing can start such a task, and that it was added if it is running.
Both theorems hold for posts that are delayed for any time: the only ones they except, `late`,
are those under way at a restart, which makes the executor forget what it ran.
Theorems: `TypeCorrect`, `DataAlwaysKept`, `NeverExecutedAgain`.

`RunQueueProofs`. The inductive invariant: the run a scheduler is about to start is
below all queued runs of its group (`FirstInv`), and while it is queued nothing of its
group is running once the scheduler has looked (`FreeInv`), because starting another
run of the group would have to be starting a smaller one; hence at most one run per group is
running (`OneRunning`). Each step then is a step of `GroupQueue` or changes nothing of it.
Theorems: `TypeCorrect`, `RunsAreQueued` (`Spec => IsGroupQueue`).

`GatewayProofs`. The tables have no unique index but the one on ids; what the queries take to be
unique is so because the operations check before they insert or update, in one transaction.
`DatabaseInv` strengthens `UniqueRows` by the ids: every id in a row was given out
before (below `next`), rows with equal ids are equal, and names are unique by the id of the
parent alone, which is what the queries compare. There is a lemma for each operation
of the configstore (for any request, with any references); `ApplyOK` puts them together,
and the steps that change the database (`Call`, `CallLost`, `UpdateUserLA`, `UndoCreate`)
apply one of them. Theorem: `RowsAlwaysUnique`, for any scenarios and sessions.

`RunsProofs`. An approval goes through four hands: the gateway reads the annotation and writes
it with the user added, in two calls; the scheduler service reads the run and asks for the
approval of the tasks with approvers, one after the other; the runservice sets `Approved`,
and a later round of its scheduler submits the task. `ApprovalInv` says of each of them that
the task was asked for by an owner (`Approved`): of the rows of tasks and executor tasks
(`DatabaseOK`), of the plans the gateway's sessions hold (`SessionsOK`), of the run the
scheduler has read (`LoopOK`). The restart is why the ids matter: a new run takes over the
tasks that succeeded with their approvals, and a new id equal to the id of a task
of the old run would give that task's row to another task; so `DatabaseOK` has every id below `next`, and a
run that is recreated and not yet saved is part of the invariant. There is a lemma for every
operation of the runservice that writes (for any arguments) and for every step. Theorem:
`ApprovedOnlyByUser`.

`RunNumbersProofs`. `RunNumbers` is about what a user sees (numbers without gaps, found, listed
by page, in the badge); the invariant behind it, `NumbersInv`, is about the two counters of the
runservice: a run's sequence and number are at most the values of their counters, no two
runs share one, and every number up to a counter's value belongs to a run (`NumbersOK`). The
counter's row is found by the id of the project or user alone, so that the argument needs that
a project and a user never share an id, and that every group in a row, in a request, or in a
run that is recreated and not yet saved is one of these with a reference (`GroupOK`). An
operation either keeps every number (`KeepsNumbers`) or adds one run with the next ones
(`AddsNumber`). From the invariant, the number of runs is the counter's value (an injection of the runs
into `1 .. n`), a number selects one run of the group and `answer` finds its run config,
a page is the runs whose numbers are the next ones, and the badge's query, in descending
order and limited to one, is the run with the greatest number (a least element of a set
of naturals, by the well-foundedness of `<`), for a branch that no other group of the project is
LIKE (`Alone`). Queries by number are made for the whole project, where the pattern matches
only itself. Theorem: `RunsNumberedInOrder`.

`RunReportsProofs`, logs. A log is at first on the executor, and in the object store once it was
fetched; the executor task, through which the executor is found, is removed in
between, and a restart takes tasks into a run that never had an executor task. `LogsInv`: a task
that was executed and whose logs are not both fetched has its executor task; what a task
says is fetched is stored, or was and was deleted, or was lost by the executor before it could be
(`Logs`); a task that has not
started says so of nothing, as long as its run may still run (afterwards `advanceRun`
marks it all fetched); an executor task belongs to a running run, so that a run is never finished
before its logs are fetched; and a recreated run that is not yet saved takes over only tasks of which all
this holds without an executor task. With `NumbersInv`, for the run a number leads to, it gives
`LogsServed`; a request between its two reads that finds no executor task finds the log in the
store, as an executed task without one has both logs fetched. Theorem: `LogsAlwaysServed`.

`RunReportsProofs`, commit statuses. Between a change of a run and the status at the git source
lie the event, the page in which the runservice sends it, the connection, which may break at any
time, and the lock that passes from one notification service to another. `StatusInv` has a part for
each. `EventsOK`: the events are numbered 1, 2, ... up to the sequence's value, each is of a run
in the table, and the last one of a run that gives a status gives the status of the run as it is now.
`StreamOK`: what was sent on a connection and not yet handled are consecutive events, in
order, up to its cursor. `PostedOK`: of the events a connection has handled, the last one with a status
for each commit and context is what the git source shows, unless its report failed (`missed`). Only the holder of the lock is connected. Every operation
keeps the events and what they report of the runs, or adds one event that tells of one new or changed
run (`KeepsEvents`, `Tells`): an operation that changed a phase without an event would
break `EventsOK`. A page is shown to be the next events, in order and without a gap, by
counting, as `byID` orders its rows (the prover knows nothing of TLC's `SortSeq`).
Theorem: `CommitStatusAlwaysCurrent`; as the property, it excepts events from before the
connection and a last event whose report failed.

What these four theorems take from the constants: `ScenariosAssumption`, `NumbersAssumption`,
`LogsAssumption` and `EventsAssumption`, in `Runs`, say that the database with which a scenario starts satisfies the invariants
(it was filled by `RunCreateHandler` alone), that the configurations are finite, that
`MaxRunsLimit` and `MaxRunEventsLimit` are positive (both are 40 in `api.go`), and that ids of projects and users differ (uuids). TLC
evaluates them for the scenarios of `MCRuns`; all four invariants were checked by TLC on
that instance before they were proved.

Only model-checked:

* all liveness properties (the provers have no fairness or `ENABLED`);
* of `Gateway`, `HierarchyEnds`, `NearestWins`, `PrivateHidden`, `OwnedByCaller`,
  `PagesCoverList`: walks up the tree, paths and folds over sequences would need induction
  over data; `HooksMatch`, which needs an invariant of every step of a session;
* of `Runs`, `RunConfigsSound` and `RestartConsistent` (ancestors and levels of
  tasks are recursive functions); `DeliveryComplete` (it counts runs by name, and compares them
  with what a scenario expects).

## Not modelled, and the plan

Left out of the modelled parts: in `RunScheduler`, runs created with a setup error (never
queued or scheduled; `Runs` has them); one fetcher loop per
runservice; the branches for rows that another service deleted by hand; caches and
their cleaners; what steps do in the pod; table columns used only by queries.

Whole parts that are not modelled: the gitserver and the object storage (git and the
filesystem do the work), the command line and toolbox (input and output), export, import and
migration (offline, whole tables), locks (taken as given), the drivers and the leases of
Kubernetes executors (clocks, external APIs), the GitHub and GitLab clients, the reading of
YAML, JSON and jsonnet, the contents of steps, environments and runtimes, maintenance mode,
the signing of tokens and cookies. `RunScheduler` and `Runs` model the runservice twice at
different grains: together, every race of `RunScheduler` with every request of `Runs`, is
out of TLC's reach.

The order was: the run scheduler first (it is the core, and where most of the hazards
are), then the executor it talks to, the locking both rely on, the queues in front of
it, then the configstore with the gateway, and runs from webhook to commit status. What is
left, in order:

1. Theorems: `HooksMatch`, with what the sessions remember; of `Runs`, the parts of
   `RestartConsistent` that need no ancestors.
2. `Locks`: local locks with reference counts, Postgres advisory locks; leases.
3. gitserver's cleaner against a push, the atomic write of the object storage, the cleaners
   of caches and workspaces against restarts that need an archive; maintenance mode.

# A verification project for the deployment platform in this repository

The repository is a self-hosted platform (a Laravel application) that builds
and runs applications, databases and services on servers it reaches over SSH.
This directory holds TLA+ modules of the parts whose correctness depends on the
order in which processes run, TLC configurations that model-check them on small
instances, and TLAPS proofs for every instance.

Modelled are the heart of the system, the deployment queue (who may deploy
when, and what a deployment does to its row in the database from its creation to
its end) and the deployment run (what it does to the containers on the servers);
the web terminal, from the page in the browser to the relay that holds its ssh
processes; the backups of a database, with their retention; and the activities,
logged remote commands that a job runs and pages follow.

## 1. Inventory

Paths are relative to `src/`.

| Component | State it keeps | Operations | Who it interacts with |
|---|---|---|---|
| **Deployment queue** `bootstrap/helpers/applications.php`, `app/Models/ApplicationDeploymentQueue.php` | rows of `application_deployment_queues` (status, application, pull request, commit, server); the redis queue `high` | `queue_application_deployment`, `queue_next_deployment`, `next_after_cancel`, `next_queuable`, `force_start_deployment`; cancel in the view and in the API; closed pull request; `check:deployment-queue`, `cleanup:deployment-queue`; `app:init` | webhooks, the UI and the API create rows; Horizon workers run `ApplicationDeploymentJob` |
| **Deployment run** `app/Jobs/ApplicationDeploymentJob.php`, `app/Traits/ExecuteRemoteCommand.php` | the job's copy of the row; the builder container; the old and new containers of the application | `handle`, `decide_what_to_do`, `rolling_update`, `health_check`, `stop_running_container`, `transitionToStatus`, `failed`, `deploy_to_additional_destinations` | writes the row; scans the queue when it ends; runs commands over SSH |
| **SSH** `app/Helpers/Ssh*`, `app/Traits/SshRetryable.php`, the mux clean-up jobs | control sockets, their age in the cache, a lock per connection | `ensureMultiplexedConnection`, `refreshMultiplexedConnection`, retry with backoff, clean-up of stale sockets | every component that runs a remote command |
| **Container status** `app/Services/ContainerStatusAggregator.php`, `app/Traits/CalculatesExcludedStatus.php`, `app/Actions/Shared/ComplexStatusCheck.php` | none: pure functions | aggregation of container states to one status | status synchronisation |
| **Status synchronisation** `app/Actions/Docker/GetContainersStatus.php`, `app/Jobs/PushServerUpdateJob.php` | status, restart_count, last_online_at of every resource | poll over SSH, push by Sentinel | both write the same columns |
| **Server monitoring** `app/Jobs/ServerManagerJob.php`, `ServerConnectionCheckJob.php`, `ServerCheckJob.php`, `app/Models/Server.php` | is_reachable, is_usable, unreachable_count, notification flag, force_disabled | periodic checks, validation, notification | gates deployments and scheduled jobs |
| **Scheduled jobs** `app/Jobs/ScheduledJobManager.php`, `ScheduledTaskJob.php` | the overlap lock, execution rows | dispatch of due tasks and backups, retries, timeouts | workers |
| **Database backups** `app/Jobs/DatabaseBackupJob.php`, `bootstrap/helpers/databases.php`, the backup views | execution rows, files on the server and in S3 | dump, upload, retention by count, age and size; deletion of executions, clean-up of the list, change of the schedule, deletion of its storage | SSH, S3, workers, `app:init` |
| **Terminal relay** `docker/coolify-realtime/terminal-server.js` | per websocket: session, the servers it may name, its pty and whether that is active; pending kills and timeouts | handshake, command, input, pause, resume, kill, timeout, exit, close | page, Laravel (`/terminal/auth`), ssh |
| **Terminal page** `resources/js/terminal.js` | one websocket, its state, reconnect attempts, timers, pending writes | connect, time out, reconnect, show, pause and resume, leave | relay, Livewire |
| **Remote process activities** `app/Jobs/CoolifyTask.php`, `app/Actions/CoolifyTask/`, `app/Livewire/Project/Service/Heading.php` | activity rows with a process status, exit code and output; a worker's copy of its row | start, restart, force, restore; run, stream output, retry, `failed` | pages, workers, SSH |
| **Resource deletion** `app/Jobs/DeleteResourceJob.php`, `CleanupStuckedResources` | soft-deleted rows | stop, delete volumes, networks and rows | deployments of a closed pull request |
| **Proxy** `app/Actions/Proxy/` | the proxy's wanted and seen status | start, stop, restart, check | status synchronisation |
| **Subscriptions** `app/Jobs/StripeProcessJob.php` and its siblings | subscription rows, server limits | Stripe events, limit check | server monitoring |
| **Docker clean-up** `DockerCleanupJob.php`, `CleanupHelperContainersJob.php` | containers and images on servers | prune, removal of orphaned helper containers | deployment run |
| **Others** | | server installation, instance start and update, webhooks, teams, UI and CRUD, compose parsing, notifications, templates | |

What makes the deployment queue hard: no transaction, row lock or cache lock
spans any two of its queries. Each request and each worker reads rows, decides,
and writes later; workers time out, get killed and are restarted; a job in
redis outlives the row's status; and a waiting deployment is started only
because somebody else ends. A single-threaded test reaches none of it.

The terminal is hard because its two halves find out about each other late: the
relay kills a pty by typing into it and looks whether it is gone 500 ms later,
while commands, timeouts and closing sockets start kills of their own; the page
holds several timers that may each open a connection, and counts writes whose
callbacks arrive after the terminal they belong to. Backups are hard because
nothing keeps two jobs of a schedule apart, and because rows, the file on the
server and the copy on S3 are changed one after another by commands that may
fail unnoticed. An activity outlives its worker, a worker its job's timeout and a
command its worker, while each of them saves its own copy of the one row.

What makes each component correct, in a line:

* queue: a slot that is taken is released; nobody who waits is forgotten; a
  cancellation stays; the limits per server and per application hold;
* run: whatever happens, one working version of the application is left, the
  builder container is gone, and the row says what happened;
* SSH: a command is retried only while that is safe, and no process waits for a
  connection nobody will open;
* status: the aggregate does not depend on the order of containers and agrees
  with the documented priority; polls and pushes do not undo each other;
* monitoring: a server is reported unreachable once, after the threshold, and
  recovers;
* schedules: due work runs, and not twice at once; a lock is not held for ever;
* backups: an execution that promises a copy has one; retention never deletes
  the newest good backup and forgets no copy; a running execution has a job;
* terminal: one ssh process per session at most and none out of sight, a session
  that is closed goes, the page shows what is there and gets connected again, a
  paused process is resumed;
* activities: output is stored in full and never taken back, an activity ends
  whatever becomes of its command, its event follows what the command did, and a
  service is not started twice at once;
* deletion, proxy, subscriptions: a partial failure can be repeated.

## 2. Modules

| Module | Contents |
|---|---|
| `DeploymentQueue` | The model of the queue, its properties, and the mutated definitions ("Mutation: ...") that show what each property catches |
| `BuildSlots` | What the queue promises, without rows, redis or workers: a deployment is requested, waits, occupies a slot and is over |
| `MCDeploymentQueue`, `MCQueue_*.cfg` | Instances for TLC |
| `DeploymentQueueProofs` | Type correctness, `SlotHeld` and `CancelFinal`, proved for every instance |
| `DeploymentQueueWakeups` | `NobodyForgotten`, proved for every instance without the hazards that break it |
| `DeploymentQueueRefinement` | The proof that `DeploymentQueue` implements `BuildSlots` |
| `DeploymentRun` | The containers a deployment starts and stops: builder, old and new version, under cancellations, the helper clean-up and faults |
| `DeploymentRunProofs` | Type correctness, `RolledBack`, `Available`, `BuilderReleased` and `SingleVersion`, proved for every instance |
| `MCDeploymentRun`, `MCRun_*.cfg` | Instances for TLC |
| `TerminalServer` | The relay, under any browser |
| `TerminalServerProofs` | Type correctness and `OneTerminal`, proved for every instance |
| `TerminalClient` | The page: actions over its own variables, used by `Terminal` |
| `Terminal` | Page and relay joined by a network (`INSTANCE` of both) |
| `TerminalProofs` | Type correctness, `StateMatchesSocket` and `ShowsTerminal`, proved for every instance |
| `MCTerminalServer`, `MCTerminal`, `MCTerminal_*.cfg` | Instances for TLC |
| `DatabaseBackup` | The backups of one schedule |
| `DatabaseBackupProofs` | Type correctness, `Accounted`, `CopiesExist`, `PurgedClean` and `NewestKept`, proved for every instance |
| `MCDatabaseBackup`, `MCDatabase_*.cfg` | Instances for TLC |
| `RemoteActivity` | Remote process activities: the pages that start them, their jobs and rows |
| `RemoteActivityProofs` | Type correctness, `EventFollows`, `OutputComplete`, `OutputKept` and, with one page, `Alone`, proved for every instance |
| `MCRemoteActivity`, `MCActivity.cfg` | Instances for TLC |

### DeploymentQueue and the code

State:

| Variable | In the code |
|---|---|
| `status`, `row` | the table `application_deployment_queues`. A *lane* is an `application_id` with a `pull_request_id`; ids and `created_at` grow together |
| `jobs` | jobs of a row waiting in the redis queue `high` |
| `expired` | jobs reserved by a worker that died; redis hands them out again after `retry_after` (`config/queue.php`) |
| `act` | for each request (`Users`) and each Horizon worker, the point of the code it is at (`pc`) and its PHP variables: the job's row (`cur`), the row it examines (`cand`), the rest of a query result (`todo`), the status its Eloquent copy holds (`local`), the status a transition is to write and where it returns (`goal`, `ret`), the additional servers still to serve (`extra`) |
| `up` | Horizon runs: `app:init` of this boot is over |
| `lost` | history: rows left in progress with nothing behind them: their dispatch was cut off, or their worker died in `failed()` before the status write |
| `spent` | how much of each bound has been used |

Grain: a step is one query, one update or one push to redis with the
computation up to the next one. Steps are merged only where one of the two
cannot be seen by others: taking a job and the `refresh()` at the start of
`handle()`, and the `refresh()` and decision of `isInTerminalState`. `update()`
writes only columns that differ from the copy Eloquent holds; `HandleUpdate` and
`WriteStatus` have that check (`local`), because a stale copy makes the
difference there. Everything the job does between its first and its last
status write is the state `run` here; exceptions, an unhealthy new version, the
commit lookup and a second completion are its visible events.

Actions: `CheckExisting`, `Redeploy`, `CreateRow`, `AdmitLane`, `AdmitCount` are
`queue_application_deployment` (the last two are the two queries of
`next_queuable`); `ReadQueue`, `ScanLane`, `ScanCount`, `Mark`, `Push` are
`queue_next_deployment` and `next_after_cancel`, run by whoever releases a slot;
`ForceStart`, `Cancel`, `ApiCancel`, `ClosePullRequest`, `CheckDeploymentQueue`
(with `Terminate` for the loops) are what operators do; `Reserve`,
`HandleUpdate`, `ResolveCommit`, `Unhealthy`, `Complete`, `CompleteAgain`,
`Throw`, `FailDeployment`, `WriteStatus`, `DeployToAdditional`, `Finish` are the
job; `Timeout`, `KillWorker`, `ReserveExpired`, `DispatchThrows`, `Shutdown`,
`AppInit` are the faults and the recovery the code has for them. What a dead
worker leaves depends on where it was: in `handle()` (`Handling`) its job is
reserved and will be handed out again; in `failed()` it is not, since Laravel's
`fail()` deletes the job first, whether it is called by the `catch` of
`handle()`, by the timeout or for too many attempts. A worker that dies there
before it has written the status (`Orphan`) leaves a row in progress for good.

Modelled from their use, not from source: redis and Laravel's queue worker
(reservation, timeout, `tries = 1`, the order in which jobs are taken, which the
model leaves open), Eloquent's ids, process death.

Simplifications: `app:init` is modelled for self-hosted instances, where it
fails every active deployment. `queue_application_deployment`'s rollback flag
is the same as `force_rebuild` here, as the code treats both alike in the check
for duplicates. Container clean-up by the cancel operations changes nothing the
queue reads; that of the cancel button is in `DeploymentRun`.

### DeploymentRun and the code

`DeploymentQueue` has one state, `run`, for what a job does between its first
and its last status write. `DeploymentRun` opens it: one application on one
deployment server, with jobs that may run side by side. `Dispatch` lets the row
of a deployment appear with either active status, because in `DeploymentQueue`
both occur.

| Variable | In the code |
|---|---|
| `setup` | what the application and its deployments are configured with: the form of rollout, health check, post-deployment command, build server, the build pack `dockerimage`, `restart_only`, pull requests; chosen at the start, never changed |
| `status` | the column of the row, again |
| `run` | per job, its point in `handle()` or `failed()` (`pc`), whether the look at the row is over and a remote command is on its way (`armed`), and its PHP state: containers still to stop, `newVersionIsHealthy`, the health check's counter, the status of the Eloquent copy, `$this->server`, the exception's code, whether it is inside the `try` (so that `finally` runs), and whether it is a restart (`mode`) |
| `containers` | the application's containers on the deployment server, by name. A production name carries the time of its dispatch (one per job); a preview's and a consistent name stay the same |
| `builder` | the helper container named after the deployment, on the deployment server and on the build server |
| `killing` | cancellations that wrote the row and have still to remove the builder |
| `cleanup` | `CleanupHelperContainersJob` between its queries |
| `orphan`, `hit`, `spent` | commands that outlive their process; history of faults; use of the bounds |

Grain: `execute_remote_command` is two steps, the look at the row (`Check`) and
the effect (one action per kind of command), so a cancellation or another job
comes between them. A command that reports a failure may have taken effect.
`docker stop` and `docker rm -f` of one container are one step, as is the
sequence of commands inside the builder between its start and the rollout
(`Build`): they change nothing here but need the builder. The forms of rollout
are `rolling`, `ports` (ports mapped to the host, or a custom IP: old version
first), `consistent` (a fixed name) and `compose`.

Actions by method: `Reserve`, `Begin`, `Thrown`, `Finally`, `Settled` are
`handle`; `PrepareBuilderImage`, `RunBuilder`, `ShutDownBuilder`, `Build` the
builder; `RollingUpdate`, `StartByComposeFile`, `HealthCheckDisabled`,
`InspectHealth`, `QueryLogs` the new version; `ListRunning`, `StopOld`,
`Stopped`, `Unhealthy`, `UndoNew` are `stop_running_container`; `Complete`,
`FailDeployment`, `Transition`, `WriteStatus`, `PostDeployment` the end;
`RemoveNew`, `LeaveNew` are `failed`; `Cancel`, `KillBuilder` the cancel button;
`ListActive`, `ListHelpers`, `RemoveHelper` the helper clean-up.
`getCurrentApplicationContainerStatus` is `Listed`, with the pull request it
really reads (`PrLabelValue`).

With a build server the methods for a Dockerfile, for nixpacks and static sites
and for previews begin by moving there (`MovesFirst`). Those for a compose file
and for a docker image, and `just_restart`, do not: their builder starts on the
deployment server, `create_workdir` moves to the build server (`BuildHost`) and
fails there for want of a builder, and `finally` looks there as well. Only a
restart that has to build gets past that, with a second builder.

Not modelled: swarm, containers that exist but do not run, processes on the
servers.

### The queue implements BuildSlots

`Slots` in `DeploymentQueue` maps the status to a phase (`Phase`): absent rows
are not requested, `queued` waits, `in_progress` occupies a slot, every other
status is over. `carried` are the deployments with a job, or about to get one
(`Carried`); `settled` those cancelled of which nobody holds an older copy
(`Cancelled`). `BuildSlots` then says of every deployment, in every step: it
enters the queue once; it begins only if something will release its slot, and
not after a settled cancellation unless operators may force starts; a slot it
keeps stays releasable, unless a crash comes while its job is not stored
(`exposed`: between the update of the status and the push, and in `failed()`
before the status write). A step of `BuildSlots` may move several deployments,
because `app:init` does.

### TerminalServer and the code

Node runs one callback at a time and the continuations of awaited promises
before the next, so a step is a callback with all that it resolves. What can come
in between are the awaits of the two requests to Laravel (`awaiting`) and the 500
ms between an attempt to kill a pty and the look whether it is gone (`kills`,
in the order in which the timers were armed, all having the same length).
`killPtyProcess` is called by a command, by the closing of the socket and by
others; `Answer` is what each caller does with the result. `isActive` belongs to
the session, not to the process, in the code and here. `listening` separates the
sockets whose handlers are set from those still waiting for their servers:
before that, messages are dropped and a closing is not heard.

| Action | Handler |
|---|---|
| `Upgrade`, `Verified`, `Refused` | `verifyClient` |
| `Authorised`, `AuthIpsFails` | the connection handler after its request; its rejection is caught nowhere and ends the process |
| `Command`, `Launch` | `handleCommand` before and after the old pty is gone |
| `CheckActive`, `Flow` | the other messages that reach the pty's state |
| `KillTimer`, `TimeoutElapses`, `onExit`, `Output` | timers and events of the pty |
| `Errored`, `Closed` | `handleError`, `handleClose` |

What is typed into the terminal is what it leads to: output, or the shell's exit.
A command names a server of the session's team or not; the rest of the parsing
is not modelled.

### TerminalClient, Terminal and the code

`TerminalClient` has one action per browser task: a timer, an event of the
socket, a message, xterm's callback for a write, an event of the page. Timers
carry no time: one that is armed may fire. `timers` are those whose handle the
code keeps, `stray` reconnect timers whose handle was overwritten
(`scheduleReconnect` does not clear the one it names). The keep-alive interval is
left out because it cannot happen: `initializeWebSocket`, 100 ms after `init`,
clears it before its first 30 s are over and nobody sets it again; hence no ping
is sent and no pong comes.

`Terminal` keeps each direction of a connection in order, lets a connection
break (`Drop`), and lets each end find out in its own time (`Ended`,
`GoneWhileOpen`, `Gone`). A crash of the relay (`Crash`) breaks all.

Not modelled: size, focus, fullscreen, clipboard; the Livewire component that
makes the command is the event `sendCommandWhenReady`.

### DatabaseBackup and the code

| Variable | In the code |
|---|---|
| `setup`, `storage` | the row of the schedule (databases, dump of all, S3, local copies, limits of retention) and whether its S3 storage still exists |
| `rows` | `scheduled_database_backup_executions`, with whether the row is still there and, if not, who deleted it |
| `copies` | per store, what is at a file's path: nothing, a part, or all of it. A path has the database and the second, no id |
| `job` | per worker, its point in `handle()` and its PHP state: the schedule as loaded at the start, databases left, the execution at work, `backup_uploaded` and the deletion flag, the executions retention has listed |
| `now` | the second in which the last execution was created |
| `cut`, `unremoved` | history: executions whose job died at work on them; copies a removal missed |

A step is one remote command or one statement. `Dispatch`, `Create`, `Dump`,
`Measure`, `Upload`, `Drop`, `Success` are the loop over databases, `List`,
`RemoveOld`, `MarkDeleted` retention in one store and then the other, `Purge`
the deletion of executions without copies; `Dies` and `Restart` a timeout, a
killed worker and `app:init`; `DeleteExecution`, `Cleanup`, `Submit` and
`DeleteStorage` what users do meanwhile. The limits of retention are translated
as the code computes them: by number (`ByAmount`), age (`ByAge`) and size
(`ByStorage`), on the list that the database returns newest first, in either
order where two are of the same second.

Not modelled: the deletion of a whole schedule or database, a change to another
storage, imports and restores; the dump commands of the engines are one step.

### RemoteActivity and the code

| Variable | In the code |
|---|---|
| `row` | the activity: what it is of (a service, by `type_uuid`, or a restore), `status` and `exitCode` in its properties, the output in its description |
| `queue`, `attempts` | the job in redis and how often it was reserved |
| `task` | the worker at the job: its point in `RunRemoteProcess::__invoke` or `CoolifyTask::failed` and its Eloquent copy of the row |
| `running` | commands on servers, by activity and attempt; those of earlier attempts may still run |
| `click` | clicks that a page is handling: the request under way, up to the push of the job, or the call still to be made (`call`) |
| `due`, `said`, `harm` | history: commands that did something since their last event; output; what a death, a timeout or a lost connection cut off, and what a forced deployment overrode |
| `budget` | the bounds of the instance |

A step is one query, one save or one callback of the process. `Click`, `Call`,
`Recheck`, `Stop` are the service page (`checkDeployments` is `InProgress`). A
component has one request under way (`Busy`), but a click on Deploy or Restart
makes two: it awaits the answer to `checkDeployments` and then calls `start` or
`restart`, and another click may do the same in between (`missed` remembers what
it began). `restart` asks again on the server, `start` does not.
`Create` and `Push` `PrepareCoolifyTask`; `Reserve`, `Start`, `Output`,
`OutputThrows`, `CommandEnds`, `Record`, `Event`, `Acknowledge` the job; `Failed`
and `FailedEvent` its `failed()`; `Timeout`, `KillWorker`, `Expire`,
`ConnectionLost`, `KillRequest` the timeouts and faults. A job is tried again
only after its worker died: `$maxExceptions` is 1, so any exception, and the
timeout, fail it at once, and the backoff has nothing to delay. Output is counted
in pieces; time is not modelled, so that a save after the first may be throttled
or not. `latest()` compares seconds; the model takes no two activities to be of
one second. A collection's attribute that `forceDeploy` assigns to may or may not
be saved.

Not modelled: the page that polls the row, a timeout during `failed()`, the other
callers of `remote_process`, which wait for nothing and are waited for by nobody.

## 3. Runs

| Run | Checks | Instance |
|---|---|---|
| `queue_scan` | `NobodyForgotten` | 3 rows, 2 applications, one with an additional server, 2 commits, one slot, one request at a time, 2 workers; restarts that have to build |
| `queue_faults` | `TypeOK`, `SlotHeld`, `CancelFinal`, `Implements` | 2 rows of one lane, build server, redeploys, one of the four ways to end a deployment, exceptions, unhealthy versions, one fault and one restart |
| `queue_live` | `NobodyForgotten`, `SlotReleased`, `QueueServed` | 2 rows, 2 applications, one slot, a cancellation or a force start, exceptions, fairness |
| `queue_limit` | `ConcurrentLimit`, violated | 2 rows, 2 applications, one slot |
| `run_single` | `TypeOK`, `Available`, `RolledBack`, `BuilderReleased`, `RunEnds` | one job for each setup in `Single`: every form of rollout, with and without build server, restarts, a docker image; 2 cancellations or clean-ups, 2 faults, fairness |
| `run_pairs` | `SingleVersion`, `RolledBack`, `BuilderReleased` | two jobs: two rolling updates, or a deployment with mapped ports or compose files beside a pull request's; 1 cancellation or clean-up |
| `run_helper` | `ActiveBuilderKept`, violated | a build server, 1 clean-up |
| `terminal_relay` | `TypeOK`, `OneTerminal`, `SessionReaped` | one session, three commands, or two with output, an interruption and a crash; kills that may fail, two attempts; fairness |
| `terminal_page` | `TypeOK`, `StateMatchesSocket`, `ShowsTerminal`, `PausedResumes`, `Reconnects` | three websockets alone, or two with a terminal and one of: a crash, a break, a page that is left, output beyond the limit, a second command; fairness |
| `backup` | `TypeOK`, `CopiesExist`, `NewestKept`, `PurgedClean`, `Accounted` | two workers, four schedules (both stores with a limit on size, S3 only, two databases, dump of all), two seconds; three executions with a failing dump or upload, or two with failing dump, upload, removal and a death, or with a death and a user |
| `backup_storage` | `DroppedAfterUpload`, violated | the same |
| `activity` | `TypeOK`, `EventFollows`, `OutputComplete`, `Alone`, `OutputKept`, `Settles` | one page: one activity of a service or a restore, three attempts, three pieces of output, three faults; or two activities, started, restarted or pulled with one fault, the same by two clicks at once, or restarted and forced; fairness |

Deadlock is not checked: when all rows of the instance have ended and no
request comes, the system rests, as it does when nobody uses a terminal, starts
a backup or an activity.

What the properties say:

* `SlotHeld` - a row in progress occupies a build slot; there is always a job
  that will release it (waiting, reserved, running, in `failed()`) or a request
  about to dispatch it. The only exceptions are `lost`: a dispatch cut off between
  the status update and the push, and a worker that died in `failed()` before the
  status write.
* `NobodyForgotten` - the wake-up protocol. Deployments wait passively, so for
  each waiting one there must be a blocker in progress, or a scan that has it
  on its list or is going to read the queue of its server.
* `CancelFinal` - once nobody holds a copy of the row from before the
  cancellation, it stays cancelled, though its job may still be in redis and
  its worker still running. Copies from before can undo it: `handle()` tests
  after its `refresh()` and writes `in_progress` in a later query. So can a job
  that `app:init` leaves in redis.
* `Implements` - the refinement of `BuildSlots` described above.
* `SlotReleased`, `QueueServed` - their liveness counterparts.
* `Available` - with one rolling update at a time, some version that served
  before, or passed its health check, runs at every moment, unless the job failed
  after its own version had become healthy: `failed()` removes the new version
  also when the old one is gone already.
* `RolledBack` - when a job is over and its row says `failed`, its version does
  not run, on both ways to get there: an exception, and an unhealthy version
  after which the job goes on to complete.
* `BuilderReleased` - a job that is over has left no builder on the build server
  and none on the deployment server, unless it was cancelled; `Misplaced` are the
  deployments that start one on the deployment server although there is a build
  server, and only these may leave it, and only there.
* `SingleVersion` - side by side or in sequence, rollouts never end with two
  versions in production.
* `RunEnds` - a run that has begun ends.
* `OneTerminal` - a process lives exactly while it is the one its session holds
  and takes for active: never two in a session, none that the session has lost
  sight of, no flag without a terminal. The invariant looks simple and is held
  by a chain: only an inactive session launches, and only `onExit` of the very
  process that made it active clears the flag.
* `SessionReaped` - a session whose closing is heard leaves the map, whether or
  not its terminal could be killed.
* `StateMatchesSocket` - `connectionState` says connected exactly while the
  socket is open, whichever timers earlier attempts left behind.
* `ShowsTerminal` - once it has read what the relay sent, the page shows a
  terminal only if there is one. It speaks of the first connection that got a
  session: output of an earlier one's terminal is not told from that of a later.
* `PausedResumes`, `Reconnects` - liveness of the flow control and of the
  connection.
* `CopiesExist` - an execution that says it has a copy has it, in either store.
  Excepted are removals under way or cut short by a death, and two executions
  that share a path.
* `NewestKept` - what one job's retention removes locally, a backup not older
  survives, whatever the other job removes at the same time.
* `PurgedClean` - retention forgets an execution only when no copy is left that
  a removal has not missed.
* `Accounted` - an execution that says it is running has a job at work on it,
  whatever fails in that job; only a death leaves it to the next restart.
* `EventFollows` - when an activity is over, its event came after whatever its
  commands did: after a recorded result, an exception, a timeout, and also when a
  worker dies between the end of the command and that of its job. Excepted are
  commands left behind that end later, and a death within `failed()`.
* `OutputComplete`, `OutputKept` - the throttled writes lose nothing, unless a
  command was interrupted, and none of the three copies of the row (worker's,
  page's, `failed()`'s) stores less than was stored.
* `Alone` - from one page, two commands of a service run at once only if one was
  left behind, is run again, was overridden by force, or began between the check
  of another click on Deploy and the call of `start` that followed (`overtaken`). What
  holds it up is that the status stays `queued` from creation to the end of the
  command, and that `restart` asks again.
* `Settles` - an activity with a job leaves `queued`, which would lock the service,
  even if its command never ends.

The violated runs state what the repository's own comments, views and tests say
and show the shortest behaviour of the code that disagrees:

1. `ConcurrentLimit`: the limit counts rows in progress, but an admitted
   deployment stays `queued` until its job starts, so a second one is admitted.
2. `ActiveBuilderKept`: the clean-up of a build server knows of no active
   deployment, because rows name the deployment server, and takes every builder
   for an orphan.
3. `DroppedAfterUpload`: `upload_to_s3` returns without an upload when the
   storage of the schedule has been deleted, and the local file is deleted next.

What modelling showed besides, most of it under `hazards` in `PROJECT.json`: the
window of 1 lets two deployments of one lane run together, and two rolling
updates that run together can remove each other's versions; the check for a
duplicate and the API's check of the status precede their updates by a query;
the clean-up in `finally` (`ApplicationDeploymentJob.php:374`) is refused on a
cancelled row like any command; `just_restart` that has to build (`:1063`)
completes the deployment twice; a restart, a compose file or a docker image with
a build server (which the API allows, `ApplicationsController.php:1557`) leaves
its builder on the deployment server, and fails in `create_workdir` unless it is
a restart that has to build; a worker that dies in `failed()` leaves a slot that
only `app:init` or a user frees; `docker.php:28` reads a label nobody sets, so a
production deployment takes previews for its own containers. In the terminal: of
two commands that wait for the same kill the older may run, a late timeout may
kill a newer terminal, after five failed attempts the page is told
`unprocessable` while the terminal lives on, and a connection that breaks while
idle is noticed by neither end. In the backups: retention on S3 counts
executions whose upload failed, a dump of all databases that breaks off passes
for whole (`DatabaseBackupJob.php:525`, `gzip` without `pipefail`), paths and
order are by the second (`:311`), and the clean-up of the list forgets
executions with copies on S3. In the activities: a command outlives the timeout
of its job, `forceDeploy` changes a temporary collection (`Heading.php:115`), of
two clicks on Deploy both may start a command, a worker's first save writes over
a status that a page has changed, and the exit code a polling page waits for is
not written by `failed()`. None of these is promised otherwise by the
repository; the properties above are stated so that they hold beside them.

Bounds, in `MCQueue_*.cfg`: `MaxRows` (2 or 3: one deployment that holds the
slot, one or two that wait; a scan visits two rows of one result), two workers
(one to release while another runs), one concurrent request, `MaxOps` operator
actions, `MaxFaults`, `MaxRestarts`. Operations that create rows stop at
`MaxRows`; the loop over additional servers is cut there too. A restart is met
only in `queue_faults`, an exception in `queue_faults` and `queue_live`. Workers
are interchangeable, hence the symmetry; the liveness run uses none. In
`MCRun_*.cfg`: `MaxBuilders` (2: one restart of the builder with the actual
commit, or one restart that has to build; 1 for pairs), `health_check_retries`
(2: an attempt that goes on and one that is the last; 1 for pairs), `MaxOps`,
`MaxFaults`; one or two jobs, since every interaction is between a job and one
other actor.

In `MCTerminal_*.cfg`: each budget in `MCTerminalServer` and `MCTerminal` is an
instance of its own, so that the hard things are combined in pairs and not all
at once. Sessions of the relay share only the process and its crash, hence one
in `terminal_relay`; three commands are one that runs and two that wait. In
`terminal_page` up to three websockets (one that fails, one that is overtaken by a
stray timer, one that stays), `maxReconnectAttempts` 1, `MAX_PENDING_WRITES` 1
(so that one write more pauses), no kill that fails (that is in
`terminal_relay`). In `MCDatabase_*.cfg`: two workers; three executions, since
retention with a limit of one needs one to keep and two jobs that each remove;
two seconds, a second counting as a day for the limit by age and a file as two
units for the limit by size. In `MCActivity.cfg`, by budgets
again: three attempts (`$tries`) and three pieces of output (the first save, a
throttled one, a later save) for one activity; two activities, one that is under
way and one that is or is not started beside it, by one click or by a second one
that comes while the first is awaiting its answer.

Scope of the passing runs, where a property is not meant to hold: `queue_faults`
has no force start, which restarts a cancelled deployment by design;
`NobodyForgotten` and `QueueServed` run without the operations that release a
slot and do not scan (API cancellation, closed pull request,
`check:deployment-queue`), without the cancel button where build servers are
used (it scans the build server), and without killed workers (one that dies
between writing `failed` and its scan loses the wake-up). `Available` is checked
for one job at a time and leaves late failures out. `RolledBack` and
`BuilderReleased` leave out jobs a fault hit, whose containers the code does not
recover (but for the helper clean-up). These limits are listed as hazards in
`PROJECT.json`.

Fairness, in `FairSpec` of `DeploymentQueue`: PHP runs a request it has begun to
its end, a Horizon worker keeps taking steps while it can, and a stopped
container boots. Nobody has to make a request, and no fault has to happen. One
weak fairness condition per process is enough because a process has one point of
control; the alternatives at that point (a run may complete or throw) are not
forced individually. Looking up the commit could repeat for ever in the model,
so the liveness run has a single commit, for which that action is disabled. In
`DeploymentRun`, `FairSpec` asks the same of each job; cancellations and faults
are bounded and never forced.

In `TerminalServer` the timer of a kill fires and a process that is gone reports
its exit, since Node runs the callbacks that are due; nobody has to type,
connect or leave, and a shell need not end. In `Terminal` one condition for each
of three: the network delivers on a connection that works (`Network`), the relay
and Laravel do what is due (`RelayDue`), and so does the browser (`PageDue`:
opening, closing, timers, xterm's callbacks). That a broken connection is
noticed is not assumed while the socket is open and idle: TCP need not.
`DatabaseBackup` has no liveness property: a job may die at every point. In
`RemoteActivity`, `Attend`: workers go on with each job, its timeout fires and
redis hands out what expired. A command need not end and users need not click.

## 4. Proofs

`DeploymentQueueProofs`, for every number of rows, lanes, servers, workers and
requests and for unbounded operations and faults; the assumption is
`QueueAssumption`, which TLC evaluates on each run.

* `TypeCorrect`: `Spec => []TypeOK /\ []References`. `TypeOK` alone is not
  inductive: `Push` increments `jobs[cand]` and `WriteStatus` reads
  `row[cur].lane`, so the proof needs that `cand` and `cur` are rows of the table
  at those points. `References` says so: what processes and redis refer to has
  been created, and a busy worker has a job. `WellFormed == TypeOK /\
  References` is inductive: `TypeStep`, `ProcessesStep`, `RowsStep`, `JobsStep`,
  one step per action. A created row is never deleted (`CreatedGrows`), which is
  what keeps the references valid under the steps of others.
* `SlotsHeld`: `Spec => []SlotHeld`. Relative to `WellFormed`, `SlotHeld` is
  inductive. `SlotBecome` reduces a step of one process to the rows that process
  carried; `SlotQuiet` disposes of the steps that carry nothing. The subtle point
  is the dirty check of `WriteStatus`: a worker about to write `failed` on a copy
  that already says `failed` will not write, so it does not count as a carrier
  (`Holds`), and `Transition` establishes that it never has such a copy of a row
  in progress. A death takes away what carries a row only where `Handling` says
  that the job is still in redis, or puts the row into `lost` (`Orphan`).

* `CancelIsFinal`: `"force_start" \notin Ops => (Spec => CancelFinal)`. Each step
  either leaves the row alone or was taken on a copy from before the
  cancellation (`StaleIn`); no step gives a process such a copy of a cancelled
  row (`LoopedFresh`, `CancelTransition`). The hypothesis is needed: a force
  start writes `in_progress` over any status.

`DeploymentQueueWakeups`, `NothingForgotten`: `Attended => (Spec =>
[]NobodyForgotten)`. The inductive invariant is `WellFormed /\ Housed /\ AllTidy
/\ Extras /\ Minded`. `Minded` is the property with what keeps it: a waiting
deployment of a server with a free slot has a mind somewhere, a request or
worker that will still read the queue or still has this row ahead of it in the
result it walks. The step that releases a slot is where a new mind is needed,
and the others must not lose one. `Housed`, `AllTidy` and `Extras` say that
deployments, the rows a process carries and the servers a worker has still to
deploy to are on the main server of their lane or on an additional one: the one
who releases a slot scans the main server, so a row waiting elsewhere would have
nobody. `Attended` excludes what the hazards of `PROJECT.json` record as losing
a wake-up, and nothing else: no API cancellation, closed pull request or
`check:deployment-queue`, no faults, no main server that is also an additional
one, and no cancel button where there are build or additional servers. The runs
`queue_live` and `queue_scan` are instances of it.

`DeploymentQueueRefinement`, with no assumption on operations or faults:

* `QueueImplements`: `Spec => Implements`. The inductive invariant is
  `WellFormed /\ SlotHeld` again: it is `SlotHeld` that makes every slot
  releasable. `StatusMoves` reduces each action to the ways a status may change;
  `LostOnlyInBetween` says that a job can be lost only while redis does not have
  it; that a settled cancellation stays is the step lemma of `CancelIsFinal`;
  `SlotsStep` combines them for one deployment.

`DeploymentRunProofs`, for every number of jobs, previews, retries, builders,
operations and faults, under `RunAssumption` and what each theorem names.
`WorkRoute` reduces every step of a job to the ways its place in the code, its
exception and the status of its row may change (`Route`); `DisturbRoute` does so
for faults, `WorkOthers` says that jobs leave each other's rows alone. The
invariants rest on these and on lemmas about containers and builders.

* `TypeCorrect`: `Spec => []TypeOK`, with `BuildersLeft`: a job that has still a
  builder to start is below the bound of them.
* `FailedRolledBack`: `Spec => []RolledBack`. `Path` ties the status of the row
  to the place of the job: an exception is on its way through `failed()` or dealt
  with, and a row says `failed` only once the run has given up. With it `Back` is
  inductive: a failed version that still runs has its removal ahead of it.
* `RollingAvailable`: `Spec => []Available`. Three invariants together: a version
  is healthy before the old one is listed, and runs until it is stopped
  (`Serves`); what a job stops never includes its own name, and a preview stops
  only previews' names (`Stops`); hence someone serves, or the deployment of a
  healthy version gave up (`Served`).
* `BuildersReleased`: `Spec => []BuilderReleased`. `Built`: unless it begins on
  the other server (`Misplaced`), a job's builder stands where the job will look
  for it, on the build server if there is one, and a job that will not run its
  finally block has none there.
* `OneVersionLeft`: `Spec => []SingleVersion`. `SingleVersion` speaks of the end;
  `OneVersion` says what holds before it, as long as no fault hit and no job was
  cancelled (a cancellation that a write under way undoes does not count). `Known`:
  production containers are the one from before and versions of jobs. `Young`: a
  version is up only from when its job has started it. `Replaces`, for rolling
  updates side by side: a version that stands beside that of a job which has
  listed is still to be stopped by it, or is that of a job which has yet to list,
  and then finds this one; so whoever lists last leaves only its own.
  `Succeeds`, for deployments that stop the old version first: the list was made
  with the old version on it, and it is gone before the new one starts.
  TLC has checked the invariant on the instances of `run_single` and `run_pairs`.

The assumptions: `OneJobEach`, no row has two jobs (an operator who forces the
start of a deployment may push a second); `OnlyProduction`, at most one job is
of production, for `RollingAvailable` (the queue runs one deployment of an
application and pull request at a time unless forced; two at once may stop each
other's version); `InTurn`, for `OneVersionLeft`: where the old version is
stopped first, production has at most one job (two at once may each stop the old
version and then start their own; rolling updates may run side by side). The
instances TLC checks meet them where they check the property.

`TerminalServerProofs`, for every number of sessions, processes, servers and
attempts:

* `TypeCorrect`, `OneTerminalHolds`: `Spec => []TypeOK`, `Spec => []OneTerminal`,
  from `IInv == Processes /\ Calls /\ Connections /\ Rest`. `Processes` is
  `OneTerminal` with what it needs: a process that has lived has an owner, and an
  active session a process. A call waiting for its timer is answered "killed"
  only while the flag is down (`AnswerInv`), which is what lets a waiting command
  launch without a second terminal, however many calls wait.

`TerminalProofs`, for page, relay and network together, for every number of
sessions, budgets and values of the page's limits. The assumptions are
`SocketAssumption` (sockets are numbered from 1 in the order of their opening)
and `LimitAssumption`: at least two missed heartbeats are allowed (the code:
three, `terminal.js:32`). A ping timeout is armed once for each open connection,
so one alone never reaches the limit; were the limit one, it would close a
socket that the page goes on calling connected. TLC evaluates both.

* `TypeCorrect`, `StateIsSocket`, `TerminalIsShown`: `Spec => []TypeOK`, `Spec
  => []StateMatchesSocket`, `Spec => []ShowsTerminal`, from `IInv == Types /\
  Pages /\ Lines /\ Quiet /\ Screen`, which TLC has checked on the instance of
  `terminal_page`. `Pages` is what the page knows of itself:
  `StateMatchesSocket`, with the heartbeat that only runs on an open socket.
  `Lines` says that the relay knows only of connections the page has opened, and
  that on the latest of them, while it works, both can still talk; `Quiet`, that
  nothing was done yet for a session whose handler does not listen. `Screen`
  carries `ShowsTerminal`: the last word under way to the page decides what it
  will show, and where none is under way, the page and the relay agree.
  `LineMoves` and `Shows` reduce every step to what it does to the connections
  and for one session. What the relay guarantees is cited from
  `TerminalServerProofs` through its instance.

`DatabaseBackupProofs`, for every number of executions, jobs and faults, retention
setting and list of databases, under `BackupAssumption` (a schedule has at least
one database to dump: a blank list means the default database and `explode` never
returns an empty one, `DatabaseBackupJob.php:249-287`), from `IInv == TypeOK /\
Progress /\ Accounted /\ Marked /\ Named /\ Clean /\ Delivered /\ CopiesExist /\
Newest`, which TLC has checked on the instance of `backup`:

* `Typed`, `RunningIsRun`, `SuccessHasCopies`, `ForgottenIsGone`,
  `RetentionLeavesNewest`: `Spec => []TypeOK`, `[]Accounted`, `[]CopiesExist`,
  `[]PurgedClean`, `[]NewestKept`. `Progress` ties each job's place in the code to
  the execution it works on; with it a running execution has a job or was cut off
  (`Accounted`). `Delivered` says which copies a job past its upload has made;
  with it a successful execution has the copies it promises. `Clean` says that a
  copy nobody records any more is gone and that nobody writes it again (`Named`:
  a job writes only to names of its own execution). `Newest` says that what
  retention has picked and not yet deleted leaves out the newest successes, which
  stays true while other jobs add executions, since those are newer. One lemma per
  action states its effect; `JobProgress`, `OpenKept`, `Grows`, `Writes`, `Erases`,
  `GoneStays`, `CopyLost`, `ListNewest` and `StaysStays` carry each part over it.

`RemoteActivityProofs`, for every number of pages, clicks, activities, attempts, pieces
of output and faults, from `IInv == TypeOK /\ Requests /\ \A a : Life(a)`:

* `TypeCorrect`, `EventsFollow`, `NoOutputMissing`, `NoOutputTakenBack`:
  `Spec => []TypeOK`, `Spec => []EventFollows`, `Spec => []OutputComplete`,
  `Spec => OutputKept`. `Life` says of each activity where its output is
  (`Whole`), that a worker's copy is never behind the row (`Held`), and where the
  next event comes from (`Followed`). `Apart` reduces a step to the one activity
  is for; `Requests` keeps two requests from pushing jobs for one row.
* `OneAtATime`: `OnePage => (Spec => []Alone)`. `Calm`: unless excused, an activity
  has a command only while its worker waits for it, and that is before its status
  is written. `Order` carries it to the others: rows are created one after another
  (`Dense`), one of the service only when those before it are over or excused
  (`Orderly`), which the request that is about to create one has seen (`Cleared`),
  and the click that awaits its answer has seen but for what began since
  (`Awaits`); nobody takes that back. `NothingInProgress` says why the page's
  look at the newest row is enough. `OnePage` (one request at a time, `Serial`, any
  number of clicks) is needed: two pages may both look
  before either has created its row. TLC has checked `Order` on the instance of
  `activity`.

Every invariant of the passing runs is proved. Liveness is only model-checked
(`SessionReaped`, `RunEnds` and the other properties under fairness): fairness and
ENABLED are beyond the proof system here.

## 5. Not modelled

* **Vendored and generated code.** Most lines of JavaScript in the repository
  are the Monaco editor under `public/js/` (about 54 000 of 55 000), which is
  third-party and minified. The project's own JavaScript is `terminal.js`,
  `terminal-server.js` and a few lines of `app.js`; the rest of the system is
  PHP. The modules cover the former as far as it keeps state, and the parts of
  the latter named above.
* **SSH retry and multiplexing.** `DeploymentRun`, `DatabaseBackup` and
  `RemoteActivity` have their effect, a command that fails, with or without
  having taken place; the retry loop and the shared connection's lock, refresh
  and expiry have no module.
* **Status aggregation and synchronisation, server monitoring, proxy.** They read
  and write columns no modelled part depends on. The aggregation is a sequential
  function with table-driven tests in the repository; the other two would be
  modules of their own and were not reached.
* **Scheduled jobs.** Cron evaluation over wall-clock time and the framework's
  overlap lock; `DatabaseBackup` assumes neither, a job of a schedule may start
  at any time.
* **Subscriptions.** The order and repetition of the events is that of an
  external service whose promises are not in the repository.
* **Server installation, deletion of resources, UI and CRUD, notification texts,
  compose and Dockerfile parsing, templates, assets.** Shell text, text
  transformation, or edits of single rows.

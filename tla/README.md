# Verification of wthr

wthr is a weather server written in Go. It serves forecasts, alerts and location
data over HTTP, runs background tasks, delivers notifications and can run as a
cluster over one shared database. This directory holds TLA+ models of the parts
whose correctness depends on interleavings, failures and time, the TLC
configurations that check them on small instances, and TLAPS proofs that their safety
properties hold for every size of the instance.

Paths below are relative to the repository; `scheduler.go` and the like are under
`src/`.

## Inventory

| Part | State it keeps | Operations | What is hard | Model |
|---|---|---|---|---|
| Task lock (`scheduler/scheduler.go`) | `locked_by`, `locked_at` of one row per task, shared by all nodes | acquire (SELECT, then INSERT or conditional UPDATE, then a confirming SELECT), release, release of all locks of a node | steps of other nodes between the statements, leases that expire under a live run, crashes, statements that fail after taking effect | `TaskLock` |
| Scheduler (`scheduler/scheduler.go`, `task_history.go`) | tasks with `nextRun`, `retryCount`, `enabled`; `inFlight`, `active`; status and history rows | start with catch-up, ticker, executeTask, trigger, enable, disable, stop with drain | several goroutines per task, retries against the schedule, restart at an occurrence, drain that times out | `Scheduler` |
| Schedules (`scheduler/cron.go`) | none | parse, next occurrence | calendar boundaries | operators of `Scheduler` (partly) |
| Weather alerts (`server/service/weather_notifications.go`) | `user_weather_alert_history` | detect, de-duplicate, enqueue, record | overlapping checks, ignored errors | `WeatherAlerts` |
| Delivery queue (`server/service/delivery_system.go`) | `notification_queue` rows: state, `retry_count`, `next_retry_at` | enqueue, process, success, failure, clean up, requeue | the same row picked twice, stale copies, ignored write errors, crash while sending | `DeliveryQueue` |
| Channels (`server/service/channel_manager.go`) | enabled flag, state, failure count | enable, disable, test, record success or failure | a slow test against an administrator's change | `DeliveryQueue` |
| WebSocket hub (`server/service/websocket_hub.go`, `server/handler/notification_api.go`) | map from user to connection; bounded channels | register, unregister, pumps, ping, stale sweep, broadcast | channel close and reuse, order of `select`, a hub that waits for itself | `WebSocketHub` |
| Failover (`database/failover.go`) | `readOnly`, ticker, queue of writes | exec, query, monitor, replay, close | decisions on stale `readOnly`, replay that fails, a monitor that is not woken | `Failover` |
| Cluster (`cluster/cluster.go`) | `cluster_nodes` rows, local state | start, stop, heartbeat, health check, election | three-statement election, remembered role written back, marks that are never undone | `ClusterElection` |
| First run and setup wizard (`main.go`, `util/firstrun.go`, `server/middleware/setup.go`, `server/handler/setup.go`, `cli/maintenance.go`) | `setup_token.txt`, the proof cookie, `server_admin_credentials`, `setup.completed` | generate, save and show the token, verify it, create the primary admin, further pages | a first run that ends halfway, gates that count before a later INSERT, a command beside the server | `Setup` |
| Administrators and invites (`server/service/admin_invite.go`, `server/model/admin.go`) | `server_admin_credentials`, `server_admin_invites` | create, verify, accept and revoke invites; edit, toggle, delete admins | check-then-act without transactions, foreign keys enforced on some connections | `AdminInvites` |
| Second factor (`server/handler/twofa.go`, `passkey.go`, `server/model/recovery_keys.go`) | 2FA flag, passkeys, recovery keys | enable, disable, regenerate, register, log in by key | several statements per request, stale user rows, failures in between | `TwoFactor` |
| Sessions (`server/model/session.go`, `server/handler/auth_api.go`) | `user_sessions`, `user_password_resets`, password | login in one or two steps, refresh, logout, revoke, reset | requests that read a session before it is deleted | `Sessions` |
| Backup (`backup/`) | archive files, tiers, size cap | create, verify, sweep, delete, restore | four writers in one directory, limits, failure halfway | `Backup` |
| Configuration (`config/config.go`, `server/service/config_watcher.go`, `server/handler/admin_i2p.go`) | `server.yml`, the shared copy, the manager's copy | load, save, watch, reload, apply | writers that do not know of each other, loads that save, a file that is truncated first | `LiveConfig` |
| API tokens, rate limiter, middleware, handlers | rows written by single statements; buckets in a library; per-request state | check, decode, render | sequential per request | no |
| Weather, location, e-mail, Tor, I2P, certificates | caches, remote services and external processes | fetch, format, supervise | network I/O | no |
| Database schemas, CLI, client, GraphQL, Swagger, renderer, utilities | DDL, text | parse, print, generate | none that a model reaches | no |

How the parts interact: the scheduler calls the delivery queue every two minutes
and the backup, cleanup and refresh tasks at their times; a global task first
takes the task lock in the server database. The delivery queue sends through a
channel and records the outcome in the channel's row, which administrators change
over HTTP. Weather alerts enter that queue. In-app notifications for users who are
connected go through the WebSocket hub instead. The first run makes the administrator
whose invitations make the others. Requests about accounts, sessions and invites meet
only in the database, none of them in a transaction. The watcher and the settings
requests meet in `server.yml` and in the configuration all of the server shares.
`ClusterManager` and `FailoverManager` are libraries with tests; `main.go` does not
start them.

What makes each part correct:

* lock: one node at a time executes a global task, as far as a lease can promise
  it, and no dead holder blocks the task for ever;
* scheduler: every occurrence is executed once, retries are bounded and never
  postpone the schedule, shutdown returns and tells the truth about what it left;
* delivery: a recipient gets a message once, attempts are bounded, every message is
  settled in the end, an administrator's decision stands;
* hub: no panic, no live connection forgotten, no dead one remembered, no goroutine
  left behind;
* failover: a write that was accepted for later is neither lost nor applied twice,
  and is applied in the end;
* alerts: nobody gets the same alert again within six hours;
* setup: a server without an administrator can be set up, once, and to the end;
* invites: one invite makes one account, a revoked one makes none;
* second factor: never on without keys, keys that were shown work, once;
* sessions: a password reset ends what came before it, a login has one session;
* backup: there is always a verified archive, the limits hold, nothing torn is restored;
* configuration: file and copies agree once all is quiet, the encryption key stays;
* cluster: one node leads, the table says which, a live node can be elected, and a
  dead leader is replaced.

## Modules

| Module | Contents |
|---|---|
| `TaskLock` | one global task's lock, seen by any number of nodes and runs |
| `ExclusiveTask` | the abstract promise: one node enters and leaves at a time, until `broken` |
| `TaskLockProofs` | the TLAPS proofs about `TaskLock` |
| `Scheduler` | one node's scheduler across restarts |
| `SchedulerProofs` | the TLAPS proofs about `Scheduler` |
| `DeliveryQueue` | the notification queue and the channel it uses |
| `WeatherAlerts` | the check for severe weather and its record of alerts sent |
| `WebSocketHub` | hub, pumps and broadcasters |
| `Failover` | read-only mode, write queue, monitor |
| `Backup` | the backup directory, its writers and a restore |
| `LiveConfig` | `server.yml`, the shared configuration and the I2P manager's copy |
| `Setup` | first run, setup token, gates and pages of the wizard |
| `AdminInvites` | administrators and their invitations |
| `TwoFactor` | 2FA, passkeys and recovery keys of one user |
| `Sessions` | sessions, password and resets of one user |
| `ClusterElection` | heartbeats, health marks and elections over `cluster_nodes` |
| `ClusterProofs` | the TLAPS proofs about `ClusterElection` |
| `StorageProofs` | the TLAPS proofs about `Failover`, `LiveConfig` and `Backup` |
| `NotificationProofs` | the TLAPS proofs about `WeatherAlerts`, `DeliveryQueue` and `WebSocketHub` |
| `AdminProofs` | the TLAPS proofs about `Setup` and `AdminInvites` |
| `TwoFactorProofs` | the TLAPS proofs about `TwoFactor` |
| `SessionsProofs` | the TLAPS proofs about `Sessions` |
| `MC...` | constants and symmetry for TLC |

`MCNotifications`, `MCStorage` and `MCAccounts` instantiate several components in one run.
Their components share no state the models tell apart (where one produces what another
consumes, the consumer takes it as an input: `Sessions`, for instance, lets the second factor
be on or off at every login), so the state space is the sum of theirs and not the product:
only one component moves in a behaviour. The composed specification has every behaviour of
each component and each property speaks of one component.

Type invariants (`TypeOK`, `SetupTypeOK` and so on) document the state. Those of `TaskLock`,
`Scheduler`, `ClusterElection`, `Failover` and `WeatherAlerts` are proved as they stand; the other proofs carry
what they need of them in their inductive invariants. The runs check the properties that say
more.

The model of a component keeps one action per statement group that other
goroutines, nodes or a crash can separate; code between two such points is one
action. Names follow the source. Operators marked `mutant` are not part of a model:
each is the way a plausible mistake in the code would change the definition below
it, and is used to show that a property would notice.

**History variables.** Several guarantees of this code hold only while some
circumstance is absent: a lease guarantees nothing about a run that outlives it.
`incidents` (elsewhere `ghost`, `hubIncidents`, `mishaps`, `notes`) record which
circumstances have occurred, so that a property names precisely the ones it excludes.
No guard reads them.

### TaskLock

A run is a goroutine inside `executeTask`. `pc` is its place: `select`, `insert`,
`cas`, `confirm` are the statements of `acquireTaskLock`, `running` is the task
function with its bookkeeping up to the deferred release. `row` is the database row;
`nowText` and `seen` are the locals that survive from one statement to the next.
Time is in whole seconds, the precision of `locked_at`; since the cutoff keeps its
fraction, a lock exactly `LockTimeout` old may be judged either way (`Stale` and
`Refused` overlap there). `AcquireError` covers statements that fail, including
those that took effect. `ReleaseNodeLocks` is the end of `StopScheduler`, `Exit` the
end of the process for whatever reason.

Incidents: `overlap` (two runs of one node), `overrun` (a run inside `executeTask`
for `LockTimeout` or longer), `crash`, `dbError`, `earlyRelease` (the scheduler
stopped while a run was executing).

### Scheduler

`runs` are the goroutines with the kind of their dispatch; `active` and the kinds
stand for `s.active` and `s.inFlight`. Cron schedules fire at multiples of a period,
`@every` schedules a period after the reference instant. `RunTaskFn` includes the
retry policy because the code applies it under the task's mutex directly after the
function. `StartScheduler` includes the selection made by `runMissedTasks`; the
goroutine that executes the selection is `CatchUpNext`. `Exit` may happen in any
state and loses everything but `row` and `history`. When the drain times out, `DrainTimesOut` copies
the names in `s.active` (`toMark`) and the runs go on; `MarkInterrupted` is the UPDATE for one of these
names, and `MarkingDone` the rest of `StopScheduler`. That UPDATE, `persistTaskState` and
`RecordTaskRun` may fail (`Fault`), which the code logs or ignores. The lock is `TaskLock`'s
subject: here `AcquireTaskLock` succeeds or, for a global task, `LockRefused`.
`Dispatch` starts the goroutines of one action and keeps the history variables:
`overlapped` and `crossed` name the tasks whose runs met in flight and those whose
catch-up run came while the ticker was retrying them; `retryDue` and `retries` tell a
retry from an occurrence, which the code does not; `upAt` is the instant of registration
and `recorded` the occurrences in the history; `interrupted` has the tasks that were executing when a
drain timed out, until a run of the task writes a status, the task's UPDATE fails or the process ends
before it. Of the `incidents`, `lateStart` is a
`StartScheduler` that did not follow registration at once, `twice` an occurrence taken
again and `drained` a drain that completed.

### DeliveryQueue

`queue` holds the rows, with `wait` for the time left until `next_retry_at`.
`workers` are the goroutines of `ProcessQueue`, with the copy of `retry_count` the
SELECT returned. Writes whose error the code ignores may be lost (`Fault`). Incidents:
`doublePick` (a row selected while a goroutine has it), `markLost`, `writeLost`,
`crash`, `testRace` (disabled while a test was under way). `SendFails` and `SendSucceeds` are the return
of `channel.Send`, which may never come: `smtp.SendMail` sets no deadline. Successive calls overlap
freely, which also stands for several nodes and for manual triggers. Goroutines have no names:
`ProcessQueue` puts each of its own into some free slot.

### WebSocketHub

The Go channels are sequences with capacities; a goroutine that would block has no
enabled action. Closing a closed channel or sending on one panics: on the hub
goroutine that ends the process (`panicked`), on a request goroutine it is recovered
by the HTTP server. Incidents: `twin` (a second connection of a user while traces of
the first remain), `inverted` (unregistration taken before registration), `overflow`
and `hubOverflow` (a full send buffer, on a broadcaster or on the hub), `swept`,
`raced`.

### Failover

Each write is one call of `Exec`; `exec` is its place. `monitor` is the goroutine of
`monitorPrimaryDB`: `never` is the wait on the channel made while there was no
ticker. A statement may fail for reasons of its own while the database is up, since
the manager does not distinguish them, and may have taken effect. Incidents:
`ackLost` (a statement that failed had taken effect).

### WeatherAlerts

`check[c]` is one call of `CheckWeatherAlerts`: the alerts it detected, and its place between
`hasRecentAlert`, `Enqueue` and `recordAlertSent`. The scheduler does not wait for the last
check, so two may overlap. `excused` has the alerts that a second check asked for in between,
or whose record could not be read or written.

### Backup

Each writer is a process that builds, opens, writes and verifies an archive and then sweeps
the directory: `daily` and `hourly` are the scheduler's tasks, `admin` and `cli` make archives
on request. `files` are the names, `good` those with complete content. `Normalize`, `Keep` and
`Excess` are the tiers and the size cap of `retention.go`. A sweep works on the listing it
made; `Remove` may fail, which ends it. The restore verifies an archive, reads it a second
time and overwrites the live files one by one. Incidents: an unverified archive was counted,
a dated archive was rewritten in place (the incrementals are by every run, which is none), the
administrator deleted one.

### LiveConfig

`file`, `shared` and `given` are the three copies. A task is a settings request (`UpdateI2PConfig`,
`EmptyFile`, `FillFile`, `UpdateConfig`), a reload (`TimerFires`, `LoadConfig`, `EnsureKey`,
`ReloadAssigns`, `UpdateConfig`) or another request that calls `LoadConfig`, as the middleware does for
the title (`Readers`); writing the file is truncating and filling it.

`LoadConfig` has four outcomes. Without a file it makes a key and writes the defaults. A document that
does not parse, or is empty, gives the defaults without a key. Otherwise `NormalizeI2PConfig`
(`config.go:602`) and `validateConfig` (`validate.go`) replace invalid values in memory: `Corrected` is
what becomes of a value, of which only two things are assumed, that the defaults are valid and that a
corrected value needs no correction. Of the values replaced only the listen port is saved at once; it is
a field of the file of its own, `port`, since nobody takes it over while the server runs. `EnsureKey` then
makes a key if none was read and saves. `Accepted` has the values that `ValidateI2PConfig` lets an
administrator save; it is weaker than the normalisation, so some of them are corrected by the reload
that the save causes.

Every change of the file restarts the watcher's timer, but its removal is an event the watcher ignores.
Somebody who removes the file does so while no save is between truncating and writing. All processes
look for the file in one place. `Boot` is the load at a start with its save, which may fail or break off,
`BootUnread` a start that cannot read the file. Notes: `failure`, `overtaken` (a task from before the
latest reload assigned or applied after it), `removed`.

### Setup

`server` follows `main` from `DetectFirstRun` to the banner; `command` is `--maintenance setup`, which
counts, saves a token and shows it, and may end in between (`CommandEnds`);
`visit[b]` is a browser's request to a page of the wizard, page 1 creating the account. A page is
asked for in two steps, as the gates are: `CountAdmins`, then the file and the proof. `sent` is
the page the wizard's last answer led to, `Elsewhere` once that page was refused. A proof is
not bound to a token. Mishaps: `saveFailed`, `cut` (the first run ended between creating
`server.db` and the banner, or the command between saving and showing), `overlap` (two submissions
between COUNT and INSERT), `blind` (a
COUNT that failed while there was an admin). `SetupTokenRequired` and `GetSetupStatus` only
read.

### AdminInvites, TwoFactor, Sessions

Each SQL statement that changes a row is an action; `request`, `call` and `req` hold what a
request in flight has read and does next. Crashes lose the requests. In `AdminInvites` each
statement enforces foreign keys or does not, as the pool's connections differ. In `TwoFactor` a
request works with the user row its middleware loaded. In `Sessions` a row remembers the login
and the password it goes back to. The history variables (`excused`, `bare`, `forked`, `late`)
hold the cases a property leaves out, which the comment on it lists.

### ClusterElection

`rows` is the table `cluster_nodes`, `age` the age of each `last_heartbeat`, `role` the
`currentState` a node remembers, `pc` the statement its goroutine comes to next; `stale`
and `chosen` are the locals that survive from one statement to the next. A round of
`heartbeatLoop` is `SendHeartbeat`, `StaleNodeIDs`, `MarkNodesUnhealthy`, `CheckPrimary`
and, if that finds no healthy primary or fails, the election: `SelectCandidates`, `Demote`,
`Promote`. Any statement may fail, and an UPDATE that fails may have been applied.
`StopClusterManager` runs beside the loop, which may finish its round and take one more
tick that was already pending. A start elects before its first tick (the timeouts of its
statements add up to less than the interval), so the loop and the first election are one
sequence. An age beyond the threshold is not counted further.

Incidents: `lowJoin` (a node starts while one with a higher id lives), `late` (a live
node's heartbeat is older than the threshold), `raced` (a node starts while another
holds it in its list of stale nodes), `stop` (`StopClusterManager` was called), `crossed`
(an election begins while one with another choice is between its statements).

`lowJoin` is not a rare circumstance. The node that joins elects itself, the old primary
goes on believing it leads and writes that into its row with every heartbeat, and as both
rows are healthy nobody elects again. `AI.md` has "One node handles cluster-wide tasks"
and "Primary comes back | Remains secondary (no preemption)"; the code preempts. The
properties state what holds otherwise.

## Runs

| Run | Instance | What it shows |
|---|---|---|
| `task_lock` | two nodes with one run each, lease 2, clock to 4, faults up to second 1 | `MutualExclusion`, `NoOrphanLock`, `NoSilentTakeover`, `OrphanRecovered`, and that `TaskLock` implements `ExclusiveTask` |
| `task_lock_one_node` | two runs on one node and one on another, no faults after second 0 | finding: overlapping runs of a node release each other's lock |
| `scheduler` | one task, two goroutines, a trigger, a toggle, a failing statement, an exit and restart, drain timeout 1 | `NeverLate`, `InterruptedMarked`, `StopTerminates` |
| `scheduler_restart` | two cron tasks of periods 2 and 3, clock to 5, one restart, catch-up window 3 | `OccurrenceOnce`, `DrainWaits`, `RetryBudget` |
| `scheduler_drain` | one task, one trigger | finding: the drain does not cover manual runs |
| `notifications` | one message, two workers, one fault, one requeue, one administrator call; one alert, two checks, window 2, four hours; two connections of one user, one broadcaster, capacity 1 everywhere | `SentOnce`, `AttemptsBounded`, `SendingIsOwned`, `DisabledStaysOff`, `EventuallySettled`; `AlertNotRepeated`; `PanicNeedsTwins`, `ConnectedIsListed`, `ListedIsAlive`, `PumpsEnd` |
| `storage` | three writes, two outages, one other error, Close; two days of backups, two starts, one restore, one fault; one settings request, two reloads, one other load, an edit or removal, a failure or restart, three values of which a load corrects one | `NothingLost`, `AppliedOnce`; `GoodBackupRemains`, `LimitsHold`, `RestoreFaithful`; `RestsOnFile` |
| `failover_recovery` | one write, one outage | finding: the monitor is never woken |
| `live_config_key` | one edit, one restart | finding: a file that does not parse costs the encryption key |
| `accounts` | two requests or browsers at a time; one invite token, three addresses; batches of two keys; two sessions, two passwords, one reset; two setup tokens, two starts, one failure | `InviteOnce`, `RevokedCreatesNothing`; `TwoFactorHasKeys`, `ShownKeysWork`, `KeyUsedOnce`; `ResetEndsSessions`, `OneSessionPerLogin`; `OneSetupAdmin`, `SetupPossible` |
| `setup_wizard` | one browser, six pages, no failure | finding: the wizard ends after its first page |
| `cluster` | two nodes, threshold 1, four starts, stops or failed statements, any number of deaths | `OnePrimary`, `OnePrimaryRow`, `LiveIsCandidate`, `TakesOver` |

### Bounds

* Nodes and runs: a lost mutual exclusion needs two nodes; a lock released under a
  run needs two runs on one node and one on another, which is `task_lock_one_node`. The
  proofs cover all numbers.
* Lease 2 and clock 4 let a run overrun, a lock expire and be taken over, and the
  boundary second be judged both ways. Faults stop at `LastFault`, so that the clock
  can still pass the lease afterwards.
* Scheduler: with periods 2 and 3, clock 5 contains occurrences of each task before,
  at and after a restart, and one at which both are due. One retry delay is enough to
  exhaust the budget, `RetryBudget` being about the step beyond it. A catch-up run that
  comes between a failure and its retry (`crossed`) takes a longer catch-up of another task
  and is beyond these bounds; the proof covers what remains true then. Statements fail only in the
  run `scheduler` (`MaxFaults`), where the marking of interrupted tasks is; in `scheduler_restart` they
  do not, and the proofs are for any number.
* Delivery: two workers are enough for one row to be picked twice; two retries
  distinguish the first, the last and the forbidden third attempt; the backoff cap of
  1 is reached by the first delay. One fault puts a crash or a lost write at every point.
  With one message the batch limit never starves another.
* Alerts: a window of 2 in four hours has alerts within, at and beyond it.
* Hub: capacity 1 makes every channel fill up; two connections of one user are the
  smallest case in which the key of the map matters.
* Failover: three writes put one into each of the queue, the replay's copy and an
  `Exec` in flight; the second outage hits a manager that has recovered once.
* Backup: two days of two instants, the second a Sunday, make the tiers differ; with one
  weekly archive, a normalised daily one and a cap of 3 beside two incrementals, every sweep
  has something to delete. Two starts are two writers at once. `max_backups` is 0 to
  exercise its normalisation.
* Configuration: a save, a load that saves and two reloads cross each other in every order; one edit
  or one restart is enough to meet a file that another has truncated. The value that an administrator
  saves is the one that a load corrects. A second key is one too many for `KeyGeneratedOnce`, and a
  third changes nothing.
* Setup: two tokens are the server's and the command's; with two starts a later start follows
  every state of the first; three pages have a first, a middle and a last one, the finding's run
  has all six.
* Accounts: two requests are the smallest interleaving, and every property is about the rows of
  one token, one user or one login. Three e-mail addresses leave one to move to. Two batches
  of keys let a regeneration overlap the use of its predecessor, or another generation.
* Cluster: four events start both nodes and let one come back or two statements fail.
  `MayBeLate` is false because every property excuses lateness: a clock that waits for
  live nodes leaves out only states in which they hold vacuously. Three nodes, and late
  ones, are the proofs' business.

Deadlock is checked in `task_lock`, in which a node can always act. The other
systems come to rest when their bounded inputs are used up; `WebSocketHub` also when
the process has died.

### Fairness

* `TaskLock`: the clock advances, goroutines proceed, and the ticker of a node that
  is up dispatches again. Nothing makes a node crash, stop or return.
* `Scheduler`: the clock, the loop's exit once `stopCh` is closed, the drain's
  `select` and the UPDATEs of `markTasksInterrupted` are fair; a task function is not, it may never return.
* `DeliveryQueue`: the scheduler calls `ProcessQueue` again and again, time passes, and a goroutine
  gets on with its database statements, which have time limits (`TimeoutWrite` and the like).
  `channel.Send` is not fair: the only registered channel is e-mail (`main.go:934`), and
  `smtp.SendMail` (`smtp.go:442`) waits for a server without a deadline. `EventuallySettled` says so: a
  notification is settled unless a goroutine stays inside `channel.Send` with its row in `sending`.
  In the code any number of goroutines may hang like that; the model has a fixed number of slots
  and the property excuses the case that all of them do. Sending may also fail every time.
* `WebSocketHub`: Go's `select` chooses among ready channels at random, so a channel
  that is ready again and again is served (strong fairness of the unregister case), and
  a goroutine waiting to send on a channel that is drained again and again gets its
  turn (strong fairness of `ReadPumpEnds`). The write pump's own ping fails on a closed
  connection. Peers, broadcasters and new connections are not fair.
* `Failover` (only in `failover_recovery`): goroutines proceed and an outage ends.
* `ClusterElection`: time passes and the loop of a node that runs goes round. Nothing
  makes a node start, stop or die, and statements need not fail.

* `WeatherAlerts`, `Backup`, `LiveConfig`, `Setup`, `AdminInvites`, `TwoFactor`, `Sessions`: none;
  their properties are about safety.

### Findings

Five runs expect a violation; each states what the documentation, a comment or a log
line says and finds a behaviour of the code that differs.

1. `task_lock_one_node`: "Only one node runs each task in cluster mode" (`AI.md`).
   The lock identifies the node, not the run. A manual trigger during a scheduled run
   acquires the same lock again, and whichever finishes first clears it.
2. `scheduler_drain`: `StopScheduler` "drains in-flight task executions". Runs started
   by `TriggerTask` are not counted in `inFlight`.
3. `failover_recovery`: "All writes will be queued and retried when database recovers".
   The monitor's `select` waits on a channel created while there was no ticker.
4. `live_config_key`: the encryption key is "generated once on first run and persisted; never
   regenerated once present" (`config.go`). A `server.yml` that does not parse makes a load fall
   back to the defaults, generate a key and overwrite the file.
5. `setup_wizard`: "6 steps: Admin Account → API Token → Server Config → Security → Services →
   Complete" (`main.go`). Creating the account closes the gate of all pages, so steps 2 to 6 are
   refused, the API token is not shown and `setup.completed` is not set. A browser that goes to
   the later pages before it creates the account does get them.

### What the properties leave out

Each property names the circumstances it excludes. In the code these are real:

* Scheduler: a catch-up run waits for the runs queued before it, while the ticker runs and
  retries the same task. It then counts as an attempt of its own: its success resets
  `retryCount` and its failure brings another retry, so that there may be more of them than
  `retryDelays` has entries.
* Scheduler: an UPDATE of `markTasksInterrupted` that fails leaves the status of the last finished run,
  and so does a process that ends before it. Of two overlapping runs of a task the first to finish
  takes its name out of `s.active`, so that the other is not marked.
* Delivery: a mail server that accepts a connection and never answers keeps the row in `sending`.
* Backup: a failed `WriteFile` leaves a partial archive that the next sweep counts as the
  newest; a sweep counts archives other writers have not verified; a dated archive may be rewritten
  in place (the daily one, when the task runs again on the same day); the command line uses the
  default retention, not the configured one.
* Invites: deleting an account sets `used_by` to NULL and opens its invite again; revoking writes
  an id no admin has, which a connection that enforces foreign keys refuses; toggling an admin
  writes a stale row back; `CleanupExpiredInvites` has no caller.
* Second factor: a regeneration that fails is not rolled back; a disable may delete the keys of
  a later enable; two logins at once may share a key.
* Sessions: a request that read its session before the reset's DELETE may insert another after
  it; the errors of that DELETE are ignored; a refresh that fails after its DELETE logs out. Only a
  reset by e-mail ends sessions: `ChangePassword` and `UpdateUserPassword` leave them alone, and so does
  a change of an administrator's own password, although `docs/admin.md` says "Sessions are invalidated
  on password change". `ResetEndsSessions` is therefore about the reset.
* Alerts: nothing enqueued counts as sent, so the alert is suppressed for six hours.
* Configuration: two settings requests at once may lose one; a task overtaken by a later reload
  leaves the manager with other settings than the file. Values that a load replaced stay invalid in
  the file until somebody saves: memory and file agree up to `Corrected`, which is what
  `RestsOnFile` says. A request that loads the file while another save has emptied it writes the
  defaults and a new key over it; memory, file and manager agree afterwards, on the defaults.
* Setup: after a first run that ended early or could not save its token, the page asks to restart
  "to generate a setup token" (`en.json`), which no start does once `server.db` exists; only
  `--maintenance setup` helps. A token made by that command, or by a restore, while an admin
  exists opens nothing, since the gate asks for an empty table.

## Proofs

`TaskLockProofs` proves, for every set of nodes, every assignment of runs to nodes and
every positive lease length:

| Theorem | Statement |
|---|---|
| `TypeCorrect` | `Spec => []TypeOK` |
| `Inductive` | `Spec => []IInv` |
| `LockExcludes` | `Spec => []MutualExclusion` |
| `LockNotLeaked` | `Spec => []NoOrphanLock` |
| `LockNotStolen` | `Spec => NoSilentTakeover` |
| `LockRefines` | `Spec => ImplementsExclusiveTask` |

The only assumption is `LockAssumption`: `NoNode` and `NoRow` are not nodes, `home`
maps runs to nodes, the lease is positive and the bounds are numbers.

`MutualExclusion` is not inductive: nothing in it says why the second node's UPDATE
does not match. `IInv` adds the reasons, each under the incidents it tolerates:

* `CapturedInPast`: the instant a run captured is not ahead of the clock;
* `HeldByWriter`: a lock that names a node was written by a run that is still
  executing (excluded: crash, database error);
* `WithinLease`: a run inside `executeTask` is within the lease (excluded: overrun);
* `NoForeignSeen`: a run about to UPDATE has seen NULL or its own node. This is where
  the lease matters: by `HeldByWriter` and `WithinLease` the writer of a foreign lock is
  executing and young, so the lock cannot look stale (`ForeignLockIsFresh`);
* `OneRunPerNode`: until an overlap a node has one run inside `executeTask`;
* `RunnerHolds`: without an incident, an executing run is the one the row names.

The last two give exclusion: a run that succeeds with its UPDATE has seen NULL, so
nobody executed; the deferred release clears only the run's own lock. The refinement
uses the same facts: entering is `Start` because the row named no node, releasing is
`Finish` because the executing set was that node alone, and the step of the first
incident is `Break`.

`SchedulerProofs` proves, for every set of tasks and schedules, every list of retry delays, any
number of goroutines and every window, timeout and bound:

| Theorem | Statement |
|---|---|
| `SchedulerTypeCorrect` | `Spec => []TypeOK` |
| `LatestIsFound` | what `LatestOccurrenceBefore` returns |
| `NeverPostponed` | `Spec => []NeverLate` |
| `DrainIsComplete` | `Spec => []DrainWaits` |
| `InterruptionIsRecorded` | `Spec => []InterruptedMarked` |
| `RetriesAreBounded` | `Spec => []RetryBudget` |
| `OccurrencesRunOnce` | `Spec => []OccurrenceOnce` |

`SchedulerAssumption` asks for finitely many tasks, positive periods and delays, and numbers for the
rest. The walk of `latestOccurrenceBefore` is a recursive function; what it computes is proved with
`SetInduction`, which is induction for a set of numbers and needs no operator as parameter.
`LatestIsFound` takes as hypothesis that `maxCatchUpScan` steps cover the window (with 512 steps and
one hour they do for every schedule that fires at most once every eight seconds); the comment at
`maxCatchUpScan` says why the others do not matter.

* `NeverLate` is inductive with the types: `Schedule.Next` is later than its argument and grows
  with it (`NextIsLater`, `NextGrows`), and `applyRetryPolicy` only brings a run forward.
* `DrainWaits` needs `Drain`: the process of a completed drain stays stopped, its catch-up
  queue empty and its goroutines triggered ones.
* `InterruptedMarked`: a task without overlap has one run in flight (`OneRun`), so the deferred
  `markActive(name, false)` of another run cannot remove its name while it executes (`ActiveNamed`):
  whatever executes when the drain gives up is among the names copied. From then on the runs go on
  beside the UPDATEs, and a task leaves `toMark` by its own UPDATE only, as names are left to mark
  only while the shutdown marks (`Marking`).
* `RetryBudget` says nothing about the counter that the code compares. `Budgeted` ties the two: a
  retry is pending only if `retryCount` is ahead of the retries made, and a run that has not
  returned finds it at least at their number. The proof needs the exclusion of `crossed`: with a
  catch-up run between a failure and its retry the counter is reset while retries go on.
* `OccurrenceOnce`: `Timely` has the reasons. A cron task's next run is later than the
  registration and than every occurrence taken, unless it is a retry (`NextIsNew`); the history's
  start time covers the occurrences recorded (`StartsAfter`, `InHistory`), so what
  `runMissedTasks` selects as later than the history was not taken; nothing was taken in this
  process before it looks (`NotYet`), and the ticker takes only what is later than the registration,
  the catch-up only what is not (`QueueIsNew`). A late `StartScheduler` breaks that last division.

`ClusterProofs` proves, for every set of node ids, every threshold and any number of
events, whether or not nodes may be late:

| Theorem | Statement |
|---|---|
| `ClusterTypeCorrect` | `Spec => []TypeOK` |
| `ClusterInvariant` | `Spec => []CInv` |
| `LiveNodesAreCandidates` | `Spec => []LiveIsCandidate` |
| `PrimaryIsUnique` | `Spec => []OnePrimary` |
| `PrimaryRowIsUnique` | `Spec => []OnePrimaryRow` |

The only assumption is `ClusterAssumption`: node ids are positive numbers (0 stands for
"nobody chosen") and the bounds are numbers. Lemmas first say what each statement does to
the set of healthy rows and to the set of rows that say primary; from there on rows are not
looked into. `CInv` consists of

* `Bookkeeping`, `NoneStopped`: what the locals mean, and that only a stop stops;
* `InTime`, `StaleAreDown`: a live node's heartbeat is fresh, so `staleNodeIDs` returns
  nodes that are down, and they stay down until they are marked. `LiveIsCandidate`
  follows: only listed nodes lose `is_healthy`;
* `LowestLeads`: whoever leads, or has elected itself, has the lowest id among the
  healthy rows. Nobody but a starting node becomes healthy, and it is not lower. Two
  leaders are each healthy and each lowest, so they are one (`OnePrimary`);
* `ElectionsAgree`: elections between their statements have the same choice, and it is
  the leader if there is one, since the first candidate is the lowest id;
* `TableAgrees`: between the two UPDATEs, and while a node leads, no other row says
  primary. A heartbeat of the leader and the second UPDATE of an election therefore
  leave one such row (`OnePrimaryRow`).

The other proofs follow the same pattern: the type invariant as far as it is needed, the facts that
hold between the statements of a request, and then the property. Each part is stated under the
incidents it tolerates, which only grow, so that a part may use another that tolerates at least as
much. One lemma per action, or per group of actions that leave the same state alone, says what the
action makes of the record of its goroutine; the invariant is then proved from those lemmas.

`StorageProofs` proves, about `Failover` for every set of writes and number of outages, about
`LiveConfig` for any number of overlapping reloads, requests and other loads and every correction,
and about `Backup` for every
policy, every set of earlier archives and any length of a day:

| Theorem | Statement |
|---|---|
| `FailoverTypeCorrect`, `FailoverInductive` | `FailoverSpec => []FailoverTypeOK`, `FailoverSpec => []FailoverInv` |
| `QueuedWritesKept` | `FailoverSpec => []NothingLost` |
| `WritesAppliedOnce` | `FailoverSpec => []AppliedOnce` |
| `ConfigInductive` | `ConfigSpec => []ConfigInv` |
| `ConfigRestsOnFile` | `ConfigSpec => []RestsOnFile` |
| `BackupInductive` | `Spec => [](SweepInv /\ RestoreInv)` |
| `BackupRemains` | `Spec => []GoodBackupRemains` |
| `SweepsReachLimits` | `Spec => []LimitsHold` |
| `RestoresWhole` | `Spec => []RestoreFaithful` |

* `FailoverInv` gives every write one place: with its call, in the queue, or in the copy that is
  being replayed, never twice and never in two (`QueuedOnce`), and says that a write which is in
  one of them has not been applied (`Unapplied`). `AppliedOnce` alone is not inductive, because
  nothing in it says why the replay does not execute a write that its call already executed.
* `RestsOnFile` speaks of a server at rest. `ConfigInv` says for the time before it, once the timer
  of the watcher has run out and nobody saves (`Calm`), what is still to come (`Settled`): the copies are
  what a load makes of the file as soon as the newest reload has assigned and applied what it
  loaded, and every settings
  request that is still under way was overtaken by it. Applying `Corrected` twice is applying it once,
  which is why a save of corrected values by a load or a request changes nothing.
* `GoodBackupRemains` needs a reason why no sweep deletes the last verified archive. `SweepInv`
  has it as `Spared`: there is a verified archive later than anything that a sweep has on its list
  to delete or to keep, or the sweep keeps it. `Keep` and `Excess` are defined by ranks in an order;
  `RankGrows`, `FewRanks`, `NewestKept` and `ExcessSpares` say for a list of any length how many
  names they return and that the newest is among those kept. `LimitsHold` is inductive together
  with `Tidying`, which counts what the sweep on the latest listing has left to do.
  `BackupAssumption` asks that the archives there are at the start are finitely many and that only
  dated names have a date.
* `RestoreInv` says that nothing torn is extracted and what has been written so far (`Written`).

`NotificationProofs` proves, for any number of checks and any window, every set of messages,
goroutines and retry limit, and every set of connections and channel capacity:

| Theorem | Statement |
|---|---|
| `AlertsInductive` | `AlertsSpec => []AlertsInv` |
| `AlertsNotRepeated` | `AlertsSpec => []AlertNotRepeated` |
| `DeliveryInductive` | `Spec => []DInv` |
| `DeliveredAtMostOnce` | `Spec => []SentOnce` |
| `AttemptsWithinLimit` | `Spec => []AttemptsBounded` |
| `OffIsOff` | `Spec => []DisabledStaysOff` |
| `SendingHasGoroutine` | `Spec => []SendingIsOwned` |
| `HubInductive` | `HubSpec => []HubInv` |
| `HubPanicsWithTwinsOnly` | `HubSpec => []PanicNeedsTwins` |
| `ConnectedAreListed` | `HubSpec => []ConnectedIsListed` |
| `ListedAreAlive` | `HubSpec => []ListedIsAlive` |

* `AlertsInv`: what was queued has been recorded since or is about to be (`Remembered`), two checks
  hold the same alert only if it is excused (`OneSender`), so an alert about to be sent is due
  (`SenderIsDue`).
* `DInv`: as long as nothing was picked twice and no mark was lost, a message has one goroutine
  (`OneHolder`), its row is in the state that goroutine left it in (`RowOfHolder`), a message that
  arrived is never selected again (`SentIsOver`), and `retry_count` together with the attempt under
  way accounts for all attempts (`AttemptsCounted`). `SendingIsOwned` and `DisabledStaysOff`
  tolerate other incidents and have invariants of their own.
* `HubInv`: connections are registered once (`Once`), a read pump that is over left its
  connection on its way out of the map (`DoneLeaves`), without twins no two connections share a key
  (`TwinsApart`) and what is closed is gone from the map and from the register channel
  (`ClosedIsGone`). With twins but without overflow, sweep or inversion, only read pumps
  unregister (`PumpsUnregister`), each once, so a channel is still closed once (`ClosedIsOver`).

`AdminProofs` proves, for any number of browsers, starts, tokens, addresses and requests:

| Theorem | Statement |
|---|---|
| `OneAdminFromSetup` | `SetupSpec => []OneSetupAdmin` |
| `ServerCanBeSetUp` | `SetupSpec => []SetupPossible` |
| `InvitesInductive` | `InvitesSpec => []InvitesInv` |
| `OneAccountPerInvite` | `InvitesSpec => []InviteOnce` |
| `RevokedStaysRevoked` | `InvitesSpec => RevokedCreatesNothing` |

* Setup: between the COUNT of the gate and the INSERT the table is empty (`GateHolds`); while there
  is no administrator the token in the file has been shown, or the first run or the command is about to
  show it (`TokenSafe`), and it is deleted only after the INSERT (`InsertedIsThere`).
* `InvitesInv`: while an acceptance is between its INSERT and its mark, the account it made still
  has the address of the invite, so the UNIQUE column refuses a second one (`Protected`); a mark
  names an account that came from the invite (`MarksAreTrue`); a revoked row has nobody accepting
  it (`RevokedIsOver`).

`TwoFactorProofs` proves, for any number of requests and any batch size:

| Theorem | Statement |
|---|---|
| `KeysInductive` | `TwoFactorSpec => []KeysInv` |
| `ShownKeysStayValid` | `TwoFactorSpec => []ShownKeysWork` |
| `KeysUsedOnce` | `TwoFactorSpec => KeyUsedOnce` |
| `EnabledHasKeys` | `TwoFactorSpec => []TwoFactorHasKeys` |

* `KeysInv`: a generation under way has a number nobody was shown (`NumbersFresh`), what it has
  inserted is in the table unless another request interfered (`Undisturbed`), and a key whose
  use was recorded is spent or deleted (`WonIsSpent`). For `TwoFactorHasKeys`, a table that is
  empty while 2FA is on has a request behind it that fills it or switches 2FA off (`Covered`).

`SessionsProofs` proves, for any number of requests, sessions, passwords and resets:

| Theorem | Statement |
|---|---|
| `SessionsInductive` | `SessionsSpec => [](ResetInv /\ LoginInv)` |
| `ResetEndsThem` | `SessionsSpec => []ResetEndsSessions` |
| `LoginHasOneSession` | `SessionsSpec => []OneSessionPerLogin` |

* `ResetInv`: rows and requests that go back to a password from before the latest reset are
  marked late (`LateIsMarked`). `LoginInv`: a login has one row unless the one request that works
  on it accounts for the others (`OneWorker`, `Accounted`, `Single`).

Assumptions are those the modules name (`FailoverAssumption` and the like): finite sets, numbers
where the code has numbers, placeholders that are not real values.

Only model-checked: liveness (`OrphanRecovered`, `StopTerminates`, `EventuallySettled`, `PumpsEnd`,
`TakesOver`), which is outside the prover's reach together with `ENABLED`.

## Not modelled

* The bodies of the scheduled tasks, the default registrations and the schedule
  parser.
* Recipient look-up, templates and the protocols of the channels: a delivery succeeds
  or fails.
* `StopWebSocketHub`, the hub's `broadcast` channel and the functions that broadcast to
  everyone: nothing in the program calls them.
* Clocks that differ between nodes. The lease compares instants of two nodes; the model
  has one clock, which corresponds to nodes whose skew is below a second.
* Tor and I2P supervision. Both were read: `StopTorService` cancels a context that is never made
  again, so `RegenerateAddress` cannot start the service afterwards, and the I2P manager reads
  from its bridge without a deadline while it holds its mutex. What happens then depends on the
  external processes.
* Parsing of single settings, and which values validation replaces, the settings pages in the middle
of the setup wizard,
  administrators' sessions and API tokens, registration of users and verification of addresses.
* Authentication protocols, remote APIs, rendering, schemas and the command line: see the notes in
  `PROJECT.json`.

Most of the repository's lines are outside these models, and would stay so: a third is generated
GraphQL code, and most of the rest is clients of weather services, rendering, request decoding,
translations and DDL, which keep no state that two steps could disagree about.

## Plan

1. I2P eepsite and Tor service as state machines beside an external process.
2. User invitations and registration; schedules as operators, checked against a reference
   definition.
3. Composition of `Scheduler` with `TaskLock` for a task on two nodes.

## Running

    tlc -workers 2 -config MCTaskLock.cfg MCTaskLock
    tlc -workers 2 -config MCAccounts.cfg MCAccounts
    tlapm TaskLockProofs.tla
    tlapm SchedulerProofs.tla
    tlapm ClusterProofs.tla
    tlapm StorageProofs.tla
    tlapm NotificationProofs.tla
    tlapm AdminProofs.tla
    tlapm TwoFactorProofs.tla
    tlapm SessionsProofs.tla

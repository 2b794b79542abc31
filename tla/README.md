# Hosthalla, specified

A TLA+ development of Hosthalla: a server that keeps a registry of hosts, shows
them on a live dashboard and collects metrics from agents that run on the hosts.
The modules are translated from the source (paths below are relative to the
repository's root, where the code is under `internal/`); TLC checks small instances
of them, TLAPS proves the safety properties and the refinement for every instance.

    tlc -workers 2 -config FleetRegistry.cfg MCFleetRegistry     # a run
    tlapm FleetRegistryProofs.tla                                # the proofs

## The system

One binary has three roles. `hosthalla server run` is the server: web interface, API
and database in one process. `hosthalla agent run` is an agent: one process per
machine with one worker per server it reports to. The other commands (`users`,
`tokens`, `hosts`, `agents`, `management-methods`) open the server's database from a
process of their own, while the server runs.

```
 agent process                server process                     CLI process
 Runtime ─ Worker ──HTTP──▶  API handlers ┐                      commands
           Worker            web handlers ┴▶ services ──▶ database ◀──┘
             │                                  │ Publish (same goroutine)
   CachedMetricsCollector                   event bus
                                                │
                                     DashboardHandler: cache, browsers' channels
                                                │ websocket
                                             browsers
```

### Components

| Component | State | Operations | Meets | What is hard | Correct when |
|---|---|---|---|---|---|
| Host and agent registry: `agent/service.go`, `host/service.go`, `api/handlers`, `web/handlers/hosts.go`, the SQLite repositories | tables `host`, `agent`, `agent_config` and their constraints | register, heartbeat, read configuration; create, edit, delete a host; delete an agent | every handler and the CLI share the tables; no transaction spans a handler's queries | two registrations, a registration and an edit, a heartbeat and a deletion overlap; a handler stops halfway | one agent per host; the agent a host names is its own; nothing outlives its owner |
| Dashboard cache: `web/handlers/dashboard.go` | `h.cache`, `h.mu` | `dashboardData`, `collectDashboardData`, `invalidateCache` | filled by pages and live updates, cleared by events | a collection overlaps commits, their events and other readers; it fails | nobody is shown data older than an event already handled, or than the TTL |
| Live updates: same file | `h.clients`, a channel per browser | the event handlers, `queueLiveUpdate`, `signalClient`, `SubscribeToDashboard` | events in, websocket out, reads through the cache | a full channel is emptied by one and refilled in three separate tries, by publishers and reader at once; browsers stall | no update is forgotten; no browser holds up a request |
| Cached metrics collector: `agent/service.go` | last result, `running`, `completed` | `GetMetrics` | shared by all workers of the process | waiting behind a collection that fails or panics, while its result expires | fresh results, one collection at a time, everybody woken |
| Agent process: `agent/runtime.go`, `worker.go`, `client.go`, `commands/agent_runtime.go` | workers, tickers, the channel of results | run, heartbeat, send metrics, stop | calls the collector and the server's API | servers that never answer; panics; an interruption at any point | it stops when asked, never before its workers, and workers are independent |
| Users, sessions, tokens: `authentication/`, `web/handlers/auth.go`, `administration.go`, `api/middlewares` | tables `profile`, `password_authentication`, `session`, `api_token` | create, rename, delete a user; set a password; log in and out; create, revoke, use a token | web, API and CLI share the tables | statement by statement again; undoing a failed creation; the latest password by a clock | nothing outlives its user; replaced and revoked is for good |
| Reports of the agents: `host_metric_snapshot.go` and `host_system_info.go` of both databases | tables of snapshots and metrics, of system information and GPUs | insert and trim to 500 per host, replace, list | sent by agents, read by the dashboard and the hosts page | clocks that go back; unsigned counters stored as signed; transactions of one host, and lists read by several statements, overlap | the newest 500 stay; a list shows what was reported; GPUs are those of one report; nobody waits for ever |
| Management methods: `host/service.go`, `host_management_method.go`, `host/sshcheck` | table of methods, encrypted secrets | create, update, delete, check over SSH | the host's page and the CLI | a method is read, changed and written in separate statements; a check reads the address and the credentials one after the other | a half of a key pair that the form leaves blank stays; credentials go to their host |
| Export and import: `web/handlers/hosts.go` | none of its own | import row by row, export secret by secret | creates hosts and methods | the hosts are listed once and created one by one; it fails in the middle and is tried again; an export's methods disappear under it | a finished import has stored all its hosts, each with its methods; an export leaves nothing out silently |
| Agent configuration files: `agent/file_config.go`, `config/fs.go` | files | register writes one, run reads all | the agent process | exclusive creation, a crash before the contents are there | never overwritten, all valid or none started |
| Event bus: `events/in_memory.go` | subscribers | subscribe, publish | services to dashboard, in the publisher's goroutine | a handler that fails | later handlers and the publisher's answer |
| Server start and stop: `web/run.go`, `config/` | configuration, listener | bootstrap, migrate, serve, shut down | creates the first user | two servers, a failing step | – |
| PostgreSQL storage, command line framework, templates, logging and release scripts | | | | | |

`PROJECT.json` lists the same parts under `components`, with what is modelled of each,
and under `hazards` the places in the code where a test would hardly reach, each with
the properties that guard it.

## Modules

| Module | Models | Against it |
|---|---|---|
| `HostMonitoring` | abstract: what the registry promises, each request one step | |
| `FleetRegistry` | the registry, query by query | `MCFleetRegistry`, `FleetRegistryProofs` |
| `DashboardCache` | the cache and its lock | its `.cfg`, `DashboardCacheProofs` |
| `DashboardFeed` | events, channels and browsers | `MCDashboardFeed`, `DashboardFeedProofs` |
| `MetricsCollector` | `CachedMetricsCollector` | its `.cfg`, `MetricsCollectorProofs` |
| `AgentProcess` | runtime and workers | its `.cfg`s, `AgentProofs` |
| `UserAccounts` | users, passwords, sessions, tokens | `MCUserAccounts`, `UserAccountsProofs` |
| `HostImport` | the import and export of hosts, management methods and their check | `MCHostImport`, `HostImportProofs` |
| `HostReports` | what agents report: snapshots, metrics, system information | its `.cfg`, `HostReportsProofs` |
| `AgentConfigFiles` | `agent register` and the start of `agent run` | `MCAgentConfigFiles`, `AgentProofs` |

Definitions whose comment starts with "Fault:" are not part of any specification. Each
is a plausible mistake in the definition below it; put in its place, it makes TLC find
the property violated that `PROJECT.json` pairs it with under `mutants`.

### FleetRegistry

`host`, `agent` and `config` are the tables, reduced to keys, the unique columns and
the references between them. A request is a record `req[r]`: the statement it runs next
(`pc`) and what it has read so far. One action is one SQL statement together with the
constraints the schema gives it (`migrations/sqlite/*_baseline.up.sql`): `MayOwn` is
`agent.host_id unique references host`, `UpdateAllowed` the foreign key of
`host.monitoring_agent_id` and the unique address, `Unlinked` and `RemoveAgents` the
`on delete` clauses. `RegisterAgent` is `StartRegister`, `LookupAgent`, then
`UpdateAgent` or `CreateAgent`, then `ReadHost` and `AssignMonitoringAgent`, which writes
the *whole* row it has read back. The edit form does the same (`StartEdit`,
`SubmitEdit`), which is why the two can undo each other. `AbortRequest` ends a request
after any statement; nothing is undone, and the agent registers again. That a host has
one agent (`OneAgentPerHost`) and that nothing outlives its owner (`NoOrphans`) are
constraints of the schema; the proofs need and establish them, no run repeats it.

The heartbeat, `GetConfig` and the administration page share `SelectConfig` and
`BootstrapConfig`: the configuration row is inserted by whoever first finds it missing.

`HostMonitoring` says what all of it amounts to: an agent is enrolled once, for one host
without an agent; a host names its own living agent or none. The refinement maps
`owner` to column `agent.host_id` and `monitor` to `host.monitoring_agent_id`; most
queries are stutters.

### DashboardCache

The database is the sequence of its commits; a query sees a prefix of it, so data is
one prefix length per query. `CheckCache` is the section under the read lock,
`LockCache` the second look under the write lock, `RunQuery`/`StoreCache`/`FailQuery`
the collection, in which `holder` keeps everyone else out, the event's handler
(`Invalidate`) too. `Commit` is a service's commit, followed some time later by its
event in the same goroutine; `SilentCommit` one that this process publishes nothing
for, of the CLI or of a management method that is updated or deleted.

### DashboardFeed

A publisher commits, clears the cache, and signals every client under the read lock of
`clientsMu`. `signalClient` is three tries, `TrySend`, `TryTake`, `TryPut`, each a step
of its own, and is run by publishers and, for the first update, by the client's own
goroutine. The page is a set of fragments; `Rendered` is which of them an update
replaces, `Touched` which of them a commit changes. An update that a lost race
inside `signalClient` drops is recorded in `lost`, and nowhere else may one get lost. Two
races drop: the channel was emptied before `TryTake`, or filled again before `TryPut`.
`AssignMonitoringAgent` publishes two events for one commit (`PublishSecond`).

The code does not bring every change to an open page, and the model says which not:

- `LeftOut`, what the update of an event does not replace. A snapshot changes the host's
  status, hence the class of the row's `<li>` (`dashboard_hosts.templ:59`), while the metric
  update replaces the status badge, the metrics and the last metric only; so a row keeps the
  colour of its old status, as `dashboard_test.go:157-168` has it. An edit that loses the
  agent (the exception in `LinkKept`) changes the overview, while its update is the row.
- `SilentCommit`, what no update follows: the deletion of a management method
  (`host/service.go:559`, the row's and the overview's count), the deletion of an agent, and
  whatever the CLI commits in its own process. (An update of a management method publishes
  nothing either, but the page shows nothing of it.)

`changed[f]` is the last commit that changed a fragment, of any kind, and `due[f]` the last
that has an update to bring it. `NothingForgotten` is about fragments that are out of date by
`changed`: what they miss is on its way, or was dropped, or none of it was due.
`ChangesShown` says that what is due arrives, also when changes that are not due come in
between. A fragment of the first kind stays out of date until something else renders it. That
a page ages by the clock alone ("2 min ago", a host that turns stale) is no commit and not
modelled.

The cache is not modelled twice: `StartRender` notes the announced commits and
`EndRender` renders any prefix that has at least those, which is what
`ReadYourWritesHolds` proves of `dashboardData`. This allows more than the code does
(a later render may take an older prefix than an earlier one).

### MetricsCollector

A sample is a finished collection; the last one is what `c.metric`/`c.err` hold. The
sections under `c.mu` are single steps (`AnswerFresh`, `Wait`, `Collect`, `Store`,
`ReadShared`); the channel `completed` is a number, and closing it adds the number to
`closed`. `Store` has the three outcomes, and a panic goes on only after everybody
waiting has been woken.

The process makes the collector's TTL the shortest metrics interval of its
configurations, so a worker whose ticker is a little early gets the sample of its last
tick. `NeverStale` says how old that may be.

### AgentProcess

`worker[i]` is where a worker's goroutine stands: in the select of its loop, in a
request, in the collector, or at its end. A ticker's channel holds one tick. The HTTP
client has no timeout, so that `EndRequest` is fair only for the servers in `Answering`;
`AbortRequest` is the end of the process's context. `SendResult` is the deferred function
of `runInstance`; the runtime receives (`ReceiveResult`), notices the interruption
(`SeeDone`) and returns. `served[i]` is the version of the worker's configuration in its
server's database, `version[i]` the one it runs with.

### UserAccounts

Tables again, a statement a step. `CreateUser` is `InsertProfile`, `StampPassword`,
`SetUpPassword`, with `FailSetUp` and `Rollback` when the second insert fails;
`AbortRequest` is the end of the context, which the rollback shares. `created_at` is read
(`StampPassword`) before the row is inserted, so rows may arrive in another order; the
password that counts is the one with the latest. A login finds the user twice by name, for
the password (`CheckPassword`) and for the session (`FindProfile`); names may change
hands in between. A token is created for the user of a session (`StartCreateToken`,
`FindOwner`) or for one found otherwise (`StartGrant`), and inserted later (`CreateToken`).
`abandoned`, `replaced` and a request's `checked` record history for the properties. The clock is assumed not to go back and to give no two
passwords the same nanosecond.

### HostImport

The tables `host` and `host_credential`, a statement a step. `StartImport` is the part of
`ImportHosts` that only reads: the hosts are listed, entries whose address is taken or
was earlier in the file are skipped, and the file is refused as a whole if an entry is
not valid. From then on `ImportHost` and `ImportMethod` store one row each, with nothing
to undo them. Other requests come in between: a second import, the forms, the deletion
of the host whose methods are being created. The slot of a request whose answer promises
nothing more is free at once (`Answer`). `UpdateHostManagementMethod` reads the
row (`StartUpdate`), reads it again for the half of a key pair that its form lacks
(`RereadSecret`), and writes all of it (`SaveMethod`). `wanted`, `gone` and `excused`
record history for the properties.

`ExportHosts` lists the hosts (`StartExport`), then their methods (`ListMethods`), then reads
one secret after another (`ExportSecret`); a method that is gone by then, or cannot be
decrypted, is named in a warning. `TestSSHManagementMethod` reads the host's address
(`StartCheck`), then the credentials of the method in its URL (`ReadCredentials`), and
dials. What the peer answers is a status and changes nothing; it may also say nothing for
ever, as only the dial has a time limit (`sshcheck.go:90`), so `EndCheck` is not fair.

A host whose import was cut off stays without its methods: the next import of the file
finds its address taken and skips it. `WholeUnlessCutOff` says that this is the only way.

### AgentConfigFiles

`file` is the directory; a file's text is one of four kinds, by how much of it was
written and whether that loads. `reg[p]` is a register command: `CheckFile` is its
`os.Lstat`, `RegisterAgent` the server's answer, `SendSystemInfo` the report that follows
it, `CreateFile` the exclusive open and
`WriteFile` the write, whole or not. A file that is removed while it is open takes what
is written with it (`writer`). `run` is the start of `agent run`: the directory is
listed, each file read in a step of its own, and `StartWorkers` decides; what follows is
`AgentProcess`. `removed` is history. Taken as given: what was closed stays on disk.

A file cut short inside its API key, or after it, loads: every later setting has a default.
The model has such files (`cut`), and nothing contradicts their being run.

### HostReports

`driver` is the database of the configuration, chosen once; both are in one module
because the reads and the properties are the same. In SQLite a transaction that begins
with a write excludes all others, so `CreateSnapshot` and `UpsertSystemInfo` are one step
each. In PostgreSQL the statements are steps: `InsertSnapshot`, then the delete that first
sees some rows (`SelectOlder`) and then waits for those who delete the same ones
(`DeleteOlder`), then the reading of its own row and the commit (`CommitSnapshot`); a
transaction's rows are nobody else's until then. Waiting is a guard: for the key another
has inserted, for the rows another deletes, for the host's row when it is deleted. The
rows of one delete are locked in one step, which is right as all deletes of a host go
through the same index; everything else that could close a circle of waits is a step.

A list is rows (`ListSnapshots`, `ListStepwise`, `ListRecent`, `ListLatest`, `ReadInfos`) and then
the metrics or GPUs, all at once (`LoadMetrics`, `ReadGpus`) or, in PostgreSQL's
`ListHostMetricSnapshots`, snapshot by snapshot (`ReadNextMetrics`). A counter has the two values on
either side of the largest that can be stored: `Signed` is the conversion, `Storable` the
check of the column, `Readable` the test a read makes. `sent` and `committed` are history.

## Runs

| Run | Bounds | Shows |
|---|---|---|
| `fleet` | 2 hosts, 3 agent ids, 2 addresses, 2 overlapping requests | registrations that overlap agree on one agent (`SameAnswer`); a host names only its own agent (`MonitoringAgentOwned`); a link is lost only to an edit that read the row before (`LinkKept`); `HostMonitoring` is implemented |
| `dashboard_cache` | 2 readers, 1 writer, 2 queries, TTL 1, 2 commits, clock to 2 | `ReadYourWrites`; what is not announced is shown after a TTL (`StaleAtMostTTL`); readers behind a collection use its result (`FreshNeverReplaced`); every reader is answered and every event handled, also when collections fail (`EveryoneAnswered`) |
| `collector` | 3 callers, TTL 1, clock to 1 | `NeverStale`, `CollectionsSpaced`, `PanicStopsOne`; every call returns |
| `feed` | 2 hosts, 1 browser, 2 publishers, channel of 2, 2 commits of up to two events | a fragment that is out of date is on its way, or its update was dropped by a race in `signalClient`, or it misses only what no update brings (`NothingForgotten`) |
| `feed_liveness` | 1 host, channel of 1, 2 commits | publishers return although the browser may stall until its write times out (`PublishersReturn`); every change that has an update is shown unless that is dropped (`ChangesShown`) |
| `agent` | 2 workers, one server that may never answer | the runtime leaves no worker behind, reports an error only if all panicked, stops when asked; a silent server holds up its own worker only |
| `agent_config_updates` | 1 worker, 2 versions | finding, below |
| `accounts` | 2 users, 2 names, 1 session, 1 token, 2 requests, 3 readings of the clock | nothing outlives its user (`NoOrphans`); a login enters as the user it has checked (`EnteredAsChecked`); `PasswordSetUp`, `ReplacedForGood`, `RevokedForGood` |
| `accounts_interrupted` | 1 user, 1 request | finding, below |
| `host_import` | 2 hosts, 2 methods, 2 addresses, 2 files, 2 requests | an import answered 303 has stored its file (`ImportedStored`), whole (`WholeUnlessCutOff`); a half of a key pair changes only when a form has a new one, or an overlapping update writes the old one back (`SecretKept`); an export names every method that stays (`ExportWhole`); a check sends credentials to their own host (`CredentialsOfHost`) |
| `host_reports` | 1 host that keeps 1 snapshot, 3 reports, clock to 3, 2 requests, both databases | only the newest stay, plus one per overlapping transaction (`NewestKept`); no list shows what was not reported (`ListedAsReported`); GPUs are those of one report (`InfoWhole`); no circle of waits (`RequestsAnswered`) |
| `agent_files` | 2 paths, 2 servers, 2 registrations, 2 agents | what was registered is on disk whole (`RegisteredStored`), a run starts a worker for every file it found or none (`AllOrNone`) |

Why the bounds are enough. Every hazard here is between two actors, with a third step
in between at most: two registrations that both find no agent, with a deletion between;
a reader that collects while one waits and an event comes; a publisher that takes an
update out while another fills the room. Three agent ids let an agent be deleted and
enrolled anew while a request still holds the first. Of the two files of `host_import`,
one has an address twice and a host with two methods, the other a method that is not valid.
`host_reports` keeps 1 snapshot where the code keeps 500: with 3 reports it is at its limit,
beyond it, and late, and times may be equal, ascend or go back; the counters' range of 4 has room on either side of its half. Two queries are enough to tear a
collection, a clock that passes the TTL to let an entry expire and be collected again. A
channel of 1 or 2 stands for the 8 of the code: full, nearly full and empty is what
`signalClient` can tell apart. The safety properties are proved for all values as well,
so that for them the bounds only decide how soon a mistake in a model would show.

Symmetry is used in runs without liveness only, on sets whose members no definition
tells apart. The runs check deadlock too; only in the agent does the program end, and
`Ended` is its last state's stutter.

### Fairness

No specification assumes more than its `FairSpec` says, and safety needs
none: it holds of `Spec`, of which every `FairSpec` is a part.

- A goroutine that can run does (weak fairness of the steps between two waits).
- `h.mu` and `clientsMu` are Go mutexes, which hand the lock to a waiter that has
  waited long enough: strong fairness of the steps that take them (`CheckCache`,
  `LockCache`, `Invalidate`, `Unregister`).
- A `select` with several ready cases chooses at random, so a case that is ready again
  and again is taken at some time: strong fairness of `TakeTick` and `ReturnOnDone`.
- A local database query or a reading of the machine's counters ends, well or not.
- A database grants a lock that is free, and its statements end (`WriteStep`, `ReadStep` of
  `HostReports`).
- A browser that does not read is given up when the write times out
  (`dashboard.go:181`): an update that is being rendered is written or the connection is
  broken off (`EndRender`, `BreakOff`).
- Nothing is assumed of servers outside `Answering`, of a context to end, of an SSH peer, or
  of anyone to start a request.

## Proofs

Every safety invariant, every action property and the refinement that a run checks is a
theorem as well, for all values of the constants. The scheme is the same in each module:
`IInv` is the conjunction of the type invariant and named parts, a lemma per action shows
that it is kept, `Invariance` states it of the specification, and the theorems after it
draw each property from it. TLC has checked every `IInv` on the module's run before it was
proved.

Assumed are only the named `ASSUME`s of the modules, which TLC evaluates in every run:

- `Nil` and `NoCall` are none of the values they stand in for (hosts, agents, names, and
  the records of rows and calls), ids of hosts and agents differ, and publishers are not
  connections;
- TTLs, limits and bounds are natural numbers, zero only where that makes sense;
- the requests of `HostReports` and the paths of `AgentConfigFiles` are finitely many, as
  they are counted. Nothing else is assumed finite: hosts, users, methods, browsers and
  publishers may be any sets.

**FleetRegistry.** `TypeCorrect`, `OneAgentPerHostHolds`, `NoOrphansHolds`,
`MonitoringAgentOwnedHolds`, `SameAnswerHolds`, `LinkKeptHolds`, and `Refinement`: every
step implements one of `HostMonitoring` or stutters. `MonitoringAgentOwned` is not
inductive: whether a row that is written back names the host's own agent depends on what
the request read some statements ago. The strengthening `RequestsInv` says what a
request in flight knows of the database: the agent it holds has been issued and, while
it lives, belongs to the request's host, and so does the agent in the row it has read.
That an id is never given twice (`IssuedInv`) makes this last when rows are deleted.

**DashboardCache.** `TypeCorrect`, `ReadYourWritesHolds`, `StaleAtMostTTLHolds`,
`FreshNeverReplacedHolds`. The invariant relates the cache to the events: while an
unexpired entry is cached, it has all that is announced, in each query, because handling
an event empties it and a collection cannot overlap the handling; a collecting reader's
finished queries have what was announced, and all commits older than its own clock
reading; times in the log ascend.

**DashboardFeed.** `TypeCorrect`, `NothingForgottenHolds`. `TouchedRendered` is the lemma
about the events: but for `LeftOut`, an event's update replaces all that its commit may have
changed. That what a page shows is up to
date or on its way is not inductive: a render that read the data before a change may
replace what an earlier one, which happened to see the change, has shown. `ShownInv` speaks
of what a fragment is *sure* to show when the render under way is done, and counts only
renders that have not started. It needs `AnnouncedInv` where a render starts: whatever the
cache has not been cleared for, the publisher that made the change has still to signal.
`MergedBoth` is the lemma about the code's algorithm, that a merged update replaces all
that either would have.

**MetricsCollector.** `TypeCorrect`, `NeverStaleHolds`, `CollectionsSpacedHolds`,
`NoLostWakeupHolds`, `PanicStopsOneHolds`. The invariant: `running` exactly while one
caller collects, that caller owns the channel `completed`, and every earlier channel is
closed; the last sample is older than a TTL when a collection starts; and a caller that
waits was asked before the awaited sample is stored.

**AgentConfigFiles and AgentProcess**, both in `AgentProofs`, which extends the two: the former's
initial states and steps are `FilesInit` and `FilesNext`. `TypeCorrect`,
`RegisteredStoredHolds`, `AllOrNoneHolds`: a registration that is writing has its own file
still open unless the file was removed (`RegInv`), since creation is exclusive; a run has
loaded exactly one configuration of each file it has read, or is faulty (`RunInv`).
`ProcessTypeCorrect`, `NoneLeftBehindHolds`, `ErrorOnlyIfAllPanickedHolds`: only workers that have ended are in the
channel or received, none twice, and one returns without a panic only after the interruption
(`ProcessInv`).

**UserAccounts.** `TypeCorrect`, `NoOrphansHolds`, `PasswordSetUpHolds`,
`EnteredAsCheckedHolds`, `ReplacedForGoodHolds`, `RevokedForGoodHolds`. `ReplacedForGood` rests on
`ReplacedInv` (a replaced password has a newer one over it, or its user is gone) and this on
`Older`: between the reading of the clock and the insert, all that a change of password has
found stays older. `EnteredAsChecked` rests on `Checked`: until names change hands, the name
that was asked for still is the checked user's.

**HostImport.** `TypeCorrect`, `NoOrphansHolds`, `ImportedStoredHolds`, `WholeUnlessCutOffHolds`,
`ExportWholeHolds`, `CredentialsOfHostHolds`, `SecretKeptHolds`. What each request has still to do
is part of the invariant: every address of an import's file is held, was held, or is that of an
entry to come (`AddressesCovered`); of the host being imported all methods before the next
one are there, or it is excused (`MethodsStored`); what an export has to name is of a host it
lists, or among the secrets it has left (`WillBeNamed`).

**HostReports.** `TypeCorrect`, `NewestKeptHolds`, `ListedAsReportedHolds`, `InfoWholeHolds`. `BaseInv`
relates the tables to the reports, `ReadsInv` a list or answer on its way to the tables as they
change under it. `NewestKept` takes the longest argument here.

- That the newest stay: `OutrankedStays` shows that rows which each have `MaxSnapshots` newer
  ones may go together, and what they outranked stays outranked, by those that outrank the
  newest of them. `ChosenInv` says that of the rows a PostgreSQL transaction has chosen to delete,
  whatever others insert and delete until it does.
- That not too many stay, in SQLite: no two rows of a host have one time (`TimesInv`), so
  that `NewestFew` bounds what a delete leaves.
- In PostgreSQL, for transactions that do not see each other: `Chain` orders those that
  have chosen what to delete. What a transaction would leave, plus one for each that chose
  before it, is within the room of `MaxSnapshots` plus the other requests. A commit adds
  its row to what the later ones leave and takes itself from those before them; those that
  chose earlier leave at most what it leaves and their own row. So the bound in the property,
  one more for each *other request*, is right for any number of requests.

**Only model-checked.** Liveness, since progress under fairness and `ENABLED` are beyond the
prover: `EveryoneAnswered`, `CallsReturn`, `PublishersReturn`, `ChangesShown`, `StopsWhenAsked`,
`OthersGoOn`, `RequestsAnswered`. The two findings are counterexamples, which TLC shows. No
module has a recursive operator, and the proofs use no induction over data: where a least
or a newest element is needed, it comes from the library's theorem on well-founded relations.

## Findings

- `agent_config_updates` (`internal/agent/worker.go:53`): the README says the intervals of an
  agent "can be updated through the server-side agent configuration". The worker drops
  the version a heartbeat is answered with, never asks for the configuration, and the
  server has no caller of the repository's `Update`. `UpdatesReachWorker` is violated: a
  worker whose server answers everything runs with version 1 for ever.
- `accounts_interrupted` (`internal/authentication/service/service.go:112`): `CreateUser` undoes the
  profile when the password cannot be stored, to "avoid leaving orphaned users", but with
  the context whose end may be the reason. Two steps and an interruption leave a user
  without a password, whose name is taken. `PasswordSetUp`, in the run `accounts`, shows that
  this is the only way.

Met while modelling and stated as exceptions in properties: an edit whose handler
reads the row (`web/handlers/hosts.go:531`, when the form is posted) before an overlapping
registration writes it takes the link to the agent away again until the agent's next
registration (`OverlappedByEdit`); a live update may be dropped (`lost`), or not bring all
that its commit changed (`LeftOut`), or not be sent (`SilentCommit`); of two overlapping
updates of a management method one may write back what the other replaced (`HalfGiven`); an
SSH check may dial the address that its host had a moment before (`gone`).

A login asks for the user by name twice. When names change hands in between, the session is
that of the name's new owner: `EnteredAsChecked` has the exception (`Forget`).

## Plan

Modelled, in this order: registry with its abstract specification and proofs, cache and
proofs, collector and proofs, live updates, agent process, accounts, import and
methods, agent configuration files, reports in both databases, export, SSH checks and the
creation of tokens.

Proved, in this order: registry and its refinement, cache, collector; accounts, import and
export, the two modules of the agent, reports, live updates.

As models, perhaps: `DashboardFeed` over `DashboardCache` instead of its promise, and that who
asks the cache later is shown no less.

## Not modelled

- PostgreSQL storage beyond `HostReports`: the same single statements against the same
  constraints as SQLite's, which the models follow. PostgreSQL keeps the number of cores
  in 32 bits; no machine has as many.
- Server start and stop, configuration: read once, in sequence; the stop is that of
  `http.Server`. The event bus calls one handler per event, which never fails.
- Migrations (a library's work), logging, routing, templates and release scripts: no
  control of interest. The hosts page filters, sorts and counts what it has listed.
- Ping, the outcomes of an SSH check, and the reading of the machine's counters: pure I/O,
  present only as an outcome.
- The command line framework: sequential parsing without state.
- Data within rows that no property tells apart: tags, texts, an agent's
  `last_seen_at`, scopes and lifetimes of tokens.

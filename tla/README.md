# AUDEBase in TLA+

AUDEBase is a plugin platform in TypeScript: a server (`packages/core`) on
PostgreSQL and Redis, a framework that loads plugins and lets them call each
other, and packages for workflows, permissions, events, jobs, migrations and
the like. This directory holds TLA+ modules of the parts with state and
concurrency, the TLC configurations that check them, and proofs that the TLAPS
proof system checks. Paths below are relative to `src/packages/`.

The server and the plugins are JavaScript: one process is one event loop, so
that code between two `await`s is atomic and everything else interleaves. An
action of a module is therefore the code between two awaits (or the whole
handler where it has none), and what is in flight across an await is explicit
state. Several server processes share one database, whose statements are atomic
and which survives them.

## Inventory

| Component | State | Operations | What is hard | What makes it correct |
|---|---|---|---|---|
| **core: startup and seed** (`core/src/app.ts`, `main.ts`, `plugin-core/src/bootstrap-check.ts`, `bootstrap-data.ts`) | seed rows and the `modules` row in the database; per process the step of `bootstrap()` and the tenant cache | check, about twenty inserts, registration, tenant cache, listen | several servers on an empty database; a failed insert is swallowed; no transaction; kills | one seed, a prefix of the plan, never touched when complete; a server that is up knows the tenant, unless a call failed |
| **core: the process** (`core/src/app.ts`, `main.ts`) | `_fastify`, the connection, the worker of cron, the listening socket | `start()`, `bootstrap()`, `stop()`, signals | a signal at any await of the start | a server that listens is whole, a process that ends cleanly leaves nothing behind |
| **core: GraphQL endpoint** (`core/src/api/graphql.ts`) | the request | parse, check fields, read models | models read one after the other; repeated and nested names; partial errors | the answer is what the query asks for, of the tenant that asks |
| **core: health, slow queries; health-check** | probes under way, one start time for all statements | ready, live, detailed; hook on statements | probes that hang, late replies, overlapping statements | an answer within the limit, no false report |
| **plugin-core: install procedures** (`install.ts`, `plugin-core.ts`) | the same tables through an injected context | guard queries, inserts row by row | the row the guard looks for is not the last one; retries, two processes | rows in order, no second administrator, completeness after return |
| **workflow-engine, task store of workflow-core** (`engine.ts`, `task-manager.ts`) | instances in memory, tasks in the store, copies of tasks in the instance | start, complete, reject, transition, advance over passing nodes | calls overlap at each await of the store; copies and originals diverge; cycles | the walk follows the transitions, one verdict per task, a running instance waits somewhere, calls end |
| **workflow-core: state machine; workflow-tasks** | an instance that callers read and store | transition, complete, suspend, resume, cancel; node handlers | a caller stores what it computed from an old value | an instance is only where transitions lead from the start, and completed only at an end |
| **rbac: roles and permission engine** (`roles.ts`, `engine.ts`) | role tables; a cache with a lifetime per process | createRole, assignRole, revokeRole; can, getUserPermissions, invalidateCache | READ COMMITTED read-then-delete; a fill that started before an invalidation | a last role goes to overlapping revocations only, bounded staleness, the cache answers as the database does |
| **rbac: record rules** (`record-rules.ts`) | none | parse, evaluate, compile | two readings of one rule; NULL and empty lists; numbering of parameters | memory and SQL let the same rows through |
| **dependency order** (`plugin-framework/src/resolver.ts`, `plugin-manager.ts`, `manifest-engine/src/resolver.ts`) | indegrees, queue, result | one plugin per step | three copies that differ at the edges; cycles, missing names, partitions | a topological order or the right error |
| **manifest-engine: loader, validator, versions, extends** | cache of manifests | parse, validate, merge, sort | indentation, comments, order of loading | read as written, independent of the order |
| **plugin-framework: host, lifecycle** (`inline-host.ts`, `lifecycle.ts`) | instances per plugin, imports in flight | loadPlugin, unloadPlugin, hooks | an import that hangs or resolves after its time limit; two loads at once; a hook that throws | a failed load leaves nothing, a sequence stops at its failure, loads end |
| **plugin-communication: RPC, registry** (`json-rpc.ts`, `registry.ts`) | services with owners, calls and handlers in flight | register, unregister, call, notify | time limit against a late answer; nested calls; services that go while their handlers run | the sender is told the truth, once; a departed plugin is silent |
| **plugin-communication: pubsub** (`pubsub.ts`) | handlers of a channel | publish, subscribe, unsubscribe, close | handlers that come, go, fail and hang while awaited together | a publisher waits for those of the moment, and only for them |
| **event-bus** (`event-bus.ts`, `wildcard.ts`) | subscriptions by pattern | publish, subscribe(Once), unsubscribe(All), clear | handlers that change the bus while it dispatches; nested publishes | no event lost, one event for who asked for one unless events nest, a spent subscription is gone |
| **cron: CronManager** (`cron-manager.ts`) | map of jobs; schedulers and jobs in Redis; worker | add, remove, start, stop, process | two replies for one name; start and stop overlapping; failing handlers | map and Redis agree, one worker, silence after stop, wherever no calls met that the code does not keep apart |
| **cron: BullScheduler** (`scheduler.ts`, `plugin.ts`) | map of jobs; repeatable jobs in Redis | add, remove, start, stop | adds and removes while `start()` works through its copy | map and Redis agree at rest but for refused commands |
| **auth, its adapter and routes** (`auth/src/auth-service.ts`, `core/src/app.ts`) | users, refresh tokens; the user and the token that the adapter read last | login, refresh, logout, verify, changePassword | one adapter for all requests; read, `await bcrypt`, write | an update goes to the row its request read, a change of password outdates tokens, sessions come from logins, for overlapping requests too |
| **data-extends** (`collection-registry.ts`) | collections with extensions | register, extend, resolve | conflicts over several calls and within one; order of plugins | one type per name, the strictest attributes, the order of declaration |
| **schema-engine** | a collection, its table, its form | validate, CREATE, ALTER, map | three derivations of one declaration, which take the primary key from different places | the form feeds the table |
| **migration** | files, `migration_history` | scan, resolve, execute, dry run | a failing phase between others; versions to be ordered; the text of a file is never read | every phase of a newer version is tried once, in its order |
| **audit** | `audit_log` | capture, redact, log, query by page, purge | answers and rows lost; a total that is estimated | the log names only what was done, a walk through the pages sees all |
| **websocket** | clients, subscriptions | register, remove, subscribe, broadcast | calls for a client that has gone | an event goes once to those who asked, of one tenant |
| **notification** | providers | register, remove, send, sendAll | one provider of several failing or removed | the results tell what each provider did |
| **rate-limit** and its uses in core | a window per key and limiter | check | boundaries of windows, rounding | less than twice the maximum in any window, waiting as told suffices |
| **file-upload** | files by tenant and content hash, records | upload, delete, remove file, download | kill between file and record, shared files, overlapping uploads | a live record has its file |
| **api-versioning** | versions, routes | register, deprecate, resolve | versions out of order, parameters against words | one version's changes do not reach another |
| **i18n** | texts by language | load, translate, fill in | fallbacks, merges, plurals | the first language that has the text gives it, filled in |
| **admin-ui: session, polling, list pages** | the token in `localStorage`; timers; lists, dialogs and requests under way | load, login, 401, logout; mount, hide, show; query, change | tabs over one store, late refusals; effects that overlap; answers out of order | an application that is shown has a token; one timer; a list is not stale at rest |
| admin-ui: layout, mapping, providers; rbac: services and seed; plugin-framework: mock host; core: configuration and logs; cli, logging-infra, shared-types, plugin-example, spike, scripts | see "Not modelled" | | | |

How they interact: `core` calls `plugin-core`'s completeness check and data,
then serves requests through its rate limiters, `auth`, the routes and the audit
hook; the pages of `admin-ui` are their clients. The plugin manager orders
manifests, which the loader has read, the host loads them one after the other
and runs their hooks, `plugin-core`'s install hook among them. Loaded plugins
reach each other by RPC through the registry, by events through the event bus,
and by jobs through the cron manager. The workflow engine reaches its tasks
only through the `TaskManager` interface.

The hazards of the code, each at its line and with the properties that watch
it, are in `PROJECT.json`.

## Modules

### The server and its plugins

**`Bootstrap`** — `CoreApp.bootstrap()` for any number of processes. `rows` is
the content of the seeded tables, each row tagged with the run that wrote it,
since `generateBootstrapData()` draws fresh identifiers; `next[p]` is the
position in the plan. One action per awaited statement: `CheckUsers`,
`CheckModules`, `Insert` (with `InsertRejected` for a unique constraint and
`InsertFault` for a lost connection, where the statement may have taken
effect), `FindCore`, `Register`, `LoadTenants`; `Crash` and `Boot` around them.
The abstract specification is **`SeedOnce`**: the rows belong to one run and
are written in plan order. `Bootstrap` implements it through
`ImplementsSeedOnce`, which maps the owner to the run of the tenant row.

**`AppLifecycle`** — one run of the process: `starter` and `stopper` are the
awaits in which `start()` and `stop()` are, `field` is `_fastify`, and the
server, the connection and the worker are what they build and take down.

**`CoreInstall`** — the install hook and `PluginCore.install()`. They are one
procedure with parameters, and the variable `kind` says which of them a
behaviour runs: `Guards` (tables whose rows mean "installed"), `Plans` (the rows
in order), `Once` (tables whose insert ignores a row that is there) and `Unique`
(tables that refuse a duplicate). `MCStartup` gives the values of the two.

**`DependencySort`** — Kahn's algorithm one plugin per step, with the variable
`variant` choosing among the three copies in the code. The initial states are
all dependency graphs over the given plugins.

**`PluginHost`** — `loadPlugin` with its import under a time limit and its
delay, `unloadPlugin`, and the runner of lifecycle phases on the instance that
a caller got. An instance is named by the call that loaded it.

**`PluginRpc`** — client, in-process transport and server, and the registry.
Dispatch is synchronous up to the handler, which then runs on its own while the
sender races it against a timer.

**`EventBus`** — `publish()` is synchronous, so that dispatches nest like a
stack; a handler that runs may do anything the interface offers. `subs` is kept
in the order in which the code iterates over its map of patterns; the history `nested`
holds the subscriptions for one event that got another while they had theirs.

**`CronManager`** — the map of jobs and, behind commands that Redis executes in
order and answers later, the schedulers; the worker and its lifecycle; jobs
that fall due, run, fail and are tried again. Its histories name what calls do to one
another: `stale` and `lost` (a `remove()` whose entry another took, and the names whose
new entry it then took), `failed` (names with a refused command), `loose` (workers that the
manager no longer has in its field), `crossed` (a `start()` failed or met another
call). **`BullScheduler`** — the older
scheduler with its map, its repeatable jobs and a `start()` that adds a copy of
the map one by one. BullMQ and Redis are external and modelled as the code uses
them.

### What a server keeps for requests

**`WorkflowEngine`** — the engine and its store. `call[k]` is an engine call in
flight and where it waits, `ready` is the order in which settled promises
continue. `listed` is the instance's own copy of its tasks, `store` is the truth;
the copies follow after an await, which is what most properties are about. The
nodes, transitions and the outcome of conditions (`Match`) are constants, so the
same module runs a review workflow, a fork and a cycle. The abstract
specification is **`WorkflowWalk`**: an instance walks along the edges and stops
at an end node. **`WorkflowInstances`** has the second way of the packages to
move an instance: the functions of WorkflowStateMachine, between whose reading
and storing other callers read and store, and the node handlers of
`workflow-tasks`.

**`PermissionEngine`** — the role tables under READ COMMITTED, where `revokeRole` is three statements between which others commit;
and over them the engine with its cache, its queries in flight and a clock. A
history variable records when a user's permissions last changed, and the record of a
revocation whether another one has deleted a role of its user since it counted them
(`overtaken`).

**`AuthSession`** — AuthService, the adapter that core puts under it, and the
routes. A request goes through lookups (`FindUser`, `FindToken`, `FindOwner`:
the database answers), their continuations (`UserRead`, `TokenRead`, `Verified`:
the adapter notes the row and the service goes on) and writes, whose target
the adapter chooses when it is called (`target`) and which take effect later
(`WritePassword`, `Revoke`, `Insert`, `Stamp`). A lookup without a condition
returns any row. Two histories name the overlaps that the code does not keep apart:
`overwritten`, the users of whom one change of password wrote over a version it had not
read, and `again`, the sessions that come of a token which was revoked already when its
refresh revoked it.

**`CollectionRegistry`** — `register`, `extend` and the merge of fields
(`AllFields`: the fields of the extensions in turn, in the order of the calls).

### Services, and the administration interface

**`FileStore`** — uploads from await to await (temporary file, rename, record),
with `disk` per path as nothing, part or all of a content; a kill ends the
requests and leaves disk and records. **`WsRooms`** — clients and their
subscriptions, which are kept apart, and to whom one change is sent.
**`PubSub`** — publishers that wait for the handlers they called.
**`RateLimit`** — both limiters of core on one clock; `granted` is the history
of what they let through. **`Notifications`** — a fan-out over a copy of the
providers, who change meanwhile. **`Diagnostics`** — probes raced against their
limits, and the hook that times statements with one start time for all.

**`AdminSession`** — tabs that share one `localStorage`; requests carry the token
that was stored when they were sent, and are refused later. **`AdminPages`** —
the effects of the hook and of the two components that poll on their own (`ref`
is what each remembers of its timer, `timers` are those that run), and
a list page together with the routes of core that it calls
and the audit hook on their answers: query, dialog, change, refetch, loss.

### What is computed

The functions of these modules are operators, and the variables hold what calls
in any order have made of them, so that a run examines all the sequences of
calls within its bounds.

**`RecordRules`** (filter in Polish notation → condition → rows, and → WHERE
clause → rows), **`ManifestLoader`** (lines → tree → the two validators → the manifest
that validation gives back, with its defaults and without unknown keys, which is what the
cache holds), **`Manifests`** (merge of extensions, order of versions),
**`SchemaEngine`** (collection with any primary key → table, form, columns), **`GraphQL`** (tokens →
tree → rows of models, one await each), **`ApiVersions`** (request → version and
route), **`Migration`** (files and history → phases → log), **`Audit`** (request
→ event → page), **`Translations`** (files → texts → text filled in).

Each has a reference definition beside the translated one, which states the
result without the algorithm: the evaluation of a clause by the database, the
tree that a document was written from, the sets of models that a query names.

### Instances

**`MCStartup`**, **`MCServer`**, **`MCEvents`**, **`MCLive`**, **`MCServices`** and
**`MCRules`** are the instances for TLC; each cfg is one question. Components
that belong together but share no state are checked in one run: a variable that
never changes (`part`) says which of them a behaviour is
about and the others stand still, so that the run examines the sum of their
states and not the product. Where one module extends two components, the
second one's names carry a prefix (`CronInit`, `RpcTypeOK`, `sortVars`).

Some components touch in the code and are one module for that reason: the
adapter with AuthService and the routes (`AuthSession`), a page with its routes
and the audit hook (`AdminPages`), roles with the cache over them
(`PermissionEngine`), the engine with its store of tasks (`WorkflowEngine`).

Definitions whose comment begins with "Mutant of" are the plausible bugs that
`PROJECT.json` lists against the properties; they are in no specification.

## Runs

What holds (`expect: pass`):

| Run | Shows |
|---|---|
| `startup` | `OneSeeder`, `ImplementsSeedOnce`, `UpKnowsTenant`: two servers, two starts each, two failed calls and two kills leave one run's seed, a prefix of the plan, and as long as no call has failed a server that serves knows the tenant, kills or not. `EarlierRowsAreThere`, `GuardRowsAreSole`: both install procedures write their plan in order with two processes, a kill and a failure; a row that a guard looks for is not written twice unless two procedures overlap. `WholeOrGone`: a signal at any await of the start. `LoadOrder`: all graphs over three plugins and a missing name, in each copy of the sort. `HostIsSound`: three loads of two plugins, with imports that hang, fail and resolve late. `ToldTheTruth`, `DepartedIsSilent`: requests between two plugins whose services come and go |
| `server` | `NoStraySession`: two requests of any kind at once, two refreshes of one token and two changes of one password among them; no token outlives a password and no session comes from anything but a login, except through the two overlaps below. `LastRoleIsKept`: two revocations at once take a last role only where one overtakes the other. `BoundedStaleness`: answers are at most `TTL + MaxQuery` out of date, with two fills in flight. `MergeIsStrictest`: the merge agrees with its rules for every sequence of up to three declarations, names repeated within one of them included. `TasksAreSound`, `ImplementsWalk`: two users on two instances of a review workflow, one failed store call |
| `events` | `EventsArrive`: nested publishes and handlers that change the bus. `SchedulesAgree`: map and Redis in both schedulers, with overlapping additions and removals of one job and a failed command. `OneWorkerRuns`: calls of start and stop that overlap and may fail, failing handlers, silence after stop |
| `live` | `SeedCompletes`, `EveryWaitEnds`: what somebody waits for does happen |
| `services` | `LiveRecordsHaveFiles`, `Deliveries` (rooms, channel, notifications), `KeepsTime` (limits, probes, slow queries, the timer of polling), `AppHasToken`, `ShownIsCurrent`, `AuditedWereDone`: the services and the administration interface with calls, failures and losses in any order |
| `rules` | `BothWaysAgree`, `ParsedAsWritten` (documents of manifests, queries), `ExtensionsAgree`, `FormFeedsTable`, `TextsAreRight`, `EveryPhaseIsTried`, `WalkSeesAll`, `EndsAreReached`, `VersionsAreApart`: what is computed agrees with what it was computed from, over inputs that tell the branches apart, among them collections whose primary key is not `id` |

What the code does other than it says (`expect: violation`; the quoted line is
in the finding of `PROJECT.json`):

| Run | Property | The code |
|---|---|---|
| `startup_incomplete` | `ReturnedIsComplete` | the guard is satisfied before the menus are written |
| `rbac_revoke` | `KeepsARole` | two revocations under READ COMMITTED take both roles |
| `rbac_wildcard` | `CacheChangesNoAnswer` | the cache and the query treat wildcards differently |
| `server_rows` | `WritesItsRow` | an update goes to the row that another request has read meanwhile |
| `loader_comments` | `ReadAsWritten` | a comment or a blank line before an item of a list makes the parser read an item twice |
| `migration_dryrun` | `DryRunForetells` | a dry run announces tasks that a run then refuses as empty |

The passing runs have the counterparts of three of these, over the same
interleavings. `LastRoleIsKept` of `server` has the revocations of `rbac_revoke`, and says
that only one which another has overtaken takes a last role. `NoStraySession` holds wherever
the adapter sends its updates, those that `WritesItsRow` objects to included.
`ParsedAsWritten` is about documents in which no comment or blank line stands before an item
of a list.

What the code does not keep apart, where no violation run shows it, is exempted by name in
the property, as narrowly as the history variables allow, and listed below: everything
else that may happen in such a behaviour the property still asks.

### Other disagreements met while modelling

These follow from the modules too, have no run of their own, and are noted for
whoever works on the code:

- `core/src/app.ts:434`: a failed insert of the seed is logged and the server
  comes up half seeded; a later start finds users and no module and seeds nothing.
  `docs/archive/plugin-core-sdd.md:347` (at the root) has the start fail.
- `plugin-core/src/plugin-core.ts:138`: the inserts are not in a transaction,
  though line 119 has the install as one.
- `rbac/src/engine.ts:82`: a fill in flight undoes an `invalidateCache()` that is
  to be called after a change of roles (line 91).
- `plugin-framework/src/resolver.ts:27` and `:108`: moving SYSTEM plugins to the
  front can put a plugin before its dependency, though line 20 promises a topological
  order.
- `manifest-engine/src/resolver.ts:43`: plugin-core is first only if it comes before the
  other manifests without dependencies, while line 34 takes it to be first always.
- `event-bus/src/event-bus.ts:130`: `unsubscribe` removes the first subscription
  with the same handler and pattern, not the specific one that line 124 speaks of.
- `event-bus/src/event-bus.ts:66`: handlers run in the order of patterns, not of
  their registration (`docs/archive/event-bus-sdd.md:203`).
- `cron/src/cron-manager.ts:156`: of two overlapping `remove()` calls of one job, the reply of
  the second deletes what an `add()` in between has put there; the job then runs in Redis
  and is not listed (`cron-manager.test.ts:216`). `ListedIsScheduled` exempts the name until it
  is added again (`lost`).
- `cron/src/scheduler.ts:29`: adding a job again with another schedule leaves the repeatable job
  of the first in Redis, under which it falls due as well; and the reply to a `remove()`
  (line 46) takes from the map what an `add()` sent meanwhile, whose job then has no handler.
- `data-extends/src/collection-registry.ts:164`: the fields of one call are not compared
  with each other, so that one name with two types is stored (line 114); and a base that lists a name twice
  is merged to a collection that has it twice. `MergeIsStrictest` exempts such names only.
- `cron/src/cron-manager.ts:229`: two overlapping `start()` calls make two workers;
  the test at `cron-manager.test.ts:265` has `start()` idempotent. The manager lets go of one
  of them (`loose`), which nobody closes; a `stop()` that overlaps leaves a manager that is
  started without a worker, or the other way round (`crossed`). `OneWorkerRuns` exempts those workers, asks
  that they come of such a meeting or a failed `start()` only, and holds anew after a `stop()`
  by itself.
- `plugin-framework/src/inline-host.ts:49`: two overlapping loads of one plugin both
  succeed; `inline-host.test.ts:60` has the second rejected.
- `plugin-communication/src/json-rpc.ts:153`: a notification is awaited without a
  limit, though line 82 calls it fire-and-forget; and at line 233 its parameters are not
  validated (`types.ts:142`).
- `event-bus/src/event-bus.ts:119`: a one-time subscription is to "a single matching event", also at
  `docs/archive/event-bus-sdd.md:95`, but is called a second time by a publish nested in the
  dispatch that calls it, since it is removed when that ends (`:104`). `OneEventArrives`
  allows this second call (`nested`), and no other.
- `auth/src/auth-service.ts:138`: the check and the revocation of a token have awaits between them, so
  that two overlapping refreshes of one token give two sessions where rotation should leave one. At `:221` and
  `:244` a change of password writes a version computed before its awaits: of two that overlap the
  second may write what the first has written, or an older one, and tokens given out in
  between stay good. `SessionsComeFromLogins` exempts the sessions of such a token (`again`),
  `ChangeInvalidates` the users of such a change (`overwritten`).
- `migration`: the resolver runs every version that the history does not have, an older one than
  the last recorded too; `resolver.test.ts:58` and `docs/archive/migration-engine-sdd.md:69` and `:153` promise
  only those greater than the recorded one. `EveryPhaseIsTried` asks of newer versions that
  they run, of recorded ones that they do not, and of those in between only that they do not run twice.
- `core/src/middleware/login-rate-limit.ts:5` speaks of 5 attempts; line 18 allows 10.
- `core/src/app.ts:223`: `bootstrap()` takes the presence of `_fastify` for its completion:
  a second `start()` during the first, or after a failed one, lets an unfinished server
  listen. The program makes one call only.
- `core/src/api/graphql.ts:270`: the route reads `user.tenantId`, while the hook before it
  sets `tenant_id`.
- `notification/src/notification-manager.ts:84`: `sendAll()` "never short-circuits", but a
  provider that is removed during the call makes it reject, with the results so far lost.
- `admin-ui/src/hooks/useAgentPolling.ts:16`: polling "pauses when hidden", but a mount or a
  change of target in a hidden tab starts a timer.
- `manifest-engine/src/loader.ts`: a quoted scalar with a comment behind it keeps its quotes,
  and items at the indentation of their key end the document; `validateManifestSafe` asks for
  `display_name` and does not look at `VALID_PARTITIONS`.
- `manifest-engine/src/version.ts`: `parseSemVer` takes of a prerelease only what follows its
  last hyphen, so that `1.0.0-alpha-1` is read as `1.0.0-1`.
- `manifest-engine/src/extends.ts`: the attributes of the plugin that comes first win, while
  `data-extends` lets the stricter win for the same declaration.
- `schema-engine`: a field may clash with the generated timestamps; CREATE skips the field
  that has the name of the primary key (`ddl.ts:183`), the form and the list the one named `id`
  (`ui-mapping.ts:137`, `:145`), so that beside another key a required field `id` is a column that no
  form feeds, and a field with the name of the key is asked for; `FormFeedsTable` exempts that one column; ALTER makes no index for a foreign key; CREATE IF NOT
  EXISTS leaves a table of an older declaration as it is; a `belongsTo` refers to the name of
  the target as declared; NOT NULL goes together with ON DELETE SET NULL.
- `audit/src/service.ts:77`: "recursively redact", but only the top level is redacted.
- `i18n`: the engine leaves an unknown place as it stands, the translator fills it with
  nothing; of an empty text the engine returns the text, the translator the key; a place
  inside the branch of a plural is not filled; `zero`, `few` and `many` are ignored.
- `workflow-tasks` and `workflow-engine` read two different languages of conditions.
- `core/src/hooks/slow-query.ts:14`: one start time serves all statements, so that of
  overlapping ones a slow one may go unreported; none is falsely reported.
- `core/src/health/service.ts`: the service of core sets its probes no limit and asks Redis
  for `/health/ready` as well; `health-check` counts any reply of Redis as healthy.
- `migration`: nothing writes the history, so that phases repeat in every run.

### Bounds

- `startup`: two processes and two starts each suffice for a seed that is
  overtaken, resumed and repeated; the number of permissions only lengthens
  the plan (two here, the five of the code in `live`). Faults and kills are bounded by
  two, so that one can hit each of two runs. Four install runs let each process retry.
  Three plugins have every shape of conflict between two paths and a cycle;
  three loads of two plugins let one overlap, fail and be retried; two requests are
  in flight, one nested in the other or not (three in `live`).
- `server`: one user, as the seed leaves it, and two requests of any kind; one part has changes of
  the password, to a third version, beside two refresh tokens; the other has three refresh tokens and no
  change, so that a session is refreshed twice, also by two requests at once, or begun thrice. For roles one user
  suffices, since no operation relates two, with two revocations at once, so that one can overtake the
  other; `TTL = 2`, `MaxQuery = 1` and five ticks let an
  entry be filled late, expire and be filled again. Declarations have up
  to two fields, of one name or two and of an invalid type among them, and a collection
  up to two extensions. Two calls in flight are what two users need to collide on one task,
  two instances show that they do not disturb each other; the definition has every
  kind of node but the parallel one, which is in `live` together with a cycle.
  Requests, calls and roles may be exchanged with one another, which the run uses as a symmetry.
  `MaxIter` is lowered from 100 there: the cycle needs only to reach it.
- `events`: three subscriptions and two events, one nested in the other. CronManager twice: its map with
  two calls on two names and two configurations, again and again, and one refused command; and its workers
  with two calls of `start()` or `stop()` at once, one of which may fail, three workers, one job that falls due
  twice and one retry. BullScheduler with one name, two patterns and four commands.
- `services`: two uploads whose files share a content, differ in suffix, or are too large;
  two clients of two tenants, two topics and an event outside of the named ones; two
  publishers and two handlers; three providers; a global maximum of three, a login maximum of
  two and a window of three ticks, over six ticks, so that two windows meet; two tabs and
  three tokens, so that one is refused after the next was given out; four timers; probes with
  a limit of two ticks over four.
- `rules`: documents of up to the lines that one key, its list and a comment need; filters of
  up to three leaves, nested twice, over rows with a number, a text or NULL; three plugins that
  extend one another; three fields, one of them called as
  the one or the other of two primary keys; queries of three models and two levels of nesting; two
  routes per version; three events on pages of two, with purges between; three loads of texts.
  `WorkflowInstances` runs over a graph of five nodes with a cycle and one that nothing leads to.

`CHECK_DEADLOCK FALSE` stands in runs whose bounds let the system stop: all
calls made, all events published. It is not used to hide a wait; that calls end
is a property of its own.

### Fairness

Fairness is stated in `MCLive` (`LiveFairness`) and asked only of what the runtime
guarantees: that a settled promise's continuation runs (`Continue`, `Advance`), that
a timer fires (`Timeout`, `TimerFires`, `DelayEnds`), and that an idle BullMQ worker
takes a waiting job. Imports, hooks, RPC handlers and users are not fair: they may
hang for ever. For jobs it is also assumed that a handler ends, with success or
failure, because the worker awaits it without a limit. The seed is live without
faults and kills: the code does not retry a failed seed.

What the services and the pages owe in the end is stated as safety at rest
(`ShownIsCurrent`: when no request is under way; `PublishWaitsForAll`: when a call has
returned) or by the clock (`ProbesEndInTime`), which need no fairness.

## Proofs

The theorems hold for every value of the constants under the assumptions named
in the modules (`…Assumption`), which TLC evaluates for the values of the runs. The
proofs are in one module per instance: `StartupProofs`, `ServerProofs` with
`WorkflowEngineProofs`, `EventsProofs`, `ServicesProofs` and `RulesProofs`. `Arrays` has `Filter`, the
`filter` of JavaScript arrays as a function of sequences, and what all proofs about
it need (`FilterFacts`): the result keeps the order, each element that satisfies the
condition has one place in it, and it has no other. Modules that are proved about use `Filter`
where the code filters an array, as no prover can look into `SelectSeq`, and `Ascending` where
it sorts numbers. It also has what is
needed about loops and `flat()`: induction with a set in the place of the
predicate (`Upwards`), that a loop of *n* rounds has a result (`RoundsExist`), and that `FlattenSeq` joins
arrays one by one (`FlattenIs`, `FlattenFacts`).

Hardly a property is inductive as it stands. Below is what each proof adds.

### `StartupProofs`

- **Seed.** `TypeCorrect`, `OneSeederEver`, `PrefixEver`. `Started` ties the program
  counters to the plan, and `SeedInv` adds what a run knows of the database: past its
  first row, its last row is there; it has no row further on; and runs that have not
  begun have no row. A second seeder cannot pass the first insert, the slug of the
  tenant being unique, so that every row is of the run that wrote the tenant.
  `ImplementsSeedOnceEver` is the refinement: the initial states map to an
  initial state, an insert of the tenant claims the seed, a later one extends it
  (`WriteMaps`), and no other step touches the rows (`OnlyWritesTouchRows`).
  `UpKnowsTenantEver` rests on `PastSeedTenant`: as long as no call has failed, a
  process past the seed has written the tenant or has found rows, which are never
  there without the tenant's (`RowsNeedTenant`), also after a kill.
- **Install.** `EarlierRowsEver`, `PassedIsWrittenEver`, for any plan and any guards: an
  insert at position *i* comes after *i - 1* was passed, and rows are never removed.
  `GuardRowsEver` (a guard's row is there once) adds `SoleInv`: a row that its table refuses
  or leaves alone where it is there is written once (`OnceIsOnce`); where no runs overlap, the one under way has
  found none of the rows it looks for, and has written only what it has passed (`AloneIsOnce`); and where the first row of the
  plan is unique, one run at most gets past it (`FirstIsOnce`). `InstallTypeCorrect`.
- **Process.** `WholeOrGoneEver`. `AppInv` says that what is attached goes with the step `start()` has
  reached, that only what listens has a worker, and that once `stop()` is past the server nothing
  opens again.
- **Order.** `LoadOrderEver`, for every set of manifests, every graph and the three copies of
  the sort. `SortInv` says that the queue and the result hold each plugin once, that an indegree
  counts the dependencies not yet in the result (`Counted`), and that those with none left are
  in the queue. That a set in which everything has a dependency inside is cyclic
  (`StuckIsCyclic`) is what justifies the error.
- **Host.** `HostIsSoundEver` has three invariants: `HoldsInv` for what the registry holds;
  `RepeatInv`, which reads the history of loads and unloads (a load that began without another
  under way finds nothing that has not been undone); and `HooksInv`: the hooks of a load or unload have run in the order of
  their phases up to the first that threw, none left out and nothing after it. `HostTypeCorrect`.
- **RPC.** `DepartedIsSilentEver`, an action property, rests on
  `DepartedIsOut`: a plugin that has departed owns no service. `ToldTheTruthEver` rests on
  `TruthInv`: the record of a call and the record of its handler fit together. `RpcTypeCorrect`.
- `StartupTypeCorrect` is about all of these interleaved: each part's step is a step of the
  part or leaves its variables alone (`StartupStep`).

### `ServerProofs`, `WorkflowEngineProofs`

- **Roles and permissions.** `TypeCorrect`, `BoundedStalenessEver`: no change lies in the
  future, and an entry or a query in flight that no longer matches the database
  is older than the last change that it missed (`Dated`). `LastRoleIsKeptEver`, an action property
  for any number of revocations at once, rests on `OtherRoleLeft`: until another one deletes a role of the
  user, a revocation about to delete leaves the user a role besides.
- **Sessions.** `SessionTypeCorrect`; `NoStraySessionEver` with `SessionsComeFromLoginsEver`, for any number of
  users and of requests at once, wherever the adapter sends their updates, and without a hypothesis on how they overlap. `RotationInv`
  counts the sessions that come of no token refreshed twice against the logins: a refresh that was the one to revoke its
  token has a login to spare. `VersionInv` says that of a user nobody wrote over, no request and no token carries a
  version of the password that is still to come.
- **Workflow engine.** For any workflow. `FlowShape` is the shape of instances, tasks and calls, `Queue` that each
  settled call is in the queue of the event loop once; together they give `FlowTypeCorrect`. `Verdicts` (who carries
  a verdict has written it), `Lists` and `Copied` (the copies of tasks, behind the store only where a
  call is about to write them) and `Drivers` (one call at a time moves an instance, and it works at the node the
  instance is at) give `VerdictsAreKept`. `TasksAreSoundEver` adds that no instance is left between two nodes (`Going`).
  It has two hypotheses on the workflow: every node that is not an end leads on (`LeadsOn`), and between two nodes
  that wait there are fewer nodes than `advance()` has rounds (`Layered`, by a rank); both are false of
  workflows on which the code stops halfway. `ImplementsWalkEver` is the refinement of `WorkflowWalk`
  for users who act on listed tasks (`~Worklist`: a worklist may complete a second branch of a fork, the hazard below) and conditions
  that name a transition of their node (`MatchesLeave`: the engine goes wherever a condition says).
  TLC evaluates the three hypotheses for the workflow of the run (`ReviewIsLayered`).
- **Collections.** `MergeIsStrictestEver`, for any declarations, those that repeat a name included. `Merges` relates what has been merged
  to the declarations so far: a place in them for each merged field, in order, of the base or the first of its name (`FieldPlaces`),
  and all that they demand of it (`Demanded`). It is kept by one more field (`MergesOneMore`) and so by the loop.
  The map that the loop starts from keeps of a name that the base repeats the last field (`SeededIs`), of any other its own (`KeptIs`).
  `RegistryInv` is what `extend()` adds: all declarations of a name agree on its type unless one of them gives it two, as the
  check looks for the first field of each name (`WholeMore`).
- `ServerTypeCorrect` joins the types of the parts.

### `EventsProofs`

- **Bus.** `EventsArriveEver`. `BusInv` counts for each subscription what it is due against what it was called and the
  dispatches on the stack that will still call it (`Owed`), says that no dispatch calls one twice, and that a one-time
  subscription that was called is noted for removal by a dispatch that has not ended (`Spending`). A dispatch takes its
  list before its first call, so that what handlers do to the bus meanwhile changes `subs` alone. A subscription for one
  event that is not in `nested` was due one at most (`Alone`).
- **CronManager.** `CronTypeCorrect`. `OneWorkerRunsEver`, for any calls of `start()` and `stop()` at once and any failures: a worker that is neither
  the manager's nor let go of is closed (`NoneAstray`), and as long as no calls crossed, a `start()` under way is alone
  and the manager has a worker between the calls exactly if it is started (`NoneCrossed`). `ListedIsScheduledEver`, for any calls of
  `add()` and `remove()` at once: `Agree` says for each name what map and Redis will hold when the commands on
  their way have been executed in their order, of which the last one counts, and `Absent` that nothing is left in Redis
  of a name whose removal was answered or that the map has not, its entry taken aside.
- **BullScheduler.** `SchedulesAgreeEver` adds `OnItsWay`: a listed job falls due already, or the command is on its way, or `start()` has
  its entry still before it. `EventsTypeCorrect` joins the types.

### `ServicesProofs`

- `LiveRecordsHaveFilesEver`: the file of a record, or of an upload about to write one, is whole unless another removed it (`FilesAreKept`).
- `SentToThoseWhoAskedEver`, `PublishWaitsForAllEver`, `FanoutIsTrueEver`, together `DeliveriesEver`: `AllTold` counts the entries that
  subscribe a client; `AllOwe` ties the handlers a publisher waits for to those there were at its call; `Fanning` describes
  results as a prefix of the providers copied, in which those removed since are passed over.
- `LimitsHoldEver`, for any maximum, window and clock. `Fits` says what an entry of the limiter tells of the requests that it let through: the
  last `count` of them are of the current window, and whatever is `max` or more
  places before these is a window older. It is kept when a window opens
  (`OpenWindow`) and within one (`SameWindow`), and bounds any window by
  `2 * max - 1`. `ProbesEndInTimeEver` (`Probing`: what the record of a check says of a probe is what its reply and its time were) and
  `WarningsAreTrueEver` (`Timed`: the one start time is that of the statement begun last) and `OneTimerEver`
  (`PausedHasNone`: what is mounted has no timer exactly while it is paused) join it in `KeepsTimeEver`.
- `AppHasTokenEver` rests on `CheckingAlone`: a tab
  that waits for the answer to `me` has no other request under way. `ShownIsCurrentEver`, `AuditedWereDoneEver` rest on `PageIsTrue`: the rows read last are those there
  were unless a change is under way or unheard of, and requests are numbered, so that an answer is of its request.

### `RulesProofs`

- `EndsAreReachedEver`: `InstancesAreProper` says it of the stored instance and of every copy a caller
  holds, however old, since any of them may be stored again.
- `VersionsAreApartEver`, an action property: a step leaves the routes it does not add or mark at their places
  (`KeepsPlaces`), and the latest of finitely many versions exists.
- `WalkSeesAllEver`: `AuditInv` follows the reader. A row that was there when the walk began is gone, has been seen, shares
  its millisecond with another, or has as many later rows before it as pages were read (`ReadsOn`); rows that
  are added meanwhile come before it, and can only be read again. The place of a row in
  the order is what `PlaceInOrder` and `MoreIs` compute.
- `EveryPhaseIsTriedEver`: `MigrationInv` says that the log of a call is the first part of its tasks, and that the tasks are
  an agenda of what was pending in the history (`TasksOfCall`). The rest is about how the agenda is made: an array joined from
  arrays is known place by place (`FlattenPlaces`), the versions of a plugin come sorted, each once
  (`SortedIs`, `DiscoverIsSound`), the list of tasks has the versions that are not recorded and no others, the newer ones among them (`ResolveIs`), and the two nested loops
  over it, one per mode, meet each phase of each task once (`TwoLoops`, `RunAgendaIs`, `DryRunAgendaIs`). It needs
  `DiskAssumption`: no two directories of a plugin are one version.
- `FormFeedsTableEver`, for any primary key: `SchemaInv` says that what was declared or created passed the checks, and of a table (`TableIs`) that
  its columns have names of their own, that each is the key, a timestamp or of a field, and that a field without a column is an
  addition still to come. The list of fields is filtered and joined place by place (`FilterFacts`, `FlattenIs`). `FieldsAssumption`: a
  field is required or not.
- `TextsAreRightEver`: `TextsAre` says that the engine has the text of a key from the last file loaded that gives it, `ShownIs` that
  what is shown was made of a text, a locale and parameters as filling in makes it. `TextsAssumption`: no plural stands within a
  branch of a plural, as the code matches no nested braces.
- `ExtensionsAgreeEver`: `ManifestsAre` says that what is merged is `MergedUpTo` of all that is loaded (an error exactly if two
  disagree or one names a field twice, else the fields of each collection, once each), and that the versions are `SortedUpTo`:
  the same ones in order, equal ones as they were loaded. The functions are recursive over sequences; what their rounds make is
  `SameRounds`, `AddFieldsIs`, `MergedExtends`, `SortIs`. `ComparedVersions` shows that `isVersionGt` is the
  precedence of SemVer for versions of any length (`ComparedIds`: the first identifiers that differ decide), `PrecedesOrders`
  that this is an order. `ManifestsAssumption` is the shape of a version.
- `BothWaysAgreeEver`: `RuleSound` says that what is parsed is a tree of comparisons (`ParsedAreTrees`) and that the clause is
  the one generated from it. Trees are known by levels (`TreesAre`): the parser, the evaluation and the compiler are functions
  recursive over them that exist (`ParsesExist`, `DecidesExist`, `CompilesExist`) and so satisfy their equations (`ParseFilterIs`,
  `DecidedIs`, `CompileConditionIs`). `Agrees` is what goes up from level to level: wherever the items of a condition
  are put among the parameters, its clause says of a row what the condition says. It holds of a typed comparison (`LeavesAgree`), and
  of conditions that are joined because those compiled before have left their items in place and count in the
  numbers of the next (`CarriesBoth`, `OneAgrees`, `JoinedAgrees`). `FiltersAssumption` is the shape of a filter, nested to any
  finite depth, with more than one value only for `in` and `not in` (the code lets an array pass with the other operators too,
  where no text says what it would mean); `RowsAssumption`: a cell has the type of its column or is null.

### Only model-checked

- What needs fairness: `SeedCompletes`, `EveryWaitEnds`. The proof system has no rule for `ENABLED`.
- What is computed with RECURSIVE operators over documents, which the provers cannot take: `ParsedAsWritten`
  (manifests and queries).

## Abstractions

Texts, wording, logs and dates are left out. A context of a workflow is what its
conditions can tell apart; a handler of an event is anything that the interface
allows; a schedule is part of an opaque configuration; a payload is valid or
not. A manifest is a sequence of lines that are taken apart already, a query a
sequence of tokens, a path its segments, a translated text its parts: what the
regular expressions of the code do to a single line or token is named above where it is
surprising. Reads that change nothing (`list`, `get…`) have no action. PostgreSQL,
Redis, BullMQ, `import()`, TanStack Query and timers are modelled from their use
in the code; a failing call may fail before or after its effect where the
difference can be seen.

## Not modelled

- `rbac/src/rbac-service.ts`, `auth-service.ts`, `seed.ts`: the two services are written
  against a database object with `findFirst` without conditions and `insert` without a
  table, which only the mocks of the tests provide; what they would do on a database cannot
  be read from them. Nothing calls the seed. `token.ts` signs and checks; a token is a value
  that is good or not in `AuthSession`. `aclMiddleware` is not used; `requireAuth` is (`Verified`).
- `plugin-communication`: RedisPubSub throws in each method.
- `plugin-framework`: `plugin-host.ts` is the mock of an early phase, whose methods wait and
  return; `manifest-schema.ts` declares.
- `admin-ui`: layout, mapping of fields to components, providers and the context of
  authentication hold nothing that survives a rendering. `RoleListPage` and the other lists
  are kinds of one page in `AdminPages`; details such as filters are layout.
- `file-upload`: `list()` hands the page to the repository and then slices what comes back once
  more (`file-upload-service.ts:226`–`230`), so that over a repository that pages itself later pages
  are empty; it changes no state, and the repository is not in the source.
- `migration`: the check of the order of phases and the patterns of dangerous statements work on
  texts that the resolver does not hand on.
- `canonical-schema`: types of the shape that `schema-engine` also has, without functions that
  keep state.
- `notification`: the transport of the mail provider. `core`: GET routes other than those of the
  pages, configuration, the list of recent logs. `cli`, `logging-infra`, `shared-types`,
  `plugin-example`, the spike of record rules, scripts: commands, configuration, declarations and
  examples.
- One hazard has no property: completing tasks of two branches of a parallel node moves the
  instance twice (`workflow-engine/src/engine.ts:140`). The module does what the code does; what
  should happen instead is stated nowhere.

## Plan

Done: all modules above, and the theorems. What is left, in this order:

1. Recursion in the parsers of `GraphQL` and `ManifestLoader`, as recursive functions by the length of what is left to read:
   `Manifests` shows the way for sequences, `RecordRules` for trees.
2. Types of the modules of `MCServices` and `MCRules`.

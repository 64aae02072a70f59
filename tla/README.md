# A TLA+ model of s-ui-next

s-ui-next is a web panel around an embedded sing-box proxy core: a Go process
that keeps its objects (inbounds, outbounds, endpoints, services, TLS
settings, clients, settings, administrators) in a SQLite file, starts and
stops the core inside its own process, applies changes to the running core,
counts the traffic of the clients and takes them off the air when a quota or an
expiry is reached. This directory models the parts of it that keep state and
can go wrong between steps, checks them with TLC on small instances and proves
some of the results with TLAPS for every value of the constants.

The reference is the code under `src/`. `PROJECT.json` maps each definition to
the lines it models, and lists runs, mutants, hazards and theorems.

## The system

| Component | State | Operations | Interacts with |
|---|---|---|---|
| Core lifecycle (`core/main.go`, `core/box.go`, `app/app.go`) | `Core.isRunning`, `Core.instance`, the package-level managers, the boxes that are open, `startCoreInProgress`, `lastStartFailTime` | `Core.Start`, `Core.Stop`, `StartCore`, `RestartCore`, `restartCoreWithRaw`, start, SIGHUP and kill of the process | cron check job, restartSb handler, saves |
| Saving configuration (`service/config.go` and the `Save` of each kind) | the rows, the open transaction, the saved previous configuration | `SaveWithApply`, `saveConfigWithApply`, `saveEndpointWithApply`, commit, roll back, `restoreRuntimeState` | the core (object by object, or by a restart), SQLite |
| Clients and inbounds (`service/client.go`, `inbounds.go`, `tls.go`, `services.go`) | rows, the links in the clients' rows, `out_json` in the inbounds' | `Save` of each kind, alone and in bulk, the cascade from TLS to inbounds to clients | the listeners of the running box, subscriptions |
| Traffic statistics (`core/tracker_stats.go`, `service/stats.go`) | atomic counters by user, the `up` and `down` columns | `GetStats` (swap with zero), `SaveStats`, `Reset` on close | cron, client rows |
| Clients: quota, expiry, reset (`service/client.go`, `cronjob/depleteJob.go`) | quota, expiry, reset period, `enable`, totals | `DepleteClients`, `ResetClients`, `RestartInbounds`, edits, renames and deletions | cron, users of the inbounds of the running box |
| Change notification (`LastUpdate`) | one integer, the `changes` table, the cursor of each panel | four writers, `CheckChanges`, `getData` | saves, deplete job, polling panels |
| Login rate limiter (`api/login_rate_limit.go`) | table of attempts by user and peer, last cleanup | `loginAllowed`, `recordLoginFailure`, `clearLoginFailures` | both login handlers |
| Database import (`database/backup.go`) | the files `dbPath`, `dbPath.backup`, `-wal`, a temporary file, the pool `db` | `ImportDB`, `restoreDatabaseBackup`, `InitDB` | every request that holds a transaction |
| Database export | a second file | reads table by table | concurrent commits |
| API tokens (`api/apiV2Handler.go`, `service/user.go`) | rows, a cache of tokens | add, delete, reload, compare | administrators |
| Administrators (`service/user.go`) | password hash, TOTP secret, recovery codes, pending enrolments, `recoveryCodeMu` | `CheckPassword`, `VerifySecondFactor`, enrol, disable, `ChangePass`, `UpdateFirstUser` | login handlers, tokens |
| OIDC and passkeys (`service/auth.go`) | bounded tables of pending sessions, passkeys | begin, finish, expiry, delete | identity provider, administrators |
| Connection tracker (`core/tracker_conn.go`) | lists of connections by inbound | track, untrack, `CloseConnByInbound` | restart of an inbound |
| Connection records, IP information (`service/ip_info.go`) | two bounded caches with expiry, the budget of a page | look up, store, evict, clear | DNS of the core, ipwho.is, Cymru, restarts of the core |
| WireGuard, WARP, egress tags, managed routes (`service/endpoints.go`, `wireguard.go`, `warp.go`, `egress_tags.go`) | endpoints, outbounds, managed route rules, devices at Cloudflare | normalise, validate, merge secrets, export, register, inject | saves, forms, Cloudflare |
| Settings, migrations | key-value rows, the stored version | get, set, migrate | start, import |
| Subscriptions, link conversion, web server, logs, command line, mobile app | none of their own that changes between steps | formatting, routing, input and output | the others |

What is hard about it:

- **Several goroutines without one lock.** The cron starts a job whether or not
  the last run has returned; saves are serialised by `configSaveMu`, but neither
  the jobs nor the restart handlers take it; `isRunning` and `instance` are
  read and written without a lock.
- **Two stores that have to agree.** A save changes the running box and the
  rows; each of its steps may fail, and the process may be killed.
- **Values read early and used late.** A configuration taken before the
  transaction, users read before an inbound is added again, a form opened
  before a reset, an answer of the limiter given before a slow hash, a time
  taken before a commit.
- **Failures half way.** A box that failed to start after it opened a listener,
  an import after its first rename.
- **Copies in other rows.** Links, `out_json` and managed routes repeat what
  another row says; forms come back redacted, out of date, or for a row that
  is gone.
- **Single use.** A recovery code or a pending ceremony is read, waited for and
  taken away by requests that overlap.
- **Things that must happen in the end.** The core comes back; a depleted
  client is taken off.

## The modules

| Module | Models | Extended by |
|---|---|---|
| `CoreRuntime` | core lifecycle and saving | `MCCoreRuntime`, `CoreRuntimeProofs` |
| `ClientLedger` | counters, stats and deplete jobs, edits and deletions of a client, users of the inbound, tracked connections | `MCClientLedger`, `ClientLedgerProofs` |
| `ChangeCursor` | `LastUpdate`, its writers and the poll | `MCChangeCursor` |
| `LoginLimiter` | the limiter and the order in which handlers call it | `MCLoginLimiter`, `LoginLimiterProofs` |
| `ImportDb` | the import step by step, a transaction of another request, kills | `MCImportDb`, `ImportDbProofs` |
| `Objects` | rows of clients, inbounds, TLS templates and services, the box and the subscriptions they make | `MCObjects`, `ObjectsProofs` |
| `WireGuardForm` | what the code computes from one WireGuard or WARP row | `Tunnels` |
| `Tunnels` | endpoints, outbounds, managed routes, WARP devices, forms | `MCTunnels`, `TunnelsProofs` |
| `SingleUse` | the abstract promise of everything handed out for one use | instantiated by the next two |
| `AdminAuth` | passwords, TOTP, recovery codes, API tokens and their cache | `MCAdminAuth`, `AdminAuthProofs` |
| `Ceremonies` | OIDC and passkey ceremonies of two requests | `MCCeremonies`, `CeremoniesProofs` |
| `IpInfo` | look-ups of addresses, their workers, budget and caches | `MCIpInfo` |

A definition whose comment begins with *Mutant* is no part of the model: it is
a plausible bug in the definition after it, used to show that a property
depends on that piece of the code.

### CoreRuntime

Threads are the check jobs of the cron (`Checkers`), the restartSb handlers
(`Restarters`), the main goroutine (`Main`: start of the panel, SIGHUP) and the
one request that holds `configSaveMu` (`Saver`). Each has a control point `pc`
and an operation `op`; an action is the code between two points at which
another goroutine can see or change something. `inProgress` and `cooling` are
`startCoreInProgress` and the cooldown. A box is closed, built or live and has
a configuration: a version, or `Absent`, of each object. *Hot* objects are
removed from and added to the running box inside the transaction (`SaveHot`,
`HotStep`); *cold* ones (base configuration, endpoints) are applied by
`restartCoreWithRaw` with the staged configuration before the commit
(`SaveCold`, `Validate`, `RawLock` ... `Release`). Every step that can return an
error has a failing alternative. `App.Start` is one of them (`AppStart`): it
returns an error before the cron, before the web server or after both, and
`RestartApp` drops it. `services` says which of the two were started; the check
jobs exist with the cron, the requests with the web server. A nil `*Box` that is dereferenced is `Panic`:
fatal in a cron or the main goroutine (then the service manager starts the
process again, `ProcessStart`), recovered by gin in a handler after the deferred
functions have run. `leaked` is a transaction that such a panic left open.

Abstracted: what sing-box does in `NewBox`, `Box.Start` and `Box.Close`
(success, failure, or a start that succeeds on a box closed under it), the
JSON of a configuration, the checks of an input (accepted or refused), retries
of the operating system. `skipped` is a history variable: the last save asked
not to be applied.

### ClientLedger

`live` are the counters of the tracker, `batch` what `GetStats` returned to a
stats job that has not stored it yet (`Held` counts the units of all batches),
`row` the committed row of each client,
`served` the users of the inbound. Upload and download are added up and all
clients are on one inbound. SQLite is its rule for writers: one at a time
(`Unlocked`), and a deferred transaction that has read may write only if nothing
was committed since (`stale`, SQLITE_BUSY_SNAPSHOT). The request that edits a
client saves the whole row of a form that was read earlier, with the same name
or another one; the form may also delete the client, and one of a client that is
gone rolls back (`RecordNotFound`). History variables:
`sent`, `lost` (a closed box, a failed `SaveStats`, units of a name no row has),
`erased` (what the save of an old form took off a row, or a deletion with it).

A client is its id, while `SaveStats` updates by name. Of a name the model keeps
whether it is the first one (`own`), was changed at any time (`changed`), or has
no row (`none`). Under its first name all units are found, without a row none; once
it was changed any part may be (`Found`), which includes what the code does and
more: after a rename it finds again what is counted under the new name. The names
of clients are taken to be distinct, although the column has no unique index, and
no new client takes the name of a deleted one. `StopBox` and `StartBox` are one step each: what
goes on inside them, and a nil instance met by `RestartInbounds`, is
`CoreRuntime`'s matter; a panic of a job ends the process (`Kill`).

`conn` is one connection of each client: accepted by the inbound, then routed,
which is when `ConnTracker` learns of it, and from then on counted. A restart of
the inbound closes what the tracker has (`CloseConnByInbound`). A connection
accepted before the restart and routed after it (`late`) is not among these and
stays until the next restart; `NoLeftConnections` claims the others only.

### ChangeCursor

The four writers differ in when they take the time they store: before the
write (`SaveWithApply`, `saveConfigWithApply`, `DepleteClients`) or after the
commit (`saveEndpointWithApply`, the set `Endpoint`). A poll computes its next
cursor, then loads, queries and stores `LastUpdate` in separate steps.
`MayOverlap` says which writes may be under way during a poll: it separates the
passing run from the violation.

### LoginLimiter

`loginAllowed` and `recordLoginFailure` are one step each (they hold the mutex);
between them a handler is busy with the password (`trying`), any number of
handlers at a time. The cleanup is part of both calls, as in the code. Window
and lock are 5 minutes each and the cleanup period is one minute in the code; the model
uses whole units with the same order. 0 is the zero `time.Time`.

### ImportDb

One action per step of `ImportDB`, each with its failure; `MaxFaults` bounds
the failures within one import. `file` says which database is at each path. A
transaction of another request (`Begin`, `Commit`) keeps its connection when
the pool is closed; when the `-wal` file is removed under it (`tx = "cut"`) its
commit is acknowledged and goes nowhere. `Kill` may come between any two steps,
and the next start runs `InitDB`. A migration is one transaction, as in
`MigrateDb`. `SendSighup` fails only if the process cannot be found; the import is
then in place and an error returned all the same (`unsent`).

### Objects

A save holds `configSaveMu` and one transaction, so it is one action: it takes
the rows to new ones and applies to the box what that kind of save touches, or
neither (`FailedSave`: what was already done to the box is restored from the
rows). `core.in` is what the box listens on: a type, a TLS version and the
credentials it knows for each tag. A client's row keeps `links`, an inbound's
row `out`, the outbound that subscriptions copy. `GetSubs` and `JsonOutbounds`
are what a subscription reads from both. A form may name a row that is gone.

Abstracted: name and credentials of a client are one value; a type stands for
the types with the same behaviour (`vless`: users and a link; `shadowtls`: users
without a link; `direct`: neither). No object has an empty tag (the managers of
sing-box refuse one), which the model keeps for "no tag". A form's template
exists.

The clients of a bulk save have lists of inbounds of their own, as the API accepts
them from the app. The code takes the list of the first for all: an addition
restarts only the inbounds on it, and the links of all clients are made from it.
Two history variables name what that leaves wrong, and the properties exempt
exactly this: `leftOut`, pairs of a client and an inbound of its list that has not
been opened since the addition, and `mislinked`, clients whose local links came
from a list that is not theirs. A pair leaves `leftOut` when its inbound is opened
again or the core stops, a client leaves `mislinked` with the next edit of it.

Not claimed: an inbound
turned into a `direct` one keeps its old `out_json`, which `OfferedOutboundsOpen`
exempts; an external link whose remark equals a tag is dropped with it.

### WireGuardForm and Tunnels

`WireGuardForm` holds pure operators: `normalizeAndValidateWireGuard` with its
checks of a row and of each peer, the redaction of secrets, the merge of a form
with the stored row, the routes a row asks for, and when a peer can be exported.
Addresses are vectors of `Width` bits, and a network is the set of addresses that
agree on its first bits. A text that is no prefix is refused where the code parses
it; keys that are none are no inputs. Lists of prefixes are sets, so the first host
route of a family, which counts as the address of a peer without one, is any but
always the same one of the set.

`Tunnels` is the state around them. The end of every save of an endpoint is
`Store`: validate, find the tag free, let sing-box accept the row, store it, and
bring the managed routes in line. WARP tunnels get a device, or a license, at
Cloudflare first, and a later failure leaves only that behind (`RegisterWarp`,
`SetWarpLicense`): a device no row knows is possible, a row whose device does not
have its license is not. A form (`OpenForm`, `SaveForm`) shows the redacted row
and may be saved after other saves (`SaveFresh`) changed it, or after it was
deleted. Rows of the earlier schema skip the checks, as in the code.

Limits: the comparison of lists in `sameStringSet` counts repetitions, which the
sets of the model have not. A form sent as "new" with the id of a stored row, which
would store over it and leave the routes of its old tag, is no input; neither is
`route_inbounds` of a tunnel that names another tag (after a rename it keeps the old
one).

### SingleUse, AdminAuth and Ceremonies

`SingleUse` is an abstract specification: a voucher is issued once, accepted at
most once, and never comes back after it was accepted or withdrawn. `AdminAuth`
implements it with its recovery codes (live are those drawn and not accepted: codes
that a new enrolment or the removal of TOTP withdrew still count, so that nothing
is said of a withdrawn code but that it is accepted at most once), `Ceremonies` with each of its two tables;
the refinement mappings are in `CodeVouchers`, `OidcVouchers` and
`PasskeyVouchers`.

In `AdminAuth` an action is the code between two accesses to the database or to
a lock: `CheckPassword` reads a row, a plain password is hashed and stored,
`VerifySecondFactor` decides from the row it was given or takes `recoveryCodeMu`,
reads the row again and writes it without the code. `ChangePass` and
`UpdateFirstUser` write the whole row back. Requests that change tokens end with
`ReloadTokens`, which loads and stores in two steps, or fails to load and keeps the
old cache (`ReloadFails`). `newest` is a history variable, the newest version of
the rows a reload has shown or failed to read: a cache that shows less belongs to
a reload that was overtaken, or the one after it failed. `Alone` are kinds
of requests that overlap with no other.

In `Ceremonies` the first request leaves an entry in a table of at most
`MaxPending`, the second takes it out and goes on without a lock while
administrators are renamed, passkeys deleted and single sign-on switched off. What the libraries
verify is success or failure, except that a passkey verifies only if it is among
the credentials they were given. A renamed administrator takes a name nobody had.

### IpInfo

Each worker of a page, and the request for one address, is a sequence of steps
with nothing locked in between: cache of names, DNS, cache of owners twice,
ipwho.is, Cymru. A query and the look at the deadline after it are two steps, as a
query may fail by itself in time. `core` is the box whose DNS answers; a start
empties the cache of names afterwards (`ClearDomains`). History: `asked` of a request
counts what it asked outside, by the address shown and the address asked for;
`asked` and `from` of a name say after how many clears and of which core it was
asked; `cut` that the deadline had passed when a query failed.

Addresses are of public scope; the others return at once. A look-up under way
when the cache is emptied may still store the old core's answer: `CachesHold`
allows exactly these. Both services may fail in time and "nobody" is stored for a
while; it, or the answer of Cymru, may replace an owner with a location that another
request stored meanwhile, of which no documentation speaks. Cymru's answer is stored
for as long with the name of the network as without.

## Runs

| Run | Instance | Checks | Shows |
|---|---|---|---|
| `core_serial` | 1 check job, 1 handler, 1 saver, 2 hot objects, 1 cold, 2 versions, 2 boxes, one operation at a time, kills | `RuntimeFollowsDb`, `NoOrphans`, `CoreComesBack` | whatever step of an operation fails, a core that reports running serves the committed configuration, no other box stays open, and a check job that was started brings the core back |
| `core_overlap` | main goroutine and saver in any interleaving | `TypeOK`, `StartExclusive`, `FlagReleased` | `startCoreInProgress` is a lock through every error and recovered panic, and is always released |
| `ledger` | 1 client, 2 stats jobs, 1 deplete job, edits, renames and deletion, faults, kills; a quota with resets or with an expiry | `TypeOK`, `NeverOvercharged`, `Conserved` | no unit of traffic is counted twice or forgotten without a named reason |
| `quota` | 1 job of each kind, edits, renames and deletion, no overlap and no faults, with fairness; the rows above, a quota or an expiry alone, resets that are due, a delayed start with resets and without | `EnabledIsServed`, `NoLeftConnections`, `QuotaEnforced` | the inbound serves the enabled clients, keeps no tracked connection of the others, and one beyond its quota or its expiry is taken off it |
| `login_limiter` | 3 keys, 2 entries, 2 handlers, 2 failures, 7 units of time | `TypeOK`, `BoundedEntries`, `BoundedGuesses`, `AdmitsAgain` | the table and the guesses within a window are bounded, and the limiter admits again |
| `cursor` | 1 saver, 1 endpoint saver, 1 deplete job, cold start | `NoMissedUpdate` | polls miss nothing unless a write that took its time early overlaps them |
| `import` | 3 imports, 2 commits, 2 kills, 1 fault for each import | `OkOrRestored`, `OneImportKeepsData` | an import ends on the upload or on the database before it; a kill during the first loses neither |
| `ceremonies` | 1 administrator with 2 names, 2 passkeys, 2 requests, tables of 2 entries, 3 keys, restarts | `PendingBounded`, `RefusedOnlyWhenBusy`, `DeletedPasskeyRefused`, `CeremoniesSingleUse` | the tables are bounded, refuse only while entries are in time, a deleted passkey logs nobody in, and `Ceremonies` implements `SingleUse` |
| `admin_auth` | 1 administrator, 2 requests at a time and 3 in all, 1 batch of codes, 2 tokens; reloads may fail; `ChangePass` and the command line run alone | `CodesAreVouchers`, `CacheFollowsTokens`, `CodeLockReleased` | `AdminAuth` implements `SingleUse`, the cache follows the rows unless the last reload failed or was overtaken, `recoveryCodeMu` is released |
| `tunnels` | two worlds: one tunnel with every kind of peer (2 at a time) and a form; 3 tunnels, a WARP device each, an outbound and 2 tags | `OneNamespace`, `RoutesFollowTunnels`, `OnePeerPerAddress`, `DefaultRouteByPreset`, `OwnSecretsRestored`, `ResaveChangesNothing`, `WarpCredentialsHold` | tags, routes, addresses, secrets and licenses stay consistent through old forms, renames and reuse |
| `objects` | 3 rows in all of clients, inbounds and services, 1 template with 2 versions, 2 tags, 2 sets of credentials; bulk saves of 2 clients with any lists | `TypeOK`, `RunningIsBuilt`, `OfferedLinksOpen`, `ServedIsOffered`, `OfferedOutboundsOpen` | the box is what the rows build and what a subscription offers opens, but for what a bulk save left out or linked wrongly |
| `ip_info` | a page with 2 workers and 4 rows of 3 addresses, a detail, 2 starts of the core, 1 entry in each cache, a budget of 2 | `LookedUpOnce`, `CachesHold` | a page asks each service once for an address it shows, within its budget; the caches stay bounded, without cut-off misses and with no answer of another core asked for after the clear |

### Why the bounds are enough

- *Boxes = 2*: a box and the one that is started over it; a third would need
  two starts within `startCoreInProgress`, which `StartExclusive` excludes. A
  start that finds none free fails, as any start may.
- *Two hot objects*: a hot save can fail between the first and the second. *Two
  versions*: old and new can be told apart.
- *Two stats jobs, one deplete job, two units*: a batch held by one job while
  the other swaps the counters again, with a deplete job between its read and
  its commit. *Period 1, time 2* (3 in `quota`): a reset and an expiry fall due
  and the clock passes them, in `quota` also those that a delayed start sets. *One
  client*: no operation relates the row of one client to that of another (the
  theorems below are for any number of them). The stats jobs are interchangeable, hence the symmetry; it is
  used for invariants only.
- *Three keys for two entries*: the table fills and a third key is refused; two
  handlers: one is admitted before the other locks the key. *Time 7*: a window,
  a lock and a cleanup one after the other.
- *Three writes in six seconds*: a write in the second of a poll, one before
  and one after it.
- *Three rows in `Objects`*, of clients, inbounds and services together: an
  inbound and the two clients of a bulk save with different lists, two inbounds
  and a client of both, a form of a deleted row beside a new one, as ids are never
  used twice; with two tags a tag is used again by another row. Tags, credentials
  and the contents of the template are interchangeable, hence the symmetry.
- *Two bits of address in `Tunnels`*: a host inside and outside the virtual
  network, networks that contain, equal and miss each other, and a default
  route, in both families; two peers are a pair that can collide, and a peer
  added to or dropped from a form moves the other.
- *Tables of two entries and three keys in `Ceremonies`*: one fills up, is
  cleaned and filled again. *Two requests*: one is between its steps while the
  other does anything.
- *One entry in each cache of `IpInfo`*: every second store evicts. *Four rows, three
  addresses, a budget of two*: a row that repeats one, a name beside the address
  it stands for, and one address more than the budget allows. *Two workers*: they
  hold two targets at once. *Two starts*: an answer of the first core's DNS meets
  the second.
- *Three imports*: one that leaves a backup behind (the removal of it is only
  logged), one that fails, one after it.

### Fairness

- `Progress`: a goroutine in the middle of a function goes on (weak fairness of
  its steps) and the cooldown passes. `Box.Start` and `Box.Close` are assumed to
  return.
- `WatchdogSpec`: the cron fires every 5 seconds, so between other operations
  too (strong fairness of `CheckCore`, which is disabled while another operation
  runs), and a start tried over and over works at last (strong fairness of the
  successful outcomes). Without the latter a core that can never start would
  refute `CoreComesBack`, which says nothing about the code.
- `FairSpec` of `ClientLedger`: the cron starts its jobs again and again (strong
  fairness), and a started job or request goes on (weak fairness).

The properties of the other modules are about safety and need no fairness. `admin_auth` uses a symmetry of requests,
which is sound for its action property as the formula names no request. The
runs that set `CHECK_DEADLOCK FALSE` (`cursor`, `import`, `ceremonies`,
`admin_auth`, `tunnels`, `objects`, `ip_info`) may stop when their bounds of time,
writes, rows or requests are reached.

## Counterexamples

These claims of the repository, or expectations of those who use it where no
line is quoted, fail, each in a configuration that is replayed by hand with
`tlc -config <cfg> <module>`:

| Configuration, module | Claim | What happens |
|---|---|---|
| `MCCoreWatchdog.cfg`, `MCCoreRuntime` | `WatchdogCoversCore`: "Start core if it is not running" (`cronjob/cronJob.go:30`) | `StartCore` tests `IsRunning` before it takes `startCoreInProgress` and not after it. A late goroutine starts a second core over the first; when that fails, `instance` is nil and `isRunning` true, and the check job never acts. |
| `MCCoreApply.cfg`, `MCCoreRuntime` | `AppliedIsServed`: "Applying a configuration checks the restarted core and restores the previous working state on failure" (`README.en.md:93`) | A configuration is applied before it is committed (`service/config.go:344`); a restartSb request in between reads the committed rows, and the old configuration is served after a save that reported success. |
| `MCCoreRestart.cfg`, `MCCoreRuntime` | `RestartComesBack`: after the panel is restarted the core runs again ("panel/core restart", `README.en.md:50`) | `App.Stop` has stopped cron, servers and core; `App.Start` returns an error before `cronJob.Start` (`app/app.go:56-71`), and `RestartApp` drops it (`app/app.go:121`). The process stays, with nothing in it that would start the core. `CoreComesBack` holds once the cron was started. |
| `MCLoginLock.cfg`, `MCLoginLimiter` | `LockHolds`: "login should be locked after repeated failures" (`api/login_rate_limit_test.go:26`) | A failure recorded late, when its window has passed, opens a new window without looking at `LockedUntil` (`api/login_rate_limit.go:78`), which ends the lock. |
| `MCCursorEarly.cfg`, `MCChangeCursor` | `NoMissedUpdate`: "updates written during this request are observed by the next poll" (`api/apiService.go:47`) | `LastUpdate` gets a time taken before the commit (`service/config.go:361`); a poll in between is never told of the change. |
| `MCImportAtomic.cfg`, `MCImportDb` | `ReplacedAtomically`: "replaces it atomically" (`README.en.md:94`) | Between the two renames (`database/backup.go:286`) there is no file at `dbPath`; a process killed there starts with an empty database. |
| `MCAdminCodes.cfg`, `MCAdminAuth` | `EachCodeOnce`: "each code is valid once" (`README.en.md:196`) | `ChangePass` reads the row, hashes, and saves the whole row (`service/user.go:178`); a recovery code used meanwhile is back. `UpdateFirstUser` (`service/user.go:97`) does the same from another process. |
| `MCAdminTokens.cfg`, `MCAdminAuth` | `DeletedTokenRefused`: a token that was deleted is refused once the request has returned ("revoking the token", `README.en.md:41`) | `ReloadTokens` only logs an error of `LoadTokens` and keeps the old cache (`api/apiV2Handler.go:142-155`), so the token is accepted until the next reload that works. |
| `MCObjectsBulk.cfg`, `MCObjects` | `EveryLinkOpens`: "Manage users individually or in bulk" (`README.en.md:24`), and all that a subscription hands out opens | The array of an `addbulk` may give each client inbounds of its own (`mobile/lib/ui/resource_page.dart:101`, `docs/mobile-api.md:28`). All get links to those of the first (`service/client.go:275-324`), and only these are restarted (`service/client.go:182`): the second has a link to an inbound that does not let it in. |
| `MCIpInfoTwice.cfg`, `MCIpInfo` | `AddressAskedOnce`: "Lookups are deduplicated" (`service/ip_info.go:167`) | Targets are told apart by the row's host or address. A page that shows an address and a name that stands for it asks ipwho.is for it twice when two workers come to it at once (`service/ip_info.go:251-263`, `352-364`). |
| `MCTunnelsResave.cfg`, `MCTunnels` | `ExistingPeersSaveAgain`: "Virtual network prefixes are only allocation ranges for managed clients" (`README.en.md:207`) | A peer with its own keys and no assigned address is stored with its host routes in `allowed_ips`; the next save takes them for assigned addresses (`service/wireguard.go:356-406`) and refuses those outside the virtual network, so an unchanged tunnel cannot be saved. |
| `MCTunnelsExport.cfg`, `MCTunnels` | `ExportedKeyIsOwn`: "client private key is unavailable; generate a new key for this peer" (`service/wireguard.go:814`) | A form that shows a peer's key as `[redacted]` is saved after that peer left the stored row: no key is found, the placeholder is stored, and the export hands it out instead of this error. |

Hazards that no property covers carry a note in `PROJECT.json`; some of them
(a transaction that is open during an import, a restart of an inbound that
fails after the rows were committed, users read before and added after another
restart of the same inbound) are in the models and have no claim in the
repository to be checked against.

## Proofs

`TLAPS` proves, for every value of the constants that satisfies the named
assumptions of the modules:

- `TypeCorrect` (`CoreRuntimeProofs`): `Spec => []TypeOK`, including that a
  goroutine inside a method of `Box` has a receiver. `TypeOK` is inductive.
- `Exclusion`: `Spec => []StartExclusive`, for any number of goroutines. The
  inductive invariant is `TypeOK /\ ControlOK /\ StartExclusive`: `ControlOK`
  ties the control point of a goroutine to its operation and role (a restarter
  is never inside `restartCoreWithRaw`), without which a step could enter or
  leave the region unnoticed. Each action is shown to do one of four things to
  the region: nothing, enter it while the flag is clear, leave it, or empty it.
- `EntriesBounded` (`LoginLimiterProofs`): `Spec => []BoundedEntries`, for any
  number of keys and handlers. The invariant adds that the table is finite; the
  facts about `Without` and `With` rest on the library's cardinality theorems.
- `LimiterTypes`: `Spec => []TypeOK` of `LoginLimiter`.
- `GuessesBounded`: `Spec => []BoundedGuesses`, for any number of keys and
  handlers. `BoundedGuesses` is not inductive: a key at the bound could take one
  more failure. The invariant `Guesses` adds that a key with `MaxFailures`
  failures is locked until its window has passed (this is where the assumption
  that a lock is no shorter than a window is used), and that within the window
  its failures and the requests still admitted for it stay within the bound.
- `FirstImportKeeps` (`ImportDbProofs`): `Spec => []OneImportKeepsData`, for any
  number of kills, faults and commits. The invariant `Kept` says where the
  database in use before is at every control point.
- `ImportOkOrRestored`: with at most one fault for each import,
  `Spec => []OkOrRestored`, for any number of imports. The invariant `Placed`
  adds that no step has failed before a restore begins, so that the restore
  itself cannot fail, and where the pool stands.

- `RuntimeFollows` and `NoBoxLost` (`CoreRuntimeProofs`): `RuntimeFollowsDb` and
  `NoOrphans` when operations do not overlap (`~Overlap`), for any number of
  objects, versions, boxes and goroutines. Neither says anything about the
  middle of an operation, so the invariant `Serial` does: at most one goroutine
  is away from its idle point; while none is, the running box is the one of the
  core, has the committed configuration and is the only one open; while one is,
  its control point says whether the core is up, half started or half stopped,
  which configuration it has (the committed one, the staged one, or in the middle
  of a hot save one with only the objects left to do as committed), and that what
  an error path restores is what is committed.
- `AdmitsAgainHolds` (`LoginLimiterProofs`): `Spec => []AdmitsAgain`, for any
  keys, handlers and limits, also after the table was full. The invariant `Aged`
  adds that no window and no lock outlasts the last failure by more than a lock
  time, and that a cleanup later than that has left nothing in the table.
- `LedgerTypes`, `TrafficConserved`, `NobodyOvercharged` (`ClientLedgerProofs`):
  for any clients and jobs, any overlap, renames, deletions, faults and kills. The core of both
  proofs is `Flow`, the bookkeeping of one step: what it adds to counter, batches,
  row and losses of a client it takes from another of them or has just been
  sent. `NeverOvercharged` is not inductive: the form and the transaction of an
  administrator hold rows of earlier times, and `NoCopyOvercharged` bounds those
  too. Both need `FreshReads`: a deplete job whose snapshot nobody overtook holds
  the committed rows.
- `ServedAreEnabled`, `DisabledAreDisconnected`: `EnabledIsServed` and
  `NoLeftConnections` under `Sequential` (`~Overlap /\ ~Faults`). Both speak of the
  moments between operations; `Serving` says what the inbound serves at each
  control point of the deplete job and of the editing request, and that a
  tracked connection is one of a served client.
- `AuthTypes`, `LockReleased`, `CodesSingleUse`, `CacheFollows`
  (`AdminAuthProofs`): for any number of administrators, names, requests and
  tokens. `CodesSingleUse` is `AdminAuth`'s implementation of `SingleUse`, step by
  step, under the assumption `LoneSavers`: requests that write back a whole row
  read long before (`changePass`, the command line) overlap with no other. The
  counterexample `MCAdminCodes.cfg` shows that it cannot be dropped. The
  invariant says that the codes in a row, and in the copy a request took under
  `recoveryCodeMu`, are unspent and belong to one administrator. `CacheFollows`
  needs a version since which the tokens have not changed: whatever was loaded
  since shows them, and such a load was stored, failed, was overtaken or is under
  way. In the second and third case `newest` tells, and the theorem claims nothing.
- `TablesInOrder`, `BoundedPending`, `RefusalsJustified`, `CeremoniesOnce`,
  `DeletedRefused` (`CeremoniesProofs`): the bound and the use of both tables, and
  `Ceremonies`' implementation of `SingleUse`, for any bound, requests and
  restarts. `TablesInv` says that the entries of a table are finite in number,
  were issued, and that keys are never used twice; for `DeletedRefused`, `GoneInv`
  adds that a deleted passkey has no row and that what a login remembers as
  deleted stays so.
- `OneTagOneRow`, `RoutesFollow`, `WarpCredentials`, `SecretsRestored`
  (`TunnelsProofs`): for any number of rows, tags, peers, keys, devices and forms
  as old as one likes. Every step is shown to add a row, to store one over the row
  of an id, to touch outbounds or forms only, or to store nothing (`StepKinds`).
  `RoutesFollow` needs that the table of managed routes is the union of those of
  the stored tunnels, and that tags are not shared, so that a save which deletes
  the routes of a tag deletes its own; `WarpCredentials` that only WARP rows name
  a device; `SecretsRestored` that no two peers of a checked row have one public
  key.
- `OnePeer`, `ResaveStable`, `DefaultRoute` (`TunnelsProofs`): for any width of
  addresses, networks and peers. What `normalizeAndValidateWireGuard` accepts is
  what later reads rely on: `SoundRow` says of a stored row that its peers carry
  disjoint sets of addresses under distinct keys, that a gateway carries each of
  its networks in one of its routes, that masking and the presets have nothing left
  to change (`RoutesStay`), and that only a managed client has a key pair and
  routes of its own. `OnePeer` then needs that a network whose address lies in a
  shorter prefix lies in it; `ResaveStable` that redaction and merge change no
  field of a peer but its key pair and its flags (`ResavedPeer`); `DefaultRoute`
  the hypothesis `OldKeysOnly`: a row of the present schema is created without
  private keys beside its peers. The code only reads such keys
  (`service/wireguard.go:663,726,805`), for rows of earlier versions; that saving
  an old row under the present schema leaves none behind is part of the proof
  (`StoredKeysKept`).
- `ObjectTypes`, `RunningCoreIsBuilt`, `LinksOpen`, `NobodyLeftBehind`,
  `OutboundsOpen` (`ObjectsProofs`): the five invariants of `Objects` for any
  number of rows, tags, credentials and templates, through `RowsAndCore`. What
  subscriptions read are copies, so the invariant has to say of the copies what
  a reader would compute: every link in a client's row is the link of the
  inbound that has its tag now (`LinksMade`), every `out` that of its row and
  template (`OutsMade`), a running core has exactly the inbounds and services the
  rows make (`CoreOK`); and, since objects are restarted and links replaced by
  tag, that a tag names one row (`OneTag`, `OneService`). Bulk saves break the first
  and the third: `LinksMade` leaves out the clients of `mislinked`, and `CoreOK`
  speaks of the rows without the pairs of `leftOut` (`Told`), of which an inbound
  that was opened has none, nor a core that is stopped.

The assumptions are those of the modules (finite bounds, disjoint sets of
names); `LoneSavers`, `OldKeysOnly`, `Sequential`, `~Overlap` and
`MaxFaults <= 1` are hypotheses of the theorems that need them and of no other.

Only model-checked:

- the liveness properties (`CoreComesBack`, `FlagReleased`, `QuotaEnforced`): they
  rest on fairness and ENABLED, which are out of the prover's reach;
- `NoMissedUpdate`, `LookedUpOnce`, `CachesHold`: no proof yet.

## Plan

The modules are written. What is left is proofs, in this order:

1. `NoMissedUpdate` for the writers that stamp after the commit.
2. `LookedUpOnce` and the bounds of the caches of `IpInfo`, for any number of
   pages, workers and addresses.

`ChangeCursor` may get a restart of the process between a commit and a poll.
`ClientLedger` may get new clients that take the name of a deleted one, whose units
are then added to theirs; `Tunnels` the save of "new" over a stored id.

## Not modelled

- The text of links, subscriptions (share links, JSON, Clash), exported WireGuard
  files and QR codes: conversions of many protocols, string by string.
  `Objects` and `WireGuardForm` keep what they depend on.
- Down-sampling and deletion of traffic history (`DelOldStats`); parsing and
  filtering of connection log lines.
- Subscription ids (`EnsureClientSubIds`); the names of passkeys and the origin of
  a request.
- Database export, which reads table by table and promises no snapshot; what each
  migration rewrites.
- Settings (each setter is one update of one row), the web server and routers,
  logging, installers and the command line (sequential), the mobile app.
- What happens when a recovered panic inside `SaveWithApply` commits the open
  transaction for a form with a deleted template, and `tls.go:67`, whose result
  depends on how the library scans a row into a number.

`PROJECT.json` names the reason for each component.

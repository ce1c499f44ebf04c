# NeoMist: a TLA+ model of its local services

NeoMist is a desktop program (Rust) that makes Ethereum names browsable: a tray
icon, a local HTTPS server, a local DNS server for `.eth` and `.wei`, an embedded
Helios light client, and an IPFS daemon (Kubo). A site such as `vitalik.eth` is
looked up through Helios, its content is fetched through Kubo, and each version
that is seen is kept in a cache that answers while the network is down.

This directory holds TLA+ modules of the parts of the program in which order,
failure and concurrency decide, TLC configurations that check them on small
instances, and TLAPS proofs for all of these parts. `PROJECT.json` maps every definition
to the lines it models. Paths below are relative to the repository.

## Inventory

| Component | State | Operations | Hard because |
|---|---|---|---|
| Helios runtime (`src/helios_manager.rs`, `src/main.rs`, `src/ens.rs`) | client, RPC handle, `restarting`, `current_client_synced`, `sync_epoch`, `sync_notify`, `helios_has_synced` | restart in process, mark synced, wait for a sync, first-sync monitor, lookups that schedule and wait | tasks share atomics without a lock; wakeups; a restart fails half way |
| Site cache (`src/cache.rs`, `src/ens.rs`, `src/following.rs`) | per site: versions named by seconds, the record `contenthash`, the flag `autoseed`; what Kubo pins | request, fallback, update, follower's pass, follow, unfollow, clear | every operation is several HTTP calls to Kubo, and nothing locks a site |
| Kubo manager (`src/ipfs.rs`, `src/tray.rs`, `src/main.rs`) | child process under a mutex, offline flag | adopt, spawn, toggle, stop | two threads and a signal; daemons outlive a crash |
| Checkpoint history (`src/checkpoints.rs`) | a short list in memory, a file | push on a log line, persist, load | persisted outside the lock; truncate, then write |
| Settings (`src/config.rs`, `src/http_server.rs`, `ui/src/App.jsx`) | file, memory, tray flag, autostart entry; the form of the dashboard | load, save with revert, autosave with a timer | four copies of a setting, overlapping posts, stale closures |
| System setup (`src/app_setup.rs`, `src/dns.rs`, `src/certs.rs`, `src/main.rs`) | certificate files, CA store, Firefox policy, resolver configuration, port file, file capability | install, uninstall, start and relaunch of the app | a dozen steps of two processes, any of which may be the last |
| ENS lookup (`src/ens.rs`) | a request in progress | record types, ENSIP-10 wildcards, CCIP-Read, retries when Helios lags, codecs, fallback to the cache | every call may fail in a way that decides what comes next |
| HTTPS server (`src/http_server.rs`, `src/certs.rs`, `src/site_error.rs`) | wildcard certificates made on demand | host routing, TLS, origins, RPC endpoint, gateway proxy, error pages | four parts read a host name each in its own way; certificates made by concurrent handshakes |
| RPC proxy, web3 gateway (`src/rpc_proxy.rs`, `src/web3.rs`) | a request in progress | try the configured servers in turn; normalise and render `web3://` paths | the list changes behind a request; redirects |
| DNS server (`src/dns_server.rs`) | a socket | answer A queries | stateless |
| Tray, gas price (`src/tray.rs`, `src/gas.rs`) | title, icon, last price, last flag; a channel between the two | draw what changed, poll | three loops (settings, poll, tray) meet in a flag and a channel |
| Site directory tools (`apps.neomist.eth/`) | SQLite tables of names and probes | sync, probe, analyse, publish | restartable crawls |
| Release and packaging (`release.sh`, `scripts/`, `packaging/`) | files | build, sign | run by hand |

How they meet: a request asks the Helios runtime for a record (an ENS call through
the loopback RPC server), falls back to the site cache when the lookup fails, and
otherwise updates the cache through Kubo's API. The follower does the same on a
timer once the first sync was signalled to it. The tray restarts Kubo and reads
the flags of Helios and of the settings. System setup runs before the servers, as
a root process that the app starts. The settings page posts to the HTTPS server.

What makes each component correct is listed with its runs below; the hazards that
the properties answer to are in `PROJECT.json` at their lines, with a note where no
property covers one yet.

## Plan

In order of importance; all of it is done.

1. `HeliosRuntime`, with the abstract `HeliosHandover`; and `LightClient`, the
   interface the requests are modelled over; proofs in `LightClientProofs`.
2. `SiteCache`, with the abstract `VersionHistory`; proofs in `SiteCacheProofs`.
3. `KuboManager`; proofs in `KuboManagerProofs`.
4. `Checkpoints`; proofs in `LightClientProofs`, for its tasks are log lines of the client.
5. `ConfigStore`; proofs in `ConfigStoreProofs`.
6. `SystemSetup`; proofs in `SystemSetupProofs`.
7. `RequestHandlers`, composed of `Contenthash`, `EnsLookup`, `LocalRequest`, `SiteRequest` and
   `Web3Request`: a request from its path to its answer; proofs in `RequestHandlersProofs`.
8. `HttpsServer`, with `LocalHosts`: what comes before the request; proofs in
   `HttpsServerProofs`.
9. `Desktop`, composed of `GasTray` and `RpcProxy` over `LiveConfig`; proofs in `DesktopProofs`.

No module that is proved about uses a RECURSIVE operator.

## Modules

**HeliosRuntime.** A client generation is a number; restart `k` builds generation
`k` and is a task with a pc (`task[k]`). Each atomic load or store another task can
see is an action: `WatchSynced`/`Publish` are the store of `current_client_synced`,
the bump of `sync_epoch` and `notify_waiters` one by one, `TakesRestart` the
`compare_exchange`, `Registers`, `Recovers`, `Awaits` and `Wakes` the loop of
`wait_for_sync_after`. `notified()` of Tokio is modelled by what it guarantees: a
waiter sees each `notify_waiters` call after it was created (`seen`). The Helios
library is external: a client may sync at any time or never, build or fail. Errors
of a lookup are told apart by the four classes the patterns of `ens.rs` tell apart.
`raced` is a ghost.

**HeliosHandover** is the promise: one holder of the restart at a time, in order,
and the server handle passes from the old generation to the holder's, with nothing
in between. Refinement: the holder is the restart in flight.

**LightClient** is what the requests see of the runtime: whether there is a client
(`helios_enabled` of the settings), `helios_has_synced`, and whether the current client is
synced. `HeliosRuntime` implements it (`Flags`, part of `Promises`), and the
request handlers, which are modelled over it, do no more to it than it says
(`HandlersKeepToLightClient`). It makes one thing visible that the flags themselves hide: the
monitor of the first sync raises `helios_has_synced` before the runtime's own flag.

**SiteCache.** One site. Each call to Kubo (`files/ls`+`stat`, `files/cp`,
`files/rm`, `files/write`, `pin/add`, `name/resolve`) is an action of a handler, of
the follower, or of the dashboard. `LatestEntries` is nondeterministic because an
entry whose `stat` fails is passed over. A name (IPNS) resolves to any content each
time. `cleared` is a ghost. Access dates, sizes and the order of the listing are
left out.

**VersionHistory** is the promise: versions are added under free seconds, never
changed, and go only by a clear.

**KuboManager.** Runs of the program follow each other; daemons are numbered and
belong to the run that spawned them. The toggle is two actions under the mutex (kill
and take the old, spawn and store the new); `stop()` is one, and waits for the
mutex. `Aborts` stands for every end without `stop()`.

**Checkpoints.** Its definitions have names of their own (`CheckpointInit`, `CheckpointTypeOK`),
for `LightClientProofs` extends it beside `HeliosRuntime`. Tasks push under the lock, then truncate and write the file outside
it. A write over another task's longer copy leaves a tail that does not parse.

**ConfigStore.** The form (`form`, `initial`, `timer`, `status`), posts in flight with
the handler's steps, and the four copies. A configuration is told apart by the two
settings with a copy of their own. The page is not reloaded while a post is under
way, and the check of empty RPC lists is left out.

**SystemSetup.** Linux. The certificate files (an intermediate stands for two
intermediates and their keys) carry the generation that made them. A root command
(install or uninstall) and the app each have a pc; any step may be the last of its
process (`RootFails`, `AppEnds`). Commands of the user do not overlap with each
other or with the start of the app. The macOS variants, the CLI link, and the
certificates of single hosts are left out.

**RequestHandlers** composes the two handlers of the HTTPS server that look names up,
with the light client behind them. `Contenthash` is the codec: bytes are octets of a
small width, `decode_varint` the turns of the loop over them (`Turns`, a recursive function), and `inspect_contenthash` what a payload
means. `EnsLookup` is one lookup (`lookup_contenthash_record` and the address of a web3
host): the registry walk, the resolver, the redirects to CCIP-read gateways, the attempts
and their delays. An error is a record of what the patterns in `ens.rs` tell apart; they look for
words anywhere in a message, and what the chain or a gateway answered, or a requested path, is
part of it, so that any failure may be any of these records. `SiteRequest` is what `proxy_request` in `ens.rs` does with the
outcome: redirect, fallback, wait, update, proxy to Kubo. `Web3Request` is
`proxy_request` in `web3.rs`: a path is bare, short, canonical, or an encoded `web3://` URL of
one or more layers, since the authority of a URL may be an encoded `web3:` again and each redirect
decodes once; `LocalRequest` holds what the two share. The cache's own steps are those of
`SiteCache` and one outcome here; the light client is `LightClient`, so that a restart of
`HeliosRuntime` is a change of its flags here. Access dates are left out.

**LocalHosts** reads a host, a sequence of labels, in the four ways the program does: the
DNS server, the router, the check of origins, the choice of a certificate. A name may be spelled
with the root's dot (`name.eth.`, an `EmptyLabel` first): DNS and TLS make no difference
(`ServerName`), the Host header keeps it, and the router compares it as it is. Names with other
empty labels (`name..eth`) are no DNS names and are not looked up.
**HttpsServer** adds the connections: name, handshake, request, answer. A wildcard certificate
is a file that is absent, empty (truncated) or whole; `damaged` and `excused` are ghosts.
What a browser accepts (`Covers`) and that axum refuses large bodies (`RpcTooLarge`) are
external. The router goes by the Host header, which a client may leave out.

**Desktop** composes the poll and the tray (`GasTray`) with the RPC proxy (`RpcProxy`) over
the settings in memory (`LiveConfig`, whose steps are the last two of `ConfigStore`'s
handler). A label is told apart by the server it came from, so that "the price comes from the
settings of now" can be said; ticks are steps and the 15 seconds end at any time. A tick of
the tray is one step, as its thread reads the flag once. Both calls of a poll to one server,
and both protocols of the proxy, share their steps. `asked` and `listed` are ghosts.

The MC modules only add bounds, symmetry sets and, for `MCSiteCache`, a VIEW that drops
variables no step and no property of that run reads.

## Runs

| Run | Asks | Result |
|---|---|---|
| `helios_runtime` | `RestartExclusive`, `NoOrphanServer`, `NoLostWakeup`, `SyncedFlagIsCurrent`, refinements `Promises` (of `HeliosHandover` and of `LightClient`) | hold |
| `helios_liveness` | `RestartSettles`, `LookupReturns`, `FollowerRuns` under `FairSpec` | hold |
| `site_cache` | `NoRepeatedVersion`, `NewVersionIsNewest`, refinement `HistorySpec` | hold |
| `kubo_manager` | `NoLostDaemon`, `FlagTellsMode`, `StopLeavesNothing` | hold |
| `checkpoints` | `NoEchoes`, `FileKeepsUp` | hold |
| `config_store` | `Agreement`, `BelievedIsStored` | hold |
| `settings_saved` | "Settings saved." means the settings shown are stored | violated |
| `system_setup` | `CertsBelongTogether`, `ServesWhatIsInstalled`, `UninstallLeavesNothing`, `RelaunchesOnce` | hold |
| `system_installed` | "system integration installed" means the names are routed | violated |
| `requests` | `PrefixDecodesExactly`, `ResolutionIsTrue`, `AnswerOutranksCache`, `RedirectsSettle`, liveness `RequestAnswered` | hold |
| `https_server` | `ResolvedIsServed`, `ServedPagesReadRpc` | hold |
| `desktop` | `NoServerSkipped`, liveness `TrayFollows` | hold |

Each run also checks its module's `TypeOK` (`CheckpointTypeOK`) when it passes, `helios_liveness` excepted. The two violations are
the entries of `findings`, each with the line of code and the text it contradicts.

`PrefixDecodesExactly` compares the codec's loop with the number the groups spell for payloads at its
boundaries: empty, cut off, too long, and with a last group that does not fit the width. `ResolutionIsTrue` says that what is reported of a lookup (which resolver, whether
through a gateway) is true of the attempt that found the record. `AnswerOutranksCache` says
that the cache answers only for failures. `RedirectsSettle` says that each redirect within the
gateway leads to a path that is redirected fewer times than the one asked for, and that names the same contract,
chain and page: a browser that follows them comes to an end, and to what was asked for. `RequestAnswered` says that no chain of redirects,
attempts and waits goes on for ever.

`ResolvedIsServed` relates the DNS server to certificates and routing: a `.eth` or `.wei`
name the one answers is certified, and served by the site handler. It excepts from the first
what the code leaves open: names two labels below the registered one, which no wildcard
covers; files that cannot be made or read; and a wildcard file read while another handshake
writes it, or after a write that was cut off. The last is never repaired: `ensure_certs` looks
only at the base certificates. From the second it excepts exactly the spelling with the root's
dot, which resolves and is certified, and which the router answers as an unknown host.
Names below `.eth.localhost` are routed, and allowed as origins, but have no certificate.

`FlagTellsMode` says of a managed daemon that the flag the tray shows is the mode of the
daemon started last: after a toggle that failed, or a daemon that died, the next toggle asks for
the mode that is not running yet. `FollowerRuns` says that the following loop runs from the first sync on,
and ends for good when the monitor of that sync fails, rather than wait for ever.

**Qualified properties.** Some properties hold only where the code gives them, and
say so by a ghost: `SyncedFlagIsCurrent` excepts a restart taken between the two
stores of the first-sync monitor (`raced`), a true race of the code; `Agreement`
speaks of posts that did not overlap (`quiet`), for overlapping posts do disagree;
`FileKeepsUp` of a task that had the file for itself (`apart`);
`ServesWhatIsInstalled` of an app no command was run beside (`untouched`);
`NoRepeatedVersion` and `NewVersionIsNewest` of sites nothing was cleared from
(`cleared`). The races themselves are in the runs, and the hazards that name them say so in a
note: these properties show what holds beside a race, not that it does no harm.

**Bounds.** Two lookups and two restarts are the least in which restarts compete, a
stale monitor meets a new client, and a second restart meets the first one's
server; liveness uses one lookup, since no step of a lookup waits for another lookup. `SiteCache` has one
handler beside the follower (two writers), two contents, two seconds and one probe
beyond the clock, which is enough for a taken second, a full probe and a
borrowed second; the proofs cover more. `KuboManager` has three runs and four
daemons: an orphan, its adopter, and a toggle. `Checkpoints` has three tasks,
three hashes and a capacity of three, so that the history is cut, hashes come back,
and two writers overlap while a third waits. `ConfigStore` has two posts.
`SystemSetup` has two ports, so that the default may be taken, and three
generations of certificates. `requests` has the code's numbers of attempts and
redirects, and lags on either side of its limits; groups of bits and the accumulator are cut
to 2 and 7 bits, so that the width overflows within short payloads, and a path has at most two layers of
`web3://` URLs (`MaxLayers`), so that a redirect leads to another one. `https_server` has two connections, one of which goes
on to requests, since only handshakes share state; its hosts are one of each kind the four
readings tell apart, spelled with the root's dot and without. `desktop` has two servers and three configurations (two servers, one
of them, none with the price hidden), and a channel of one label: the tray drains it whole,
so a second label would only replace the first.

**Fairness** is used in three runs. In `helios_liveness` Tokio runs every task that is ready
(weak fairness of each task's own steps, one conjunct per task); a resolution
returns; a wait has a timer. `wait_synced` of
Helios is given no fairness: nothing in the repository bounds it. That is why
`RestartSettles` excepts a restart that watches its client. In `requests` the handler
goes on as long as it can (each of its calls returns). In `desktop` the timers
fire and calls that fail return (weak fairness); a price and an icon are strongly fair, for "the tray follows the
settings" can only be asked of servers that answer, and icons that are drawn, some time.
That calls return is an assumption on the other side: the HTTP client is made without a
timeout (`main.rs:337`), and a server that accepts a request and stays silent holds a poll
or a request as long as it likes.

**Deadlock** is checked in every run. The components never stop on their own: a
waiting user may always act.

## Proofs

`LightClientProofs`, for every set of lookups and every number of restarts:
`TypeCorrect`, `ExclusiveRestarts`, `NoOrphans`, and `ImplementsHandover` (every
behaviour of the runtime is one of `HeliosHandover`). The exclusion of restarts is
not inductive: that the port is free when a new server is built depends on where
the restart in flight is. `IInv` therefore joins the types, that restarts are taken
in order, the exclusion, what each step of a restart knows of the handle and the
port (`ServerAt`), and that the epoch counts the generations that bumped it
(`Counted`), which bounds it. `NextCases` groups the steps, `TypesStep`,
`ExclusiveStep`, `ServerStep` and `CountedStep` preserve one part each, and
`Inductive` joins them.

`SiteCacheProofs`, for every set of handlers and contents, every clock bound and
probe limit: `TypeCorrect`, `NoRepeats`, `NewestWins`, and `ImplementsHistory`.
`NewestWins` is the deep one: an update takes the first free second from the clock
on, while others store, and its version is still newer than the one it compared.
The reason is `Gapless`: from the clock on the taken seconds have no gap, until
something is cleared; and `Ahead`: every second between the clock, the version
compared and the second tried is taken. `IInv` is `TypeOK`, what each pc says of
its locals (`Known`), and these two unless something was cleared (`Fresh`).

`KuboManagerProofs`, for every number of daemons and runs: `TypeCorrect`,
`NoDaemonLost`, `FlagIsMode`, `StopIsComplete`. The two invariants need three more
facts: what a starting program has not touched (`Starting`: no child and no manager, so that an
adopted node is never taken for one), that the tray holds the mutex exactly while
there is no child, and only over a daemon whose mode the flag tells (`Holding`, which keeps
`stop()` and a toggle apart), and that no daemon belongs to a run still to come (`Owned`).

Of `Checkpoints`, in the same module, for every capacity and set of tasks: `CheckpointTypes`,
`NeverEchoes`, `FileIsHistory`. `PushedShape` says what a push does to the history, position by
position; `Alone`, what a task that has the file for itself knows of it.

`ConfigStoreProofs`, for every number of posts: `TypeCorrect`, `CopiesAgree`,
`FormBelievesStored`. That the copies agree between two posts is inductive only together
with what a post under way has changed so far (`CopiesAt`: at `reverting`, say, the autostart
entry is ahead of the file, and the tray's flag is not), that a quiet post is the only one, and that
each post carries a configuration and the one to revert to (`Carried`).

`SystemSetupProofs`, for every set of ports and number of generations: `TypeCorrect`,
`CertsTogether`, `ServesInstalled`, `UninstallClean`, and the action property
`RelaunchedOnce`. `CertInv` says what the certificate files can hold wherever their making or
removal was cut off: all of the newest generation or empty, none empty once the version is
written, and no gap while a set is made; that the version is written last is what makes a
complete set of one generation. `Alone` keeps a command and the app apart; `Secured`,
`Trusted`, `Routed`, `Capable` and `Removed` are what each process may rely on at each of its
steps, so that its last step delivers the property.

`HttpsServerProofs`, for every set of connections and of hosts of any number of labels:
`TypeCorrect`, `ResolvedServed`, `RpcReadable`. Lemmas about hosts come first: what
`matches_zone` takes is none of the program's own hosts (`ZoneIsForeign`), is routed to the
site handler and has a wildcard pattern (`ZoneHost`), or is an unknown host when it is spelled
with the root's dot (`AbsoluteUnknown`); and its leaf covers it up to one label
below the registered one (`CertifiableCovered`). `HandshakeAt` follows a
connection to its leaf, `EmptyLeaf` says who is to blame for an empty file (a writer, or a
write that was cut off), and `RequestAt` relates an answer to its request.

`RequestHandlersProofs`, for every set of CIDs, payloads and lags and every number of layers: `TypeCorrect`,
`ResolutionTrue`, `AnswerOutranks`, `RedirectsSettled`. `LookupInv` says that at
the steps `resolve` and `decode` there was a redirect in this attempt exactly if a gateway
answered in it, and `SiteInv` that what a site is served of is the record just found, or the lookup
failed in a way that allows for the cache. `FailsWell`, `GoesWell` and `SucceedsWell` preserve
the lookup's part for the three ways in which a call ends, `LookupSound`, `SiteSound` and `Web3Sound` all of it.
`InspectIsRecord` holds of any bytes, whatever `decode_varint` makes of them, so that these four
do not rest on the codec. `RedirectTarget`, from `HandlerUnwraps` and `ShortUnwraps`, is the whole
of `RedirectsSettled`: a redirect takes one layer off, or adds the missing slash, and changes nothing else.

Of the codec, `PrefixesExact` says for every two widths and payloads of any length that a prefix
decodes to the number its groups spell and to the place after it, or is refused. It is an induction over the bytes. The
library's induction theorems take an operator, which the provers cannot instantiate; the
proof takes a least counterexample instead, from a set (`WFMin`; `SmallestIs`), and builds
the recursive functions `TwoTo` and `Turns` up from their beginnings (`TurnedSoFar`,
`TurnsExist`). `LoopInv` is the invariant of the loop: while every byte read continues, the value is what the groups
so far spell, cut at the width, and otherwise the loop has ended at the first that does not. `GroupsDisjoint` is its consequence that the code's
"or" adds.

`RequestsWindDown` is the part of termination that needs no fairness. `StepsLeft` adds up what a
handler may still do: the calls of this attempt by its step (`Calls`; a redirect to gateways is worth more
than all the gateways it may name), the attempts left, and the second lookup after a wait. Every
step of a handler lowers it, nothing the light client does changes it, it never exceeds
`6 + 2 * MostCalls`, and it is 0 exactly when nothing is handled. `LookupIsAsked`, that a lookup
runs exactly while a handler waits for it, is the invariant it needs. What TLC adds in `RequestAnswered` is only that a
handler that can take a step does.

`DesktopProofs`, for every set of servers, lists of any length and every capacity:
`TypeCorrect` and `NoServerIsSkipped`. The proxy reads the list once and pops it while saves replace
the one in memory: `RequestInv` says that the servers asked, the one being asked, and those that remain are the list
that was read, in order. The types need one fact more: a tray that shows the toggle has a manager of Kubo
to toggle (`TrayKnows`).

Of `HeliosRuntime` two more invariants and a second refinement are proved, each with an invariant of its own. For
`FlagSpeaksOfCurrent`, `SyncInv` says which client is current at each step of a restart, that the flag is
down from the step that clears it to the one that publishes the next sync, and that only older clients
are shut down. For `NoWakeupLost`, `WakeInv` says that a waiter whose recovery has happened
has been notified, or a task that stored the flag still owes the call. For `ImplementsLightClient`, `FlagInv` says that
the runtime's flag is only up once `helios_has_synced` is; a restart, which only a lookup after the first sync asks
for, cannot raise it before. `KeepsPromises` joins it with `ImplementsHandover`, and
`HandlersKeepToLightClient` is the other side of that interface.

The proofs rest on the assumptions on constants that the modules name, which TLC evaluates in
the runs. Looking for proofs changed the modules in four places. `ResolvedIsServed` was
false of names with an empty label, which the instance did not have; of these only the spelling with the
root's dot is a name that DNS knows, and hosts of that kind were added. `SystemSetup` did not say that an empty file is read neither as a
port nor as no file, nor that a first generation of certificates may be made. The
requests' own picture of the light client had both flags of a first sync raised in one step, which
`HeliosRuntime` does not implement: `LightClient` has two, and a state for a program without a client. And
`inspect_contenthash` is an IF now, which the provers read and a CASE with OTHER they do not.

## Only model-checked

- All liveness (`RestartSettles`, `LookupReturns`, `FollowerRuns`, `RequestAnswered`,
  `TrayFollows`): fairness and ENABLED are out of the reach of TLAPS. Of `RequestAnswered` the
  measure is proved (`RequestsWindDown`). Every invariant and every action property that a passing run
  checks is a theorem.
- The two violated properties, which TLC refutes.

## Known behaviour that no property forbids

Modelling met these; nothing in the repository's text promises otherwise, so no run
states them, and the hazards name the first three:

- A site's record is written before its content is copied (`ens.rs:286`); when the copy
  fails, later fallbacks name content that was never cached. Clearing one version
  (`cache.rs:217`) leaves the record likewise.
- A lookup that reads the sync epoch after a recovery waits for the next one
  (`ens.rs:889`), and then logs that Helios did not recover.
- Content of a followed site is pinned only by the pass that stored it (`following.rs:56`);
  `pin_content` resolves an IPNS name once more and may pin another content.
- A CCIP-read gateway that cannot be reached counts as an ENS backend that is offline
  (`ens.rs:789`): the cached record is served and Helios restarted.
- A lag of up to 300 seconds is retried and one of 3600 or more restarts Helios; a lookup
  that meets a lag in between does neither.
- A `resolveMode` call that fails for a moment (`web3.rs:185`) makes the contract's page be
  rendered in the default mode and sent as immutable.
- `dns_server.rs:66` answers NXDOMAIN to an AAAA query for a name it has an A record of.
- A web3 address that is encoded twice (`/web3/web3%3A%2F%2Fweb3%253A%2F%2Fname.eth%2F`) is redirected
  once per layer (`web3.rs:346`).
- `https://name.eth./` resolves here (`dns_server.rs:79`) and is certified, and is answered 404
  "Unknown host": `is_ens_host` (`http_server.rs:928`) keeps the root's dot.
- A message quotes what the chain, a gateway or a requested path says, and the patterns look for words anywhere
  in it (`ens.rs:784`), so that an answer can be taken for a failure of the light client (`ens.rs:1353`, `web3.rs:157`).
- A request over axum's limit is refused before `proxy_rpc` and without CORS headers.
- The clock set back (`ens.rs:458`) gives a newer version an older name; a site cleared while
  a request updates it comes back (`cache.rs:222`); a site unfollowed during a pass is still
  updated by it (`following.rs:40`); a form posted twice may be stored in either order
  (`App.jsx:2991`).

## Not modelled

ABI, base and URL encodings other than the prefixes of contenthashes (of a `web3://` path the layers and what it
names are modelled; the query, dot segments and the characters are not); the bodies the RPC proxy forwards, which no
step reads (one over 10 MB or cut off is forwarded empty, `rpc_proxy.rs:120`); posts of the settings that overlap in
`Desktop`, whose `LiveConfig` saves one at a time (overlaps are `ConfigStore`'s); the wording and layout
of error pages; the APIs that list cached sites, sizes, versions and checkpoints, which only
read; provider announcements, which change no state of the program; the macOS variants of
the set-up and of the tray; the pages of the dashboard other than settings. The site
directory (`apps.neomist.eth/`) is a separate JavaScript program with its own database, and
the packaging scripts run by hand.

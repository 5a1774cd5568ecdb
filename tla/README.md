# nyasniproxy in TLA+

nyasniproxy is a loopback proxy. Names of sites are put into the hosts file so
that they resolve to the machine itself; the program accepts the connections
on ports 443 and 80, reads the target from the TLS ClientHello (SNI) or the
HTTP Host header, looks it up in a routing table, and relays the bytes through
one of several upstream proxies. The table comes from a YAML file that is
watched, or from a URL that is polled. This directory models that program,
checks the models with TLC, and proves the most important facts with TLAPS.
Paths and line numbers refer to `src/` of the repository.

## Inventory

| component | code | state | operations |
|---|---|---|---|
| in-flight limiter | `reload.rs` 44-88 | an atomic counter | `try_acquire`, `count`, `Drop` of a guard |
| config fetch | `reload.rs` 24-160 | fetch threads, a oneshot channel each, a timer | `fetch_with_hard_timeout` |
| start-up and reload | `main.rs` 75-187, `reload.rs` 162-398 | published table (a `watch` channel), `last_yaml`, watcher and its event channel | `main`, `run_reload_loop`, `watch_file`, `poll_source`, `reload_once`, `apply_hosts`, `event_applies` |
| hosts file | `hosts.rs` | the file and its temporary file | `sync_hosts`, `write_atomic`, `replace_managed_block` and its helpers |
| router | `router.rs` | `Router`, `hostnames`, fingerprint | `Runtime::from_yaml`, `lookup`, `routing_fingerprint`, `connect_with_fallback` |
| connections | `main.rs` 202-239, 459-496 | a semaphore, a task per connection | `accept_loop`, `handle_connection` |
| relay | `main.rs` 498-551 | two buffers, two done flags, an idle timer | `copy_bidirectional_with_idle_timeout` |
| watchdog | `watchdog.rs` | time of the last beat | `beat`, `stalled_for`, `spawn_watchdog` |
| config | `config.rs` | a read buffer; the settings fixed at start-up | `parse_yaml`, `merge_settings`, `fetch_config_limited` |
| upstream proxies | `proxy.rs` | a handshake, a prefix buffer | `ProxyConfig::connect`, HTTP CONNECT, SOCKS5, `PrefixedStream` |
| target readers | `tls.rs`, `http.rs`, `target.rs` | a read buffer | `read_https_target`, `read_http_target`, `parse_host_port` |

How they interact. `main` fetches the first config through the limiter, binds
the listeners, syncs the hosts file, spawns the reload task and runs the two
accept loops. The reload task is the only writer of the table; connection tasks
read it through a `watch` channel, once each. Reload task and fetch threads
share the limiter and a oneshot channel per fetch. The file watcher's callback
writes into an unbounded channel that the reload task reads. The reload task
and the users of the machine both write the hosts file. Accept loops and `main`
beat a heartbeat that a thread of its own looks at. A failing `accept` ends
`main`, and with it everything.

What is hard about it:

- concurrency: guards dropped by threads against compare-and-exchange loops;
  edits of the file against debounce, drain and read; tables published while a
  connection falls back from hop to hop; users who edit the hosts file between
  its read and its rename;
- time: a hard timeout against a late answer, abandoned threads that hold
  their slot, an idle timer that is polled only between two copies, a watchdog
  that must tell a slow start-up from a stall;
- failure: panics and failed spawns, hosts syncs that fail or tear the file,
  kills between two file operations, lost file events, channels without
  receivers; and the restart after it, which finds the config as it is then and
  the hosts block an earlier life left, perhaps with other settings;
- order that nobody chose: the iteration order of a `HashMap`, the random
  branch of a `select!`.

What makes each component correct is the list of properties below; the list
`hazards` of `PROJECT.json` has the places in the code they are aimed at, and
those that no property covers, each with the reason.

## Modules

Core, one module per component:

- `SlotPool`: what the limiter promises, an atomic pool of slots.
- `InFlight`: the limiter as the code has it. `Load` and `CompareExchange` are
  the two halves of the loop in `try_acquire`, `DropGuard` is `Drop`; `pc` says
  where each caller stands and `cur` is its local copy. It implements
  `SlotPool` when the steps of the loop are hidden (`ImplementsPool`).
- `Fetch`: `fetch_with_hard_timeout`. The caller's future is `call` and `ret`,
  its receiver `rx`, the channel `chan`; `thr[t]` is a fetch thread from spawn
  to the drop of its guard. One action per step of either side: the thread's
  read of the source, its `tx.send` and the drop of its guard are three, and a
  panic drops guard and sender in two. A thread can hang and wake up. The
  source has a version, which is how staleness is measured.
- `Reload` extends `Fetch` with `main` up to the accept loops and with the
  reload task; `pc` is where that one flow of control stands. Actions of
  `Reload` call those of `Fetch` (`PollTick` is `interval.tick` plus `Call`),
  so the composition is the program's own. `ApplyHosts` is the effect of one
  `sync_hosts`, with its failures. `kernel` and `events` are the two queues
  between an edit and `watch_file`. Texts of the config are abstract: `Valid`
  (accepted by `parse_yaml` and `from_yaml`), `Starts` (accepted by
  `merge_settings` too), `Fingerprint`, `HostNames`.
- `HostsFile`: the text functions on sequences of tokens (marks, line ends of
  both kinds, a carriage return alone, lines), and `sync_hosts` / `write_atomic`
  one file operation a step, against kills, users, and failures: also of the
  operations whose errors the code ignores (the removal of the temporary file,
  `fs::metadata`). `unremoved`, `seenMode` and `fellBack` remember what happened
  in the present call.
- `Target`: `parse_host_port`, `format_target` and `is_valid_hostname` on
  sequences of characters, as functions.
- `Router` extends it: `ProxyConfig::parse` behind the URL parser, `from_yaml`
  as a walk of the rules in any order, `lookup`, and `routing_fingerprint` as
  the value that is hashed. `Requests` is what `parse_http_host` makes of a Host
  header, so that a request runs from its text to its list of proxies.
- `Settings`: `parse_yaml` on documents whose values have a type (what serde and
  the two visitors accept), and `merge_settings`: command line over YAML over
  default, as functions. An `Option` is a sequence of at most one element.
- `Lifecycle` extends it: lives of the program one after the other. The
  supervisor starts it with the same command line (`Start`), it reads the source
  in chunks with the limit of `fetch_config_limited` while others edit it (a file
  written over in the middle of a read turns into a text of both, `Overwrite`), fixes
  its `settings`, binds, syncs the hosts file and reloads, and may die between
  any two steps (`Exit` forgets everything but `document` and `blocks`).
  `blocks` is the managed block of each hosts file, `lost` remembers that a
  change of a watched file left no event behind. Reload loop and sync are
  coarser here than in `Reload` and `HostsFile`; configs, settings, blocks and
  listeners are as the code has them.
- `Server`: `accept_loop`, `handle_connection`, `lookup`,
  `connect_with_fallback`; `stage[c]` is where the task of connection `c` stands.
- `ClientHello`: `parse_tls_sni` on sequences of bytes, as one function.
- `Handshake`: the bytes of one connection from the first read to the relay:
  both readers of the target, `connect_with_fallback`, the CONNECT and SOCKS5
  handshakes and `PrefixedStream`. All a peer will ever send is a sequence
  (`client`, `reply`), `cpos` and `pos` say how far it has been read, and each
  read takes any number of bytes a read can return; so every way to cut the
  streams is covered, and a peer may close or fall silent after any byte
  (`HopFails`, `FirstFails`). `Server` has the same handler with one step for
  each of these phases, and many of them at a time; `ImplementsHandler` says
  that this is the same handler. `ServerStage`, `HopsLeft` and `HopsTried` map
  the one to the other; the table is one with these hops for every host, and
  the host is the one the client means.
- `Relay`: both arms of the `select!` are one action with a direction; `inp`
  and `out` are the socket buffers.
- `Watchdog`: clocks as ages in ticks of a second.

`MC*` modules and `.cfg` files give the constants their values.
The `*Proofs` modules hold the proofs. Operators named `Mutant of ...` in a comment are faulty variants of the
definition after them; the property they are paired with in `PROJECT.json`
fails when they take its place.

## Runs

| run | question | bounds |
|---|---|---|
| `in_flight` | is the loop of `try_acquire` an atomic pool? | 4 callers, 2 slots: both sides of the limit are contended |
| `reload_poll` | do slots balance, are late answers harmless, do table, `last_yaml` and hosts file stay in step under every failure, and does polling heal? | 2 threads and 2 slots (two abandoned fetches fill the limiter), 2 versions of the source, texts valid / same route in other case / refused at start-up only / bad |
| `reload_watch` | is an edit ever lost between event, debounce, drain and read; does the loop come to rest, does every fetch return? | 1 thread and 1 slot (skipped reloads need no more), 3 versions: an edit during the reload of another, and back to the first text |
| `relay` | bytes, ends, half-close, idle timeout | 2 bytes each way, 2 fit in front of the relay and in its buffer, 1 behind it: a block of 2 takes two writes and waits for the peer in between; the shutdown towards one peer writes (TLS) |
| `hosts_file` | is a sync stable, does it keep what it does not own, is it safe to kill, what becomes of permissions and temporary file when an operation fails? | every text of up to 3 of the 7 tokens plus longer ones with a block, 2 syncs, 1 edit of text or permissions |
| `handshake` | does any outcome depend on how streams are cut into reads; does each peer get exactly the other's bytes; is this the handler `Server` has? | reads of 1 to 3 bytes, against parts of 1 to 19; limits of 7 and 70 with streams on both sides of them; 5 hops of all kinds; about 30 client streams and 35 answers, well-formed and not |
| `server` | permits, one table per connection, no client left waiting | 2 connections for 1 permit, 2 tables with different hop lists, one of them empty |
| `watchdog` | stalls noticed in time, no false alarm | the constants of the release build: 30 s, 1 s, 1 s, 15 s |
| `router` | do acceptance, routing and fingerprint depend on the order of the `HashMap`, or routing on how a host is written? | 2 builds; up to 4 keys with two spellings of one name, 9 host names that are not, an unknown proxy, 7 proxy URLs good and bad; 45 Host headers with ports at the edges of `u16`, signs, brackets, dots and capitals; `MaxName` and `MaxLabel` of a few characters, reached and exceeded |
| `lifecycle` | what do a death and a restart, or a changed setting, make of table, block and listeners; what of a text that is edited while it is read; does service come back? | watched file, polled file and URL; 3 command lines; 5 documents: at and beyond the size limit (2), with the host of the config URL, with settings that only a start looks at and no site (as one not yet saved to its end), with the same routing in other case; and a text, not UTF-8, that only a read amid an edit finds; any number of edits, failures and restarts until `calm` |

Properties, by run: the comments at their definitions state each in words.
Deadlock checking is off where the system may come to rest (all edits made, all
connections closed, process ended). Bounds that are not the program's own are
constants whose declaration says `bound:` (`MaxVersion`, `MaxEvents`,
`MaxBytes`, `RecvWindow`, `SendWindow`, `MaxCalls`, `MaxEdits`, `MaxLen`).

Two runs show where the program does not do what its documents or tests say:

- `relay_idle`: a relay without traffic ends with "relay idle timeout" (test at
  main.rs:293). While it is inside `write_all` or `shutdown` the timer is not
  polled, so a peer that stops reading keeps relay and permit for ever.
- `hosts_marks`: the sync "leaves the rest of the file unchanged"
  (README.md:82). With a stray END mark in front of a complete block, it cuts
  off everything behind the block. (A BEGIN mark without any END is treated so
  on purpose: test at hosts.rs:177.)

More divergences are visible in the models without a run of their own: "Local
files are watched and reloaded on change" (README.md:65), but the watcher is
registered after the first read, so an edit in between has no event and is not
in force until the next one (`Edit` before `SpawnLoop` of `Lifecycle`, which
`BackInService` has to exempt as `lost`); a running program accepts a config
that its own restart refuses, because a reload does not call `merge_settings`
(`RestartRefusedOnlyFor` says when); a block an earlier life left can keep the
next one from fetching its config at every restart (`Hairpinned`; README.md:78
warns of it); with two
keys of `rules` that differ in case only, route and fingerprint depend on the
order of the `HashMap` (`FingerprintExact` excludes them), though the same text
polled again should be unchanged routing (test at reload.rs:665); a ClientHello
that goes on in a second record is awaited until the timeout (`ParseTlsSni`);
a second fetch starts while a previous one is in flight (README.md:72-73 says
polls are skipped then; the limit is two); the slot of an answered fetch may
still be counted when its call has returned (`Send` comes before `DropGuard`),
which the test at reload.rs:576 rules out; a line the user adds to the
hosts file between `Read` and `Rename` of a sync is lost; and so are permissions
the user changes between `CopyMode` and `Rename`, or all of them if `fs::metadata`
fails (`CrashKeepsWhole` says when permissions change); a temporary file that
cannot be removed stays, and the call does not say so (`NoTempLeft`). A hosts file
without CRLF whose last line ends in a carriage return gets its first CRLF from
the line feed the sync pushes behind it, so that the next sync rewrites the block
with CRLF; the one after that finds nothing to do (`TurnsCrlf`, `SecondSyncQuiet`).
A config file that is saved in place can be read and used half saved;
`WholeText` says that it is then read again.

## Fairness

- `Reload`: the executor runs the task and its timers, threads that are not
  hung make progress, the watcher delivers events. Nothing is assumed of users
  or of a hung fetch. Failures may happen until `calm`; `PollConverges` and
  `EditNoticed` speak of what follows. `PollConverges` assumes that hung threads
  leave a slot free: two fetches that hang for ever do stop all reloads.
- `Relay`: weak fairness of the task and of time, strong fairness of the
  branches of the `select!`, which starts with a random one. `DrainSpec` adds
  peers that go on reading; without it (`relay_idle`) the idle timeout fails.
- `Server`: the timeouts of the handler fire; clients need not speak and relays
  need not end.
- `Lifecycle`: the supervisor restarts what ended (README.md:76), the executor
  runs the task, a fetch ends (its hard timeout), the timer or the watcher wakes
  the loop. `BackInService` speaks of what follows once nothing fails and no one
  edits (`calm`), of a config the start accepts and can reach.
- `Watchdog`, `Handshake`, `Router`, `HostsFile`, `InFlight`: safety only, no fairness.

## Proofs

- `InFlightProofs`, for any finite set of callers and any limit: type
  correctness, `CountIsGuards`, `CapHolds` (which no run lists, as `SlotPool`
  implies it), and that the loop implements
  `SlotPool`. `CapHolds` is not inductive: a caller about to exchange must have
  read a value below the limit (`CasBelowMax`), and the counter must be exact,
  so that a successful exchange is a `Grant` of the pool. A load that sees a
  full counter is a `Refuse`; other loads and failed exchanges stutter.
- `ReloadProofs`, about `Fetch` alone, for any finite set of threads, any limit
  and any texts: types,
  `SlotAccounting`, `FreshAnswer`, `AnswerStillComing`. The invariant adds who
  waits for whom (`Waiting`: the caller has a receiver exactly while it awaits,
  a thread that fetched has a result) and that what is on its way to the caller
  was read after the call began (`FreshOnTheWay`). Counting is by the lemmas
  `ThreadAdded`, `ThreadRemoved`, `ThreadKept`.
- `ReloadProofs`, about `Reload`, for any texts, fingerprints, host names, files
  and URLs, and any finite set of threads: `Spec => FetchSpec` by inclusion of the variables
  (`StepsFetch` takes each action of the program to an action of `Fetch` or to a
  stutter), so `FetchInv` holds in the program too; `TableMatchesYaml`,
  `ReloadTypeOK`, `HostsMatchYaml` and `TableAdvances`. `TableAdvances` rests on `History` (a
  version is one text, none is newer than the source; a step of `Fetch` makes no
  config but a new source, `NothingElseKnown`) and on a chain of versions:
  `table` and `last_yaml` route alike, `last_yaml` is no newer than the source
  was when the poll began, and what the poll returns is at least as new as that
  (`FreshAnswer`). The two can be equal only for the same text, and then
  `routing_changed` is false and nothing is published.
- `ServerProofs`, about `Server`, for any finite set of connections, any number of permits and
  any tables: `PermitsAccounted` by counting the live tasks (each end of a task
  removes one and adds a permit), `OneTable` from the history of tables. And
  about `Watchdog`, whose pulse runs beside the accept loops, for any times with
  the order `TimeAssumption` asks for: `DetectedInTime` and `NoFalseAlarm`, from
  an invariant that relates the age of the last beat to the watchdog's sleep,
  the phase and the time spent stuck.
- `RelayProofs`, for any number of bytes and any windows: `BytesConserved` and
  `EndAfterAllBytes`. The invariant says where the bytes of a direction are (the
  received, the buffer behind the relay, the block in `write_all` behind the
  part already written, the buffer in front, the rest), that a block is only
  held in the arm of its own direction, and that a done flag is set only after
  the last read.
- `HostsFileProofs`, for any texts: `NoTempLeft` and `CrashKeepsWhole`, from what
  each step of `write_atomic` knows of the temporary file, of the file it
  read and of the permissions it found; both are conditional on what the code
  leaves to chance (a removal that fails, permissions that could not be looked
  up). `SecondSyncQuiet` follows from the type invariant and `Idempotent`: what a
  sync writes is a text p, the block, a text q, where p has no BEGIN and, if p
  has an END, q is empty (`UpdatedShape`), and such a text is not changed by
  another sync (`ReplacedBySame`), which takes its line end from it
  (`SameNewline`), unless the line feed behind the last line made the first CRLF
  (`LineEnded`); a text with a block never does that. The first mark of a text exists by well-founded choice
  (`FirstPlace`). The address lines must not be marks (`NamesAssumption`).
  `KeepsRest`, for any text whose marks are in order: such a text is a text p, at
  most one block, a text q, with no mark in p and q (`OneRegion`), the search of
  the code finds that block (`RegionFound`), and the user's lines are those of p
  and q before and after (`UpdatedKeeps`). That no mark is lost or added is
  counted (`PlacesCount`, `Shifted`).
- `RouterProofs`, for any configs, keys and proxies, and every order of the walk.
  The invariant (`RouterInv`) says of the walk so far what the code's map holds
  (`WalkRight`): of a name in two spellings the rule walked last, each host name
  once, the missing default only if none was walked; of each result, that it
  comes of a whole walk (`Built`); and of the verdict, that it is that of the
  config (`GoodYaml`). `FingerprintExact` is about the sort: the keys ahead of a
  key, counted, are its place, all places are taken (an injection of a finite set
  into itself), and the last key walked with a name is the last one with it in
  the sorted rules (`LastInSort`: the sort is stable). So the sorted rules tell
  the routing (`AllIsTold`), and the same keys in another order sort to the same
  (`SortSame`). `AcceptedIffGood` is proved given that `HostKey` names the valid
  host names (`HostKeysHold`), `RoutesAsWritten` given that the parser reads each
  Host header as it is meant (`ReadsAsMeant`): both are statements about the text
  functions of `Target` on the instance's texts, which the run evaluates; the
  theorems show that nothing behind them depends on the order, the size or the
  content of a config, and that `lookup` undoes any number of dots (`TrimDotsIs`).
- `HandshakeProofs`, for any streams, limits, hops and sizes of reads: the type
  invariant, `TargetRight`, `VerdictRight` and `StreamsExact`. The invariant
  (`HandshakeInv`) says what a reader holds at each stage, that it is the part of
  the stream read so far and that it did not yet tell a target (`ClientSide`);
  which hop is being tried and how much of its answer is consumed (`HopSide`);
  and where in a SOCKS5 answer the program stands (`Exchange`: what the server
  consented to, what it granted, where the address begins). An answer is judged
  as a whole by `SocksLength`; that the program, byte count by byte count, comes
  to the same end is the proof of `VerdictRight`. What a first message means is
  given by `MeantAssumption`: the whole message says it and the message without
  its last byte says "more". TLC evaluates it on the streams of the instance, so
  that the parsers read whole messages rightly stays model-checked, and the
  theorem is that cuts, limits and hops change nothing.
  `ImplementsHandler` joins it to `Server`: every step is one of nine ways to
  move (`Moves`: read on, find a target, talk on, fall back, ...), and what
  `Server` sees of each is a step of its handler or nothing (`MovesSeen`). It
  needs `TargetRight` (the hops looked up are those of the host that is meant)
  and `HandlerAt` (no hop is passed over before there is a target, and none that
  was accepted is tried again). Handlers share nothing but permits
  and table, so what is proved of many of them in `Server` (permits come back,
  one table serves a connection) rests on steps the byte-level handler takes. `Server`'s last step, the end after all hops failed, is in
  `Handshake` the same step as the failure of the last hop: it stays to be taken.
- `LifecycleProofs`, for any documents, command lines, limit, addresses and
  hosts files: `BlockIsOurs`, `BlockBacked`, `WholeText`, `RestartRefusedOnlyFor`.
  None is inductive. The invariant adds which listeners each stage has
  (`BoundAt`), what has been read at which stage (`TextAt`: behind the fetch the
  text was read to its end and is good, and one that differs from a watched file
  left an event or was lost), that the settings are those of a good config and of
  this command line (`SettingsFrom`), that `table` and `last_yaml` route alike
  (`SameRouting`; the names of hosts are then the same but for case,
  `SameHostNames`), and what a sync that succeeded left in the file (`SyncedAt`).

Assumptions are the named `ASSUME`s of the modules; TLC evaluates them in each
run. The type invariants of all modules with a state are proved, `Router`'s as
`StagesRight` and `ResultsRight`; those no run lists are conjuncts of the
invariants proved. The inductive invariants were model-checked on instances of
the runs, `RouterInv` on smaller ones.

Only model-checked: liveness (`PollConverges`, `EditNoticed`, `WatchQuiesces`, `CallReturns`, `Delivered`, `IdleCloses`, `Answered`, `SetupEnds`,
`BackInService`, under the fairness above), which the prover cannot
reason about; and what a text function computes for every input (`ParsePort` and
`Decimal` in `ReadsAsMeant`, `ParseTlsSni` in `MeantAssumption`), which needs
induction over the text.

## Not modelled

- The text form of YAML and of URLs (serde_yaml, the url crate): a document is a
  record of typed values, a URL its scheme, host and port. `ConfigSource::parse`
  is the choice of `kind`. `warn_ignored_runtime_changes` only logs.
- `http_client` and `prepare_source`: library set-up and a canonical path.
- The messages the program sends to a proxy (`toProxy` begins behind them), the
  TLS session with an HTTPS proxy, UTF-8 of names (a token or a host without
  spelling; lengths of hosts are in characters).
- Collisions of the 64-bit fingerprint; sizes in bytes beyond the socket buffers
  of `Relay`.
- A body of the config URL is one version, whatever the server does meanwhile;
  in `Reload` a file is, too (`Fetch` reads at one moment). In `Lifecycle` an edit
  of a file in the middle of a read gives any text of the size the read will
  find.
- The flush of a TLS session after `write_all` (main.rs:533 has none): bytes that
  wait in rustls until the next write or the shutdown are in `out` of `Relay`
  already, as if they were on their way. `Delivered` holds without them for the
  reason that a relay may end by its idle timeout.
- A write that fails in the middle of a token (half a mark, half an address line).
- A sync of `Lifecycle` is one step; a torn one is in `HostsFile`. A block in a
  hosts file that the settings no longer name is never removed: the code has no
  removal, and `BackInService` speaks of the file in use only.
- Command line parsing, logging, build files.

Where the code takes odd Host headers as they are: in `n:` the colon stays in the
host, `:80` and `[]:80` mean an empty host (routed by the default), and
`[[::1]:443` gives a host that does not come back from `format_target`. No test or
document says what these should mean; `Written` in `MCRouter` leaves them out.

## State of the plan

Done: all components that have a state or compute something, composed as
`Fetch` in `Reload`, `Settings` in `Lifecycle`, `Target` in `Router`,
`ClientHello` in `Handshake`, and `Handshake` as the handler of `Server`; the
proofs above. Left:

1. A composition of `Reload` and `Server`, for the window in which the hosts
   file names a host the table does not know yet.

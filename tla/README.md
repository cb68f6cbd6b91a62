# TV Proxy: formal models

TLA+ models of TV Proxy, an Android TV app that routes the whole television through the proxy core
mihomo (a Go library carried in the repository and reached over JNI). The modules are translated from
the source; `PROJECT.json` maps every definition to the lines it stands for. TLC checks small
instances, TLAPS proves every invariant and action property they check for every size; liveness stays with TLC.

Everything runs inside this directory: `tlc -config ProxyControl.cfg MCProxyControl`,
`tlapm ProxyControlProofs.tla`.

## 1. The system

Paths: *app* is `app/src/main/java/com/tvip/proxy`, *native* is `core/src/main/golang/native`, *core*
is `core/src/foss/golang/clash` (mihomo), *Kotlin core* is
`core/src/main/java/com/github/kr328/clash/core`.

| Component | State | Operations | What makes it correct |
| --- | --- | --- | --- |
| `ProxyService` (app) | the service's life, its coroutine scope, the last status | the intents START, STOP, IMPORT, each a coroutine on `Dispatchers.IO`; `onDestroy` cancels them | a command settles as it announced; the service lives while the TV is routed through it |
| `ProxyManager` (app) | `httpStarted`, the five keys in `Settings.Global`, which outlive the process | load, bind, write the keys; clear, unbind, clear again | keys and flag agree; no key survives a clearing pass |
| HTTP listener (native `proxy/http.go`) | one listener under a lock | `Start`, `Stop` | the system proxy points at a port somebody listens on |
| Listeners of a configuration (core `listener`, `hub/executor`) | the listeners of the profile | `ApplyConfig` recreates them | they share port 7890 with the one above |
| Profiles (native `config`) | `config.yaml` on disk | `FetchAndValid` truncates and rewrites it, `Load` reads it | every call completes its callback |
| TUN bridge (native `tun.go`, `app/tun.go`) | the installed device, a semaphore, two function variables, a global reference to a Java object | `startTun`, `stopTun`, `markSocket`, `querySocketUid` | no call through a deleted reference, none leaked, no deadlock |
| Log (core `log`, `common/observable`, native `log.go`) | the channel of events, subscribers with bounded channels | log calls, subscribe, unsubscribe | every event once and in order; the log never stops |
| Node selection (`ProxyManager`, native `tunnel`, core `outboundgroup`) | the selection of every group, the saved node, open connections | list, select with cascade, restore | traffic goes where the user pointed it |
| Dashboard (`MainActivity`, `NetworkDiagnostics`) | the newest test, a waiting retest, the cards, the status line | tests, retests, clicks, life cycle | the newest test is shown and every test ends |
| JNI bridge (`core/src/main/cpp`) | global references | calls into Java and their release | used as `GlobalRef` says |
| Boot receiver, `SettingsStore`, `TvProxyApp` | preferences | START at boot | a boot is one more START |
| Names (core `dns`, `common/singleflight`) | a cache that answers with what has expired, the exchange that runs for a question | queries, background fetches, retries, queries that give up | answers do not go back; nothing stays out of date |
| Fake addresses (core `component/fakeip`) | a bucket of the cache file that outlives the process; a pool per configuration | lookups, a new pool per parsed configuration | an address leads back to its host; the oldest is reused |
| Groups that measure (core `outboundgroup`, `common/singledo`) | a cached list of nodes, the node chosen last, the node the user fixed | dials, updates of the provider, resets | the list is not out of date; the user's choice counts |
| Providers (core `component/resource`, `adapter/provider`) | a hash, an entity tag in the cache file, a file; the check that runs | the pull loop, updates of the user, health checks | what is shown is current, and on disk |
| OpenVPN control channel (core `transport/openvpn`) | numbered messages, acknowledgements, a receive window, key epochs | packets, retransmission, soft resets | every TLS session reads its own stream, in order and once |
| Queries and overrides (native), traffic codec, glue, the common module | | | conversions and single assignments, see section 6 |
| The rest of mihomo | | | see section 6 |

How they interact. Inside the core, a lookup of a fake address, a dial through a group, the update of a
provider and a DNS query run in goroutines of their own and meet in what they cache; a configuration that
is parsed, if only to validate a profile, makes another pool of fake addresses on the same bucket.

The main thread sends intents to the service and calls `listNodes`/`selectNode`
directly. Each intent runs in a coroutine of its own, beside the others: nothing serialises START, STOP
and IMPORT. A coroutine waits for a goroutine through a completable; when it is cancelled the goroutine
goes on. The status goes back to the dashboard through a static field and a listener. The settings are
shared with every other app and survive the process.

What is hard: commands that overlap in any order, cancellation that stops a coroutine but not its
goroutine, process death between two writes to the settings, a port that other apps compete for, a
permission that is missing or revoked, callbacks into Java whose reference may be deleted meanwhile,
bounded channels whose consumers fall behind or leave, lists, tests, choices and answers that are stale
when they are used, a crash between two transactions, and datagrams that are lost, repeated and reordered.
`PROJECT.json` lists these hazards with their lines; the properties below were chosen for them.

## 2. The modules

| Module | Models | Notes |
| --- | --- | --- |
| `ProxyControl` | the service, the switch, the two kinds of listener, profiles, settings, process death | `MCProxyControl` adds symmetry |
| `ProxyControlProofs` | theorems about it | |
| `GlobalRef` | abstract: what native code may do with a JNI global reference | implemented by `NativeTun` and `Logcat` |
| `NativeTun` | the TUN bridge with its semaphore | |
| `NativeTunProofs` | theorems about it, the refinement included | |
| `Logcat` | log calls, the `Observable`, the console, subscriptions from Java | |
| `LogcatProofs` | theorems about it, the refinement included | |
| `NodeSelection` | listing, selecting, restoring, connections through groups | `MCNodeSelection` holds the configurations |
| `NodeSelectionProofs` | the theorem about connections | |
| `NodeChoiceProofs` | the theorems about lists and switches, and the types | on top of the one above |
| `Dashboard` | tests, retests, the status line, the life of the activity | |
| `DashboardProofs` | theorems about it | |
| `OrderedStream` | abstract: what a TLS session expects of the channel below it | implemented by `VpnControl` |
| `VpnControl` | the control channel of the OpenVPN client and the goroutine above it | |
| `VpnControlProofs` | theorems about it, the refinement included | |
| `FakeIP` | the pools of fake addresses on their bucket | these five are parts of `MCCore` |
| `Resolver` | the cache of names and the exchanges behind it | |
| `UrlTest` | a url-test group and the provider it chooses from | |
| `HealthCheck` | the health check of a provider | |
| `Fetcher` | a provider that is fetched over HTTP | |
| `MCCore` | the five side by side | they share the process and no state |
| `CoreProofs` | theorems about `MCCore` | |

**ProxyControl.** A coroutine (`Task`) has a label `pc` between the points where another thread can see
what it does: one step per key of the settings (`WriteKey`, `ClearKey`), one for each of load, bind,
flag. Its goroutine (`stage`) is separate, so that a cancelled coroutine leaves it running (`LoadFailed`
with `cancelled`). `owner` is who listens on 7890: the app's listener ("native"), the profile's HTTP or
mixed listener, another app. `profile` is what is on disk, broken and absent included. `ProcessDeath`
forgets everything but `keys` and `profile`. `BindOk` and `BindFails` follow the code's reading of the
result of `startHttp`: a successful bind is the error path.

**NativeTun.** `closed`, `holders` and `line` are the remoteTun and its weighted semaphore (external:
`golang.org/x/sync`, FIFO, a closer takes all permits); `context` is the pair of function variables of
`app/tun.go`; `at` holds what a dialer has read before it calls, which may be a device closed since.

**Logcat.** The goroutine of the `Observable` receives an event, locks, emits to each subscriber in
turn (which blocks when a channel is full), unlocks. A subscriber whose Java callback throws releases
the reference, logs, and unsubscribes, from inside its own loop.

**NodeSelection.** One step is one call into the core, between any two of which another thread may load
a configuration, update a provider or select. A configuration is the ordered groups, what their members may
be, which are selectors, can be set or are hidden, and what each selects by default. `hop` is what a connection was sent to by each group on its way; groups that measure
may send it to any member. `UpdateProvider` gives groups other members: a selector whose member is
gone goes by its first one from then on, and nothing closes its connections; `late` notes them, as it notes a
dial that was passing a selector when it was patched. Rule mode only.

**Dashboard.** The main thread runs one callback at a time, except that the two lines of `onResume` are
two steps, since the service's coroutines run between them. `statusListener` is not volatile: a reporter
may use the value it had when the status was written or the one it has now. The coroutine of a test ends
where it next waits once it is cancelled (kotlinx.coroutines' prompt cancellation, external).

**VpnControl.** The variables are those of `ControlConn`: `pending`, `recvPending`, `lruAcks`, `parkedTLS`
and `pendingSoftReset` under their names, `keyID` for the epoch. One action is one packet read (`ReadPacket`
with the outcomes of `read`: delivered, buffered, acknowledged again, refused, dropped, put aside) or one step
of the client's goroutine (`phase`): the handshake, the key exchange, the push, the watcher, a soft reset.
The server is external and begins every rekey. `net` holds the datagrams on their way to the client: any of
them may be read next, or lost, and a message that is not acknowledged is sent again, so that copies arrive.
`written` and `got` are the two ends of the stream, which `OrderedStream` relates.

**FakeIP.** Each access to the bucket is one transaction and one step (`DelByIP`, `PutByIP`, `PutByHost`), so
that `Crash` comes between any two. `parsed` is the other pool, from `New` to `Install` or `Discard`;
`restoreState` empties the bucket when it finds its first address in use. `before` (which address was handed
out before which), `overlapped` and `mixed` are history: the last two say from when on a property is silent.

**Resolver.** Of one question, `entry` is what the cache holds and `flight` the call of the singleflight;
`record` is what the servers have. A query and the fetch it leaves behind are goroutines (`at`): they join the
call or start it, wait, and when their time is up leave a monitor in their place.

**UrlTest.** A dial runs through `fast` in the steps at which another goroutine can see or change something:
the version, the list, the choice, the field `fastNode` read again, the answer kept. `call` and `result` are
the singledo around it, which a `Reset` clears under a running call.

**HealthCheck** and **Fetcher.** A check is asked for by the ticker, the user and every change of the nodes;
one that is asked for while another runs joins it. An update of the fetcher goes through the request, the
entity tag, the parse and the write, and may fail or be killed between any two; the next process starts from
the file, of which a part may be there. Others write the same file without the fetcher's mutex (`aside`): an
import of the profile that found no file (`Import`), and the fetcher of a configuration that was replaced
(`former`, from `Reload` on). `torn` says that two writers had the file open at once, after which it holds the
content of either, pieces of both, or is gone; `raced`, that what is shown is not only the fetcher's own affair.

## 3. What the runs check

| Run | Bounds | Shows |
| --- | --- | --- |
| `proxy_control` | 2 commands in flight out of START/STOP/IMPORT, 2 keys, a profile with a mixed port; symmetric in commands; 6.3 million states | `SoloSettles`: a START or STOP with no other one beside it leaves flag and keys as announced, even when imports run beside it, stop the service under it or tear its profile. `SecondPassClears`: however commands overlap, what was there before the second clearing pass began is gone after it. |
| `proxy_live` | 2 STARTs, 1 key, fair | `EveryCommandEnds` |
| `proxy_listener` | START and STOP, a profile without a port | violation of `ListenerBehindProxy` |
| `proxy_service` | START and STOP, a profile with an HTTP port | violation of `ServiceBehindProxy`, by a STOP and a START after it |
| `native_tun` | 2 control threads, 3 dialers on 2 permits, 2 devices, fair | `NothingLeaks`, `UsesReferences` (refinement of `GlobalRef`), `EveryCallReturns` |
| `logcat` | 2 writers with 3 events, 2 subscribers, channels of 2, fair | `EveryEventOnce`, `NeverSendsOnClosed`, `UsesReferences`, `LogReturns` |
| `logcat_leave` | 1 subscriber, channel of 1 | violation of `UnSubscribeCloses` |
| `node_selection` | clicks beside one START, 3 configurations (nested groups; groups of the same size with a hidden one, of which an update takes a node away; a group that cannot be set), 1 connection; 3.3 million states | `NoStaleConnection`, `SwitchTakes`, `ListsBestGroup` |
| `node_restore` | the same with nested groups only | violation of `RestoresLastChoice` |
| `dashboard` | 2 reporters, 2 statuses, 1 event of the user, fair | `NewestResults`, `LastStatusShown`, `ResultsShow`, `SwitchIsTested` |
| `vpn_control` | 2 rekeys or pushes, 3 datagrams in flight, a window of 2, acknowledgement limits of 2 and 3, fair | `StreamInOrder` (refinement of `OrderedStream`), `AckedWasReceived`, `OneEpochPerReset`, `RekeysEnd`, `MessagesAcknowledged` |
| `mc_core` | fake addresses: 2 queries of 3 names on 2 addresses | `AnswersLeadBack`, `OldestIsReused` |
| | names: 2 queries, 2 changes of the record | `AnswersNeverGoBack`, `CatchesUp` |
| | url-test: 2 dialers, 2 nodes, 1 update | `CacheIsCurrent`, `SelectionIsKnown`, `DialersAnswered` |
| | health check: lists of 3 nodes, 2 updates | `NodesTested` |
| | fetcher: the pull loop and the user or another writer of the file, 2 changes, 1 crash or reload, 1 content that cannot be parsed; all fair; 455 000 states | `FileKeepsShown`, `ConfirmedIsShown`, `Converges` |

Why the bounds are enough. Two commands give every overlap of a pair, which is what cancellation,
`stopSelf` and the two clearing passes are about; two keys are the least that can be torn, and the proofs
cover any number of both. Three dialers on two permits make one wait while a closer waits; two devices
let a dialer hold the first while the second is installed. The real channels have 200 events and three
writers; two and one fill sooner, with the same code paths. Two nodes and three groups give a nested
parent, a tie, a hidden group and names shared between configurations. One click and one switch are
enough to cancel a running test, and the retry adds a third.

In `vpn_control` three datagrams are the least with which a reset, a record and the record after it are on
their way at once; a window of two refuses the third, and the acknowledgement limits are below the number of
messages, so that an acknowledgement can fall off a packet and be repeated. A second rekey brings copies of
the first one's packets into a later epoch. In `mc_core` the variable `part` says which part moves, so that
one run has the sum of the states of the parts; the constraint `StillJudged` stops the fake addresses where
neither of their properties says anything any more, and `TwoAtOnce` lets either the user's update or another
writer of the file work beside the pull loop, not both. The first content of the server is fixed, as contents
that can be parsed are alike. Three names on two addresses reuse addresses, and two
queries can overlap; two changes let a late answer, of the fetcher or of the resolver, meet a later one.

Fairness. `proxy_live`: strong fairness of each command with its goroutine, since threads are scheduled
and Go's mutexes hand over to a waiter that starves. `native_tun`: the threads that are inside a call go
on; nobody has to start one. `logcat`: the goroutines run and Java's callback returns. `dashboard`: every
socket has a time-out of four seconds (weak fairness of `Probe`), and the looper serves its messages in
turn, so that pauses and resumes cannot keep another callback out for ever (strong fairness of what runs
on the main thread); nothing is assumed of the user.
`vpn_control`: the goroutines run and both sides send again what is not acknowledged until a copy of the oldest
message gets through. `mc_core`: calls in progress go on and every socket has a time-out; the timers of the pull
loop and the health check fire, not always in the second after a check; now and then the server answers and
the disk takes a write; somebody goes on asking for the name. Nothing makes a query, a crash or a change happen.
`MaxReports`, `MaxEvents` and `MaxLog` bound counters
that would otherwise grow. `CHECK_DEADLOCK FALSE` stands where the system may stop: a log nobody writes to
any more, a dashboard that was closed.

## 4. Where the code does not do what it says

- **`ListenerBehindProxy`** (`ProxyManager.kt:50`). `startHttp` returns the address on success and null on
  failure; `ProxyManager` takes any result for an error. A START reports "on" only if its own listener
  could *not* be opened. The proxy then works as long as the profile has a listener of its own on 7890.
- **`ServiceBehindProxy`** (`ProxyService.kt:54`). A STOP arrives, and a START after it. The `stopSelf()` of the
  STOP names no start id and stops the service although the START is newer (`stopSelf(startId)` would not).
  `onDestroy` cancels the START; if its configuration is loaded by then, it takes that answer all the same,
  writes the settings and reports on, and no service is left. `wanted` is set by a START and taken back by a
  STOP, so that the property is about the command that arrived last.
- **`UnSubscribeCloses`** (`log.go:64`). A subscriber that leaves with a full channel logs and unsubscribes
  while the goroutine it needs is blocked on that channel: the log, and whoever logs, stops for good.
- **`RestoresLastChoice`** (`ProxyService.kt:97`). A click between the read of the saved node and the patch
  is overwritten: the core runs the old choice, the settings hold the new one.

Three weaker observations are written into properties as exceptions and listed as hazards: a status
reported between the two lines of `onResume` is lost; two overlapping reports may reach the screen in the
wrong order; a pause cancels the retest that the cards announce, and nothing starts it again.

The same holds in the core and around it, where the conditions of the properties name what TLC finds without them:

- Parsing a configuration, if only to validate a profile, empties the bucket of the pool that is running
  (`pool.go:140`). A lookup that is between its two transactions then leaves a host with an address that leads
  nowhere, or to another host later. `AnswersLeadBack` and `OldestIsReused` leave such an overlap out.
- When that configuration is then dropped, the running pool goes on from where it was in an empty bucket. The
  next pool begins at the first address, finds it free, and later takes addresses from their hosts while others
  are free. This came out of the attempt to prove `OldestIsReused` as it was first stated, which had held for
  the two addresses of the run and does not for three; `mixed` now includes it (`Discard`).
- `restoreState` looks at the first address only: what a pool with another range left in the bucket stays
  when that address is free. The models have one range.
- `fast` returns the field `fastNode` and not the node it has chosen (`urltest.go:145`), so that a call
  overtaken by a Reset may answer with the node of another call. `SelectionIsKnown` is about the selection a
  choice knew, not about that field.
- The update of a provider may take the member away that a selector points to; the selector then goes by its
  first member, while the connections over the old one stay open (`closeAllConnections` is called by `Initial`
  only, `provider.go:163`). `NoStaleConnection` excepts them (`late`).
- An import fetches a provider's file that it did not find (`fetch.go:213`), beside a fetcher that may write it
  meanwhile, and the fetcher of a replaced configuration goes on until it is collected (`provider.go:220`). Both
  may overwrite or damage the file of what is shown, and a failed import removes it: `FileKeepsShown` is
  silent from then on (`raced`) until the next content was written alone.
- A content that comes back after a failed write of another one is taken for known by its hash, and the file
  stays written in part until the next content: hence the exception in `FileKeepsShown`.
- A response with a TTL of zero is not cached, and an expired one it should replace stays and is served to
  every later query. `AnswersNeverGoBack` and `CatchesUp` except such records.
- The resolver means to retry three times (`retryMax`), but nobody reads the answer of a retry, so that there
  is one; and there is none when two queries shared the exchange that failed.

## 5. What is proved

`ProxyControlProofs`, from the assumptions on `Command`, `NKeys` and `Working` alone:
`TypeCorrect`, `SecondPassTheorem` and `SoloTheorem`. The inductive invariant is

    IInv == TypeOK /\ PlaceInv /\ PassInv /\ SoloInv /\ SoloSettles

`PlaceInv` says which labels go with which intent and that the next key is the first between the two
passes. `PassInv` strengthens `SecondPassClears` to the middle of a pass: the keys before the next one are
gone as long as nobody wrote one since. `SoloInv` strengthens `SoloSettles` to the middle of a switch: when
it runs alone it is the only one, and flag and keys have come as far as its label says. `SoloSettles` alone
is not inductive, as it says nothing before the command has ended.

`NativeTunProofs`, for any number of threads, devices and permits: `TypeCorrect`, `NoLeak`, and
`CallbacksAreReferences` (`Spec => UsesReferences`, the refinement of `GlobalRef`). The invariant is

    IInv == TypeOK /\ QueueInv /\ PlaceInv /\ OwnInv /\ FreshInv /\ LifeInv

`QueueInv` ties the semaphore to the labels (whoever is inside has permits, a closer has them all, nobody
waits twice); `OwnInv` says what the thread in the mutex works on; `FreshInv` that a new device belongs to
one thread; `LifeInv` where a live callback can be reached from. A step that deletes a reference while
somebody is in a call is impossible because the closer holds every permit, which needs all of these. The
lemmas about the queue (`FitsAlone`, `AdmitKeeps`, `AcquireKeeps`, `ReleaseKeeps`) are about the semaphore
alone.

`LogcatProofs`, for any number of writers, readers and channel sizes: `ChannelsAreBounded`,
`ClosedIsNotSentTo`, `SubscriptionsSeeAll` and the refinement of `GlobalRef`, from

    LogInv == TypeOK /\ ReaderInv /\ CopyInv /\ OnceInv

`ReaderInv` ties the reference and the subscription of a reader to its label, `CopyInv` says that the
goroutine copies only while it holds the mutex, which is why no channel is closed under it, and `OnceInv` that
a channel holds exactly the events between the one its reader took and the one copied last.

`DashboardProofs`, for any number of reporters and statuses: `TypeCorrect`, `CardsAreNewest` and
`StatusReachesScreen`, from

    DashboardInv == TypeOK /\ StatusInv /\ BudgetInv /\ TestsInv /\ ShownInv

The type of the test counter is not obvious: `BudgetInv` pays for every test with an event of the user, the
first resume or a switch that came through, and `StatusInv` says that each comes through at most once.
`TestsInv` cancels every test but the newest; `ShownInv` finds an undisturbed status on the screen, with its
reporter or in the queue of the main thread.

`NodeSelectionProofs`, for any configurations, threads and connections: `ConnectionsFollowSelectors`
(`Spec => []NoStaleConnection`), from

    NodeInv == CoreTypes /\ Known /\ Fresh /\ Current

`Current` says of connections that are still dialled what the property says of open ones: they go where the
selectors say, except at a selector whose patch is on its way to close them, or that an update has moved.

`NodeChoiceProofs` adds `TypeCorrect`, `ListFindsBestGroup` and `SwitchesTake`, for any configurations and
threads, from `ChoiceInv`. A calm thread (one that no load or update of a provider, and for a switch no other switch, has disturbed)
has still to query the end of the list of names that the core would answer with now, and what it keeps is
the best of the names it has passed over; for a switch, the group points to the node and each visible parent
it has passed over to the group. That such a thread has a suffix of the list is what makes the loops
inductive, and the count of the names left stands for the position. The list is a filter of the groups of the
configuration; `InOrder` states it by positions, without recursion, so that `InOrderLists` can prove that it
has all of them and in order. This rests on the least-number principle (`LeastNatural`, from the
well-foundedness of the natural numbers), which takes the place of an induction.

`VpnControlProofs`, for any number of epochs and any limits that `BoundsAssumption` allows: `TypeCorrect`,
`AcksAreHonest`, `StreamsInOrder` (the refinement of `OrderedStream`) and `EpochsStartOnce`, from

    VpnInv == TypeOK /\ KeyInv /\ AckInv /\ AckedWasReceived /\ StreamInv

`KeyInv`: the server is at most one epoch ahead, and then has nothing of its new epoch acknowledged; what it
has, the client sent. `AckInv`: every acknowledgement that is kept was earned in this epoch. `StreamInv`
counts the records: those in TLS, then those parked, then the message expected next. The refinement needs all
of them, since a record is delivered by its number and the numbers begin again in every epoch.

`CoreProofs`, for any number of queries, dialers, updaters and contents: `TypeCorrect`,
`FakeAddressesLeadBack`, `OldestFirst`, `AnswersOnlyGetNewer`, `ListUnderItsVersion`, `ChoiceSawSelection`,
`ShownIsInFile` and `NoChangeIsTrue`. Each part has an invariant of its own (`FakeInv` and `CircleInv`,
`NameInv`, `GroupInv`, `CheckInv`, `FetchInv`), and a step of one part leaves the variables of the others
alone. The strengthenings say what a step has in hand: an address that is being stored belongs to no
other host; a flight read the servers after whatever is cached, which needs that its answer is cached before
the next flight can begin; a version that was read is not newer than the provider's; a hash that was sent
with a tag is the hash of that tag; as long as
the file counts as that of what is shown, no import is under way and no former fetcher has it open, and whoever
opens it beside a fetcher that writes marks it as torn (`AsideInv`).

`NobodyWaitsInVain` is the safe half of two liveness properties: a dialer that waits for a shared choice
waits for a dialer at work, never for one that waits itself, also when a reset let go of the call meanwhile
(`WaitInv`); and whoever waits for an exchange of the resolver, a monitor of a query that gave up included,
waits for one that flies (`CallersInv`). `CoreAssumption` says what the constants are, among them that `None`
is no host, record or flight, as a model value is.

`OldestFirst` holds for a range of any size, where the run has two addresses. `CircleInv` says how far the
bucket is determined by the offset of the running pool as long as the history is not mixed: the addresses in
use are those up to the offset, or all, and the order in which they were handed out is the circle that begins
after it (`Ordered`, `Fits`); while an address is replaced, all others are in use (`Circle`). A crash may leave
any of these states, of which a new pool empties all but two: nothing in use, or everything but the first
address, in which case the circle that begins there fits as well (`Leftover`). `OrderedDel`, `OrderedPut` and
`OrderedRound` turn the circle.

Only model-checked: all liveness (`EveryCommandEnds`, `EveryCallReturns`, `LogReturns`, `ResultsShow`,
`SwitchIsTested`, `RekeysEnd`, `MessagesAcknowledged`, `CatchesUp`, `DialersAnswered`, `NodesTested`,
`Converges`), which the prover cannot do under fairness, and the four properties that are violated.

## 6. What is left out of the models

- Wording, notifications, layout, focus, images, HTTP headers, JSON.
- `ProxyControl`: the UDP half of the mixed listener; killing cached processes.
- `NativeTun`: the network stack behind the device, `/proc` on old Android versions.
- `NodeSelection`: the modes direct and global (in direct mode the list is empty), sorting, delays, how a
  group measures. The names of proxies are unique across nodes and groups.
- `Dashboard`: what a single probe finds (a test is good or poor); the history of exit addresses, which only
  functions that nobody calls read; the image loads.
- `VpnControl`: what went wrong (`TimeOut` stands for every error that closes the channel, in any phase); TLS, the outer encryption and its replay window, the data channel, what a push says.
- `FakeIP`: the store in memory and `StoreState`, which the app never reaches; looking up a host by address.
- `Resolver`: which servers are asked and which of them is believed (policies, the fallback), the transports
  under them, the cache with the ARC algorithm. A record is a version.
- `UrlTest`, `HealthCheck`, `Fetcher`: filters, delays, fallback and load-balance groups, files and inline or
  bundled providers, intervals and the backoff. In `UrlTest`, keeping an answer and waking those who wait for it
  is one step; in `HealthCheck` there is one URL to test, and a check reads the nodes once. In `Fetcher`, an
  answer without a content whose hash another update replaced counts as no change in the code
  (`fetcher.go:143`) and just ends in the model; one other writer of the file is at work at a time, and of the
  updates a reload overtakes one goes on. Errors of the cache file's database, which the code ignores.
- Torn reads of slices and interfaces that are shared without a lock (`hc.proxies`, `fastNode`, `selected`):
  the models read and write them in one step.

**Not modelled.** The native queries, overrides and setters, the traffic codec, the merging of geo answers and
the common module compute values without keeping state that another actor sees. Hazards met there, or at the
edge of a model, that nothing here covers: the UDP half of the mixed listener keeps a closed TCP listener when
it fails (`listener.go:491`); `healthCheck` completes its deferred but never releases the reference
(`native/tunnel.go:73`); the subscription of `Clash.subscribeLogcat` is never released, as `trySend` does not
throw (`Clash.kt:225`); values below the first unit of `Traffic` lack the factor of the others
(`Traffic.kt:48`).

The share of the repository that the models stand for is small, and stays so: of its 133 000 lines some 130 000
are mihomo, and most of these are codecs of some thirty protocols, parsers of configurations and of override
expressions, and congestion controllers. They transform data within one call. A model of them would be their
transliteration, and the app reaches few. What in mihomo keeps state between calls of several actors, on
the way the app's traffic takes, is what the modules above were chosen from; `VpnControl` is the one protocol
among them, since its control channel is a protocol over a lossy network written in this repository.

## 7. Plan

Done: the app's service, switch, TUN bridge, log, node selection and dashboard, each with proofs; of the core,
the OpenVPN control channel, fake addresses, names, a group that measures, and providers, with proofs.

Left, in the order in which it would add most:

1. The completables of the JNI bridge, as goroutines with a deferred and a reference each, refining `GlobalRef`.
2. The statistic manager's six counters beside its ticker, and the NAT table of the tunnel.
3. The data channel of OpenVPN: key slots across a rekey and the replay window.
4. Pure functions against reference definitions: the traffic codec, the merging of geo answers.

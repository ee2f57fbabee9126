# A verification of nika

TLA+ modules, TLC configurations and TLAPS proofs for
[nika](../src), a Go framework over gin with dependency injection, message
transports, caches, repositories and migrations. The project models the parts
in which several goroutines, processes or pods meet: message routing and
dispatch, the message server, the seven transports, migrations and seeds, the
caches, and the life of an application from its modules to its shutdown hooks.

`PROJECT.json` holds the machine-readable side: the components, the runs, the
line ranges each definition translates, the hazards and the theorems.

## 1. Inventory

| part | state | operations | interacts with | what is hard | what makes it correct |
|---|---|---|---|---|---|
| router (`microservice/router.go`) | exact table, sorted wildcard list, answer cache; locks `mu`, `cacheMu` | `Add`, `Resolve` | called by the server at registration, and by every dispatch | `Resolve` takes the locks one after the other | the most specific registered pattern answers; the cache is bounded and never wrong |
| patterns (`pattern.go`) | none | `Match`, `rank`, `moreSpecificThan`, `Validate` | router, transports' subscriptions | backtracking at the ends of the strings | `Match` decides the language of the pattern, in bounded time |
| subscriptions (`redismq/pattern.go`, `natsmq/subject.go`, `rabbitmq/routing.go`) | the plan of one `Listen` | translation of patterns, `accept` | brokers, router | two pattern languages, overlapping subscriptions, replies in the same namespace | a covered message is handled once, a reply by its caller only |
| dispatch (`dispatch.go`, `registerController`) | mounted chains, path counter, pool of buffers | `mount`, `dispatchRoute`, `buildReply` | router, gin | registration against messages; shared buffers | the reply is the message's own; what is registered is reached |
| message server (`server.go`) | running and closed flags, run context, wait group, slots | `Start`, `Stop`, listener supervisors, dispatcher | all transports, router, the application's hooks | Start against Stop; retries against shutdown; slots | Stop drains; a failed transport comes back; no message waits forever |
| transport contract (`transport.go`) | none | `Publish`, `Request`, `Listen`, `Close` | all transports | | the abstract `RequestReply` |
| publishing side of the transports (`memory.go`, `kafkamq`, `rabbitmq`, `redismq`, `natsmq`, `tcpmq`, `grpcmq`) | link or session, correlation entries, closed channel, mutexes | `Publish`, `Request`, reply readers, `Close` | broker or peer | a link dies, is replaced or is closed while callers use it; late replies | no stray link, no leaked entry, one outcome, every call returns |
| consuming side of the transports | offsets, deliveries or buffers, slots, handlers | `Listen`, loop, `handle`, settling, `Close` | broker or peer, server | crash between dispatch and settling; shutdown with messages in hand | nothing is settled unaccounted; replies first; `Listen` ends, and not before its handlers |
| clients (`client.go`, `clients.go`, `named.go`) | registry of named connections | `Send`, `Emit`, setup, shutdown hook | transports | a transport shared with the server is closed once by each side | as the publishing side |
| SQL migrations (`sqldb/migration`) | tracking table, advisory lock on a session of its own, once-only table creation | `UpN`, `DownN`, `Verify` | database, other pods | crashes, cancelled contexts, lost sessions, DDL that commits by itself | each migration once, in order, and the table says what the schema is |
| Mongo migrations (`mongodb/migration`) | a document per version, completed or claimed | `UpN`, `DownN`, `Verify` | database, other pods | no lock, no transaction | one runner per version |
| seeds (`sqldb/seed`, `mongodb/seed`) | recorded names | `Run`, `RunOnly` | database, other processes | record and data in one transaction or in three statements | once-only seeds run once |
| caches (`cache`) | map with expiry and a janitor; files renamed into place | `Get`, `Set`, `SetNX`, `Increment`, `Delete`, `DeleteExpired`, `Close` | application, rate limiting | read-modify-write of files, expiry against replacement | one lock holder, atomic counts, no live entry removed |
| application (`app.go`, `listen.go`) | start and shutdown hooks, controllers, observers, server | `OnController`, `Start`, `Listen`, `Shutdown`, `RunWorker` | everything above through hooks | a signal, `Shutdown` and a dying server race | each hook runs, after the drain; a signal ends the process |
| container and modules (`container.go`, `module-loader.go`) | providers, exports, modules being loaded | `LoadModule`, constructors | application | shared imports, cycles, two loaders | private providers stay private; each module once |
| routes, guards, middleware (`routes.go`, `guard.go`, `middleware.go`) | handler chains | registration, requests | gin | order of the chain, panics | the handler is behind its guards; every request is logged |

The envelope's encoding, the gRPC API, repositories, database connections,
validation, responses, templates, configuration, Swagger, CORS, migration files
and the test helpers keep no state that two actors share; they format, parse,
reflect or hand options to a library, and are listed in `PROJECT.json` as not
modelled, each with its reason.

## 2. Modules

| module | models | state and actions |
|---|---|---|
| `Router` | `router.go` | `exact`, `wild`, `cache` are the fields of `Router`. `Add` is `AddExact`, `AddWild` or `AddDuplicate`, then `InvalidateCache` after the lock change; `Resolve` is `Lookup` (with `Call`), `ReadCache`, `Scan`, `Store`, `Return`, one action per critical section. Patterns, their order and what they match are constants |
| `Pattern`, `PatternMatch` | `pattern.go` | the meaning and the specificity of a pattern as operators; the loop of `Match` as a state machine, one action per case |
| `Subscriptions` | the pattern translations of Redis, NATS and RabbitMQ | `Listen` makes the plan or refuses, `Publish` lets the broker copy the message, `Receive` accepts or drops each copy, `RedisReplies` publishes the reply under the same prefix |
| `Dispatching` | `registerController`, `dispatch.go` | `AddRoute`, `MountPath`, `MountURL`, `MountChain` in the code's order, against `Resolve`, `TakeBuffer`, `Serve`, `BuildReply` of each message |
| `MessageServer` | `server.go` | `stopped` is the field `closed`. `StartServer` (the flags of `Start`), `Launch` (one listener), the supervisor (`ListenEnds`, `ListenFails`, `Retry`, `StopRetrying`), the dispatcher (`Arrives`, `HandlerStarts`, `Refuse`, `HandlerReturns`), `Stop` step by step |
| `RequestReply` | `transport.go` | the abstract specification: a call begins, its handler may run, the call ends with one outcome, and with a reply only if the handler ran |
| `ClientCalls` | what the publishing sides share | callers with a deadline, a numbered link, correlation entries, the wire, `Close` |
| `MemoryTransport`, `RabbitClient`, `KafkaClient`, `PubSubClient` (Redis and NATS), `StreamClient` (TCP and gRPC) | the publishing side of each transport | how it obtains its link (under a mutex, a once, or both), registers, sends, waits, reads replies, and closes. `MemoryTransport` also has its listener: each case of each `select` is an action |
| `Consuming` | what the consuming sides share | one stage per message (slot, handler, reply), the loop, cancellation |
| `KafkaConsumer`, `RabbitConsumer`, `PubSubConsumer` (NATS and Redis), `StreamServer` (TCP and gRPC) | the consuming side of each transport | `Listen`, the loop, spawning, settling, how it ends and what it waits for; on TCP also a connection that its peer, a deadline or an oversized frame ends |
| `Migrator` | `sqldb/migration` | committed rows, the effect of the bodies, the lock and its session, one program counter per pod |
| `MongoMigrator` | `mongodb/migration` | extends `Migrator`: calls, verification and reading are the same; claim, body, completion and release replace the transaction |
| `Seeder` | `sqldb/seed`, `mongodb/seed` | recorded names, seeds in place, `Run`, `RunOnly`, `Record`, `Body`, `Withdraw` |
| `Cache` | `cache` | one key: its entry and deadline, callers in the middle of a file operation, the janitor, `Close` |
| `ModuleLoader` | `module-loader.go`, `container.go`, `routes.go` | a stack of frames per loading goroutine, exports, routes with their chains, observers and what they were told; `built` counts the constructions of a module that no panic gave up |
| `Lifecycle` | `app.go`, `listen.go` | main and another goroutine, the server, the signal, hooks run so far |
| `RouterProofs`, `RoutingProofs`, `MessageServerProofs`, `ClientsProofs`, `ConsumersProofs`, `DeploymentProofs`, `CacheProofs`, `ApplicationProofs` | | the inductive invariants and the theorems of `Router`, `PatternMatch`, `Subscriptions` and `Dispatching`, `MessageServer`, `Clients`, `Consumers`, `Migrator`/`MongoMigrator`/`Seeder`, `Cache`, and `Application` with `Lifecycle` and `ModuleLoader` (section 5) |

Six modules compose them:

* `Clients` is the seven publishing sides behind one interface, the `Publisher`
  of `transport.go`. The transport is chosen in the initial state, so that each
  property is stated once and holds of all.
* `Consumers` does the same for the six consuming sides, the `Listener`.
* `Application` extends `ModuleLoader` and `Lifecycle` by requests: what the
  loader registered is what requests run through, and requests in flight are
  what the shutdown drains.
* `Routing`, `Listening` and `Deployment` put parts side by side that share no
  state as modelled (the matcher, the subscriptions, the router, the dispatch;
  the consuming sides, the message server; the migrations, the seeds): a
  behaviour is one or the other, and the fairness of a part applies to its own
  behaviours. They save runs and claim nothing more.

`MC*` modules only give constants values; where a `.cfg` can do that alone
(`Cache`, and `Consumers` for its second run), there is none. The brokers, the databases, gin and
the peer services are not in the repository; their actions (`PeerHandles`,
`LinkBreaks`, `Produce`, `ChannelDies`, `SessionDies`, crashes) are modelled
from how the code uses them, and are marked external in the map.

Messages, names and payloads are members of small sets: what the control reads
of a message is whether its bytes are an envelope and whether it wants a reply.
A handler's failure is an ordinary reply, as `dispatch.go` makes it. Options
that change the control (`Requeue`, the SQL dialect, the kinds of calls, the
cache driver, `Config` flags) are chosen in the initial state.

### How the modules relate

`Clients` shows `RequestReply` as a property, with a refinement mapping from
program counters and results, for every transport. `MessageServer` takes a
transport as what `Consumers` shows of it: `Listen` returns when its context is
done (`CancelEndsListen`), when the transport is closed, or when it fails, and
not before its messages are done (`NoHandlerOutlivesListen`, which NATS does not
keep). The consumers take the dispatcher as `MessageServer` shows it: an error
only when the context is done. `Dispatching` takes the router as `Router` shows
it: a resolved route covers its subject. `Lifecycle`'s hooks are where
`MessageServer`'s `Start` and `Stop`, the clients' `Close` and the cache's
`Close` are called.

## 3. Runs

Six runs must pass and six must find what a comment of the code rules out.

| run | instance | shows |
|---|---|---|
| `routing` (1 600 000 states) | all patterns up to length 4 against all subjects up to length 5; pattern lists with overlaps, brackets and reserved names for three prefixes on three brokers; two fields and three messages; and a router with one exact and three wildcard patterns that overlap, three subjects, two resolvers (symmetric), a cache of two | `AnswerIsMeaning`, within the step bound; `HandledOnce`; `RepliesEchoOnceWhereStraddled`; `AnswerIsOwn`; `RegisteredIsReached`; `CacheBounded`, `ResolvedRouteCoversSubject`, `ExactWins`, and `BestUnlessOverlapped`: the answer is the most specific pattern registered before the call, unless an `Add` fell between the scan and the store of some call |
| `clients` (190 000) | two calls (requests or a request and a publish) and a `Close`, two links, each of the seven transports | `NoStrayConnection`, `NoEntryOutlivesItsCall`, `LiveRequestIsRegistered`, `FailedPublishLeavesNothing`, `ImplementsRequestReply`, `CallsReturn` |
| `listening` (120 000) | an event, a malformed message and a request, one slot, prefetch two, two losses, each of the six transports, `Requeue` on and off; or a server with two transports, one without handlers, two starters, two stoppers, two messages for one slot, one failure | `GoneIsAccountedFor`, `AnsweredBeforeSettled`, `RerunsOnlyAfterLoss`, `NoHandlerOutlivesListen`, `EveryMessageIsTaken`, `CancelEndsListen`; `StopDrains`, `ListensUntilStopped`, `WaitingMessageIsDecided` |
| `migrations` (370 000) | a pod of the old release (two migrations) and one of the new (three, perhaps with a changed text of the first, or with one without a checksum), two calls, four databases, empty or deployed; or two processes with a once-only and a repeated seed and three calls | `RecordedIsPrefix`, `TableMatchesSchema`, `OneRunnerPerVersion`, `NeverBuildsOnChangedHistory`, `RunsEnd`, `SeededOnce` |
| `cache` (240 000) | three calls of any kind on one key, three deadlines, memory, Redis, files with and without hard links | `OneHolder`, `LiveEntriesKeepTheirTime`, `ExpiredIsReclaimed` |
| `application` (320 000) | five module graphs: a shared import, a circle, a controller that needs a private provider of another module, an ambiguous interface, an unknown guard; two loaders, an observer, two start and two shutdown hooks, a request, three ways to run | `PrivateStaysPrivate`, `EachModuleOnce`, `EveryControllerHeardOnce`, `HandlerBehindGuards`, `HooksComplete`, `HooksAfterDrain`, `SignalEndsMain` |
| `router_stale_cache` | the router of `routing` | a match scanned before an `Add` is stored after it, and later calls return it |
| `server_stop_races_start` | the server of `listening`, one starter, one stopper | `Stop` between the flags of `Start` and its `wg.Add` reports success with a handler still to run |
| `kafka_shutdown_loses` | Kafka alone | a message that the dispatcher turns away at shutdown is committed |
| `migrator_leaked_lock` | as `migrations` | a cancelled run gives its session back to the pool with the advisory lock |
| `redis_reply_echo` | as `routing` | a Redis handler on `*` is given a reply on its way to another client |
| `cache_file_increment` | as `cache` | two overlapping `Increment`s of the file cache are told the same number |

**Bounds.** Each is the smallest at which the case of interest happens, and one
more where it is cheap. The router needs two overlapping wildcards and a third
that separates them for the order, a cache smaller than the set of subjects for
the eviction, and two resolvers for the stale store. Two losses cover a
redelivery that is interrupted again. Two links are enough for a request of the
second to meet the reader or watcher of the first. A deployed database makes two
calls enough for Up against Down on a history; three seedings are a race and a
retry. Three calls on one cache key are an expired holder, its reclaim and a
late eviction. The matcher is checked over all inputs up to the lengths, which
contain every combination of star, backtrack and both ends.

**Deadlock.** A run ends in states in which every call has returned and the
environment has used its bounds; there the system may stop, and
`CHECK_DEADLOCK FALSE` says so. What must not get stuck is stated as a liveness
property instead.

**Fairness.** Weak fairness of goroutines: the Go scheduler runs every goroutine
that can go on. Timers fire: the deadline of a `Request`, which always has one,
the timeout of the advisory lock, the janitor's ticker and `ShutdownTimeout`, but
not the context of a `Publish`, which may never end. Nothing is assumed of the
environment: crashes, `Cancel`, `Close`, `Stop`, signals, requests and new calls
need not happen, and neither need a broker's confirmation (`Confirmed`) nor the
handler of an in-process `Dispatch` (`DirectRuns`): a publish that waits for a
confirmation returns with its context or its channel, and `CallsReturn` excepts
the one call that nothing in the code bounds, a `Dispatch` whose handler does
not return (`InHandler`). Hooks return: `SignalEndsMain` assumes it, as
`ShutdownTimeout` only bounds the hooks that look at their context. Three
assumptions are about others: the server (`PoliteHandlers`)
and the consumers assume that handlers return, the consumers that the supervisor
or the operator starts `Listen` again, and that an open channel delivers. The
consumers use strong fairness for the end of the loop (`LoopStops`): a Go
`select` picks among its ready cases at random, so it does not pass over
`ctx.Done` forever. In `KafkaConsumer` a commit is not assumed to fail forever.

## 4. Where the code and its comments disagree

Six runs show it (`findings` in `PROJECT.json` quotes the lines). The others
are visible in the passing models as a clause that a property needs in order to
hold, or as a behaviour that no property forbids.

*Server and dispatch.*
`server.go:418`: the deadline of a handler cancels its context only, and the slot
stays taken until it returns, while `server.go:46` says that the timeout keeps a
stuck handler from holding a slot; `WaitingMessageIsDecided` needs handlers that
return. `server.go:251-258`: a message between `Router.Add` and `mount` is
answered with 404, or meets a nil URL outside the recovery (`due` in
`RegisteredIsReached`, which therefore says nothing of that message).

*Publishing sides.* `LiveRequestIsRegistered` excepts `wiped`: the watcher of a
dead RabbitMQ session empties the pending map of the next one
(`session.go:153`; `session.go:212` says that it only keeps the map from
growing); such a request ends with its deadline. `NoStrayConnection` excepts `leaked`: a Kafka reply reader created
while `Close` looks for it, and a NATS connection that replaced another and
whose drain `Close` does not wait for, since `connClosed` was used before. The
Kafka reply consumer is created under a `sync.Once`, which keeps the first
failure. Waits for `dialMu` (TCP) and `replyMu` (Redis) do not see the deadline
of the waiting call; it returns when the holder does.

*Consuming sides.* `GoneIsAccountedFor` has the cases `refused` (a RabbitMQ
delivery turned away at shutdown is nacked with `Requeue`, off by default,
`listen.go:189`; `docs/microservices/rabbitmq.md:15` promises at-least-once) and
`dropped` (NATS callbacks during the drain, TCP and gRPC connections cut by
`Close`). A failed handler is an ordinary reply and is acknowledged
(`rabbitmq/listen.go:196`; `docs/microservices/rabbitmq.md:27` says that it
nacks). NATS's `Listen` returns with handlers running, and a handler may be
started after `Close` has waited. A gRPC server that is forced down does not
wait for its handlers. A reply whose write fails, on Kafka because the shutdown
has cancelled its context, counts as attempted in `AnsweredBeforeSettled`; its
caller times out.

*Subscriptions.* A Redis handler on `*` receives every reply under its prefix
(`redismq/pattern.go:10-12` says that none can): `RepliesReachNoHandler` is
violated in `redis_reply_echo`. What holds is `RepliesEchoOnceWhereStraddled`: the
patterns that Listen refuses are the only ones kept from the inboxes, and a reply
that gets through is handled once. Prefixes that contain one another collide (`a` and `a:b` on Redis,
`a` and `a.b` on NATS): a wildcard handler of the one service is handed what the
other publishes. Nothing in the code refuses such prefixes. The run's prefixes do
not nest, and the theorem names this as its hypothesis, `SeparateServices`.

*Migrations and seeds.* Mongo's `Pending` takes a claim for an applied version:
a second pod, or a run after a crash, skips the claimed version and applies the
next (`migration.go:217`; `Completed`, lines 50-52, is never read), so
`RecordedIsPrefix` and `TableMatchesSchema` are stated under the SQL lock.
`DownN` rolls back a claim in progress, and a failed run deletes a claim by
version, whoever made it: `OneRunnerPerVersion` excepts `snatched`. A crash
between the record and the data of a Mongo seed leaves it recorded and not run;
`SeededOnce` claims the converse only, and counts the bodies that returned nil: a
Mongo body that fails half way leaves what it wrote. An `ensureOnce` keeps the error of a
cancelled first call for the life of the migrator.

*Cache.* Two file `Increment`s that overlap are told the same number
(`Interface.go:43-45`; `file.go:23` says that the provider is safe within a
process): `IncrementsAreAtomic` is violated in `cache_file_increment`. `overlap`
excepts the deadline such an `Increment` restores from
`LiveEntriesKeepTheirTime`. A file `Get` or the janitor may
remove the entry that replaced the expired one they read, after which two
callers hold a lock (`evicted`). A file `Increment` in the last moment of a
window stores a counter without expiry.

*Application.* A `Shutdown` from another goroutine makes `serve` return, and
`Listen` then runs the hooks at once, before the drain and a second time
(`listen.go:140-141`; `HooksAfterDrain` excepts it as `died`); a `Shutdown` that comes before `Listen` has set the server
drains nothing (`early`). A failed start hook leaves `started` set and runs no
shutdown hooks, and `DisableGracefulShutdown` never runs them. Two goroutines
that load modules may be told of a cycle that does not exist
(`module-loader.go:16-18` claims the lock for the whole traversal);
`EachModuleOnce` has the clause `overlapped` for it. Even so no module is built
twice. `Use` after
`LoadModule` does not reach the routes that are registered already.

## 5. Proofs

`RouterProofs` proves, for every set of patterns, subjects and resolvers and
every cache bound, `RouterSpec => []RouterInv`, and from it the theorems listed in
`PROJECT.json`. The assumptions are `RouterAssumption` in `Router`: an exact
pattern is a subject and no wildcard, different wildcard patterns have different
ranks (`moreSpecificThan` falls back on the text of the pattern), `NoRoute` and
`NotCached` are no patterns, and the cache bound is positive.

`RouterInv` strengthens the properties by what each step of `Resolve` must know
when it starts:

* `RouterTypeOK`, `CacheBounded` and `WildSorted` stand for themselves;
* `CacheInv`: what the cache holds is registered and matches its subject, and,
  for a subject outside `window`, no route of a finished `Add` is more specific.
  Without it nothing is known of an answer that comes out of the cache. `window`
  is the history variable that collects the subjects whose scan an `Add`
  overtook;
* `StoreInv`: the same of the match a call carries from its scan to its store;
* `CallInv`: the patterns registered before a call are still registered, none
  of them is the one an `Add` is busy with, and a call past its lookup has no
  exact pattern for its subject among them;
* `DoneInv`: the three properties of a finished call.

The proof has one lemma per action. `InsertSorted` is the fact about the
insertion into the sorted wildcard list, and `FirstHitIsBest` says why the
first hit of a sorted scan is the most specific one.

The other proof modules are built the same way: the inductive invariant as a
conjunction of named parts, one lemma per action (or per group of actions that
disturb the same part), and theorems that read the property off the invariant.
Each of these invariants was an invariant of a TLC run of its MC module before
it was proved.

*`MessageServerProofs`* (`WaitGroupCounts`, `StopDrainsAlways`; `TypeCorrect`
says that the wait group never goes below zero). `StopDrains` alone is not
inductive: that `Stop` found the wait group at zero says something only if it
counts the supervisors (`WaitGroupCountsSupervisors`), if nobody can still add to
it (`LaunchInv`: one goroutine launches, each transport once; `StopInv`: a Stop
outside `raced` met no launcher, and has cancelled before it waits), and if a
handler lives inside its supervisor (`BusyInv`). `DrainInv` then says that what
was found empty stays empty.

*`RoutingProofs`, the matcher* (`MatcherIsRight`, `MatcherStaysInside`). What a
pattern means is a recursive function from the positions of the pattern to sets of
positions of the subject (`SuffixMatches`). The library's induction theorems take
the property as an operator, which the provers cannot instantiate; as a set they
can. `LeastElement` (from the library's `WFMin`) gives induction up to a number
(`UpTo`) and the existence of a recursive function (`Recursion`), and with it each
recursive definition is shown to obey its own equation (`SuffixUnfolds`,
`EscapeUnfolds`, `GlobUnfolds`). `MatcherInv` then says, in the loop, that the
pattern matches exactly when its rest matches from the two positions or the last
star can swallow more (`OpenInv`). That this survives a new star is the reason
why one star is enough to remember, and needs `StarInv`: what was consumed since
the last star has a fixed length. `StepsInv` bounds the iterations by the pair of
the star's run and the position in the pattern, which grows with every one.

*`RoutingProofs`, the subscriptions* (`OnceToItsService`, `RepliesEchoOnce`).
`GlobMeaning` is the theorem about the translation: the glob of a pattern, the
escaped prefix before it, matches under Redis's rules the channels that begin with
the prefix and whose rest the pattern matches, for all texts. The proof follows
the elements that `Escape` wrote for each character (`EscapeFacts`,
`ElementFacts`) through the escaped prefix (`GlobHead`) and from the end of the
pattern (`GlobTail`). `LiteralMatches` is the counterpart for plain
subscriptions. `SubsInv` counts: at most one of the copies that were not looked at
will be accepted, and with those accepted already they are what is due.
`RedisCopiesOwn`, `NatsDelivers` and `RabbitDelivers` establish it when the
message is published; for another service's message they need `SeparateServices`.

*`RoutingProofs`, the dispatch* (`RepliesAreOwn`, `RegisteredIsServed`). `MountInv` ties the
token counter, the path of a field and its place in the engine together:
registration fills them in different statements. `PoolInv` says that a pooled
buffer has one holder or is idle, `TextInv` that what is in a held buffer was
written for its holder, and `DueInv` that a message that came after its field
was registered is on a path that exists.

*`ClientsProofs`* (`ClientsImplement`, `NoStray`, `EntriesAreDropped`,
`LiveRequestsAreAnswerable`, `FailedPublishIsFinal`). The refinement rests on
`CallInv`: a reply in a channel or on the wire comes from a handler that ran, and
nothing is out for a call that has not begun. With it the sixty actions of the
seven transports have five forms (a call advances, ends, its handler runs, its
reply moves, or nothing visible happens), and the forms, not the actions, are
mapped to steps of `RequestReply`. `LinkInv` has one part per transport, which
says what its mutex or its `sync.Once` is for: who holds it has found no live
link and Close has not passed; a link that is replaced was down. `EntryInv` says
at which stages a request may be in the pending map, which differs for TCP, where
a request registers before it dials; `LiveInv` says at which it must be.
`TakenInv` says that a call of the in-process transport that has not been
accepted is in no queue.

*`ConsumersProofs`* (`NothingVanishes`, `AnswersComeFirst`, `RerunsNeedLosses`,
`ListenAwaitsHandlers`). `Settleable` is the set of messages that a transport may
forget; it only grows, and each transport's invariant says that it forgets
nothing else. `KafkaInv`: everything before the message in work is settleable,
which is what makes the commit of an offset a commit of all before it.
`RabbitInv`: what is on its way in the consumer is unsettled at the broker, once.
`DirectInv`: on the four transports that keep nothing a message is in one place.
The `Runs` parts count: what can still be delivered has run at most once per
loss. The theorems have the hypothesis `KafkaSequential`, one slot on Kafka: with
more, a later offset is committed while an earlier message is in work, as
`kafkamq.go:80-81` says of its ordering.

*`DeploymentProofs`* (`SeedsRunOnce`, `TableIsTrue`, `HistoryIsRespected`,
`OneRunner`, `NoGaps`). The core of `MigrationInv` is `EffectInv`: what is in
effect of a version plus what open runs may still add to it is at most one, and
zero where neither a row nor an open transaction allows it. It needs no lock. The
rest says what the lock is for: `MutexInv` (a busy pod is the holder), `AgreeInv`
(its verification still holds), `UpInv` and `DownInv` (its plan still fits the
table), `ExactInv`. `RunnerInv` is Mongo's claim: a running version has its
document. `NoGaps` has the hypothesis `Releases`, that a pod knows the
migrations before those it knows. `SeedInv` adds `SeedClaims` to `SeededOnce`: who
is between the record of a seed and its end, and that there is one.

*`CacheProofs`* (`OneHolderAlways`, `TimeIsKept`). `CallInv`
says what a caller in the middle of a file operation holds: a temporary file
with a lock, a first count, or the successor of the count it read. `HoldInv` ties
a holder to the deadline of the entry that is there.

*`ApplicationProofs`* (`HooksAreComplete`, `HooksComeLast`, `ModulesOnce`,
`ControllersHeardOnce`, `ModulesArePrivate`, `HandlersBehindGuards`). `LifeInv` counts hooks: one goroutine
calls the start hooks in order, and a shutdown that is at hook `n` has run those
above it. `ServeInv` says that a server a shutdown has closed stays closed, so that
the requests in flight only dwindle. `LoaderInv` is about the stacks of the
loaders: `PlaceInv` (a module is in one frame, in the memo, or in neither, and
`loading` is the set of modules in frames), `OrderInv` (every order that puts
imports first also orders each stack), from which `CycleInv` follows: a loader
that meets a module of its own stack has found a cycle. `BuiltInv` counts one
construction for a module in a frame or in the memo, and none for another.
`RouteChains` and
`RequestInv` say where a request is in its chain and that the guards before that
place have passed.

**Assumptions.** The sets of transports, pods and seeds are finite, as are the
migrations a pod knows. The fields of a controller are distinct
(`DispatchingAssumption`), and the pool has a buffer for each dispatch at work
(`sync.Pool` makes one when it is empty). A stored cache entry is none of the
markers for "no entry" and "corrupt". `LoaderAssumption`: modules are finitely
many and import each other, and `cyclic` says of a graph that it has no order with
the imports first. `ApplicationAssumption`: no guard has the name the model
gives to a middleware or to the handler. TLC evaluates all of them.

**Only model-checked.**

Every safety property of the passing runs is a theorem. Liveness under fairness
is beyond the prover and stays with TLC: `ListensUntilStopped`,
`WaitingMessageIsDecided`, `CallsReturn`, `EveryMessageIsTaken`,
`CancelEndsListen`, `RunsEnd`, `ExpiredIsReclaimed`, `SignalEndsMain`. That the
glob matcher of `Subscriptions` is Redis's own is an assumption about an external
server, as are the copies that NATS and RabbitMQ deliver.

## 6. Plan

1. *Done:* every component with shared state, as listed in section 1; the
   theorems of section 5, one for every safety property of the passing runs.
2. *Next:* what the remaining components keep as state, if it becomes shared; the
   code that would refuse prefixes that nest, and with it `OnceToItsService`
   without its hypothesis.

**Not modelled.** Encoding and identifiers of envelopes, frames and codecs;
options and their defaults; reflection over struct tags, handlers and
descriptors (the gRPC API, validation, Swagger); query construction in the
repositories; driver pools, and with them the pool of one connection that a
migration lock can exhaust; the limit on TCP connections; the registry of named
clients; the counting of the rate limiter's store; CORS; the test helpers; an
observer that returns an error, which ends the bootstrap in a panic; a removal
that the janitor fails at; a transport of another repository whose `Listen`
returns nil on its own (`server.go:379`), which none of these seven does. They
are data or third-party code, or keep no state that two steps share.

## 7. Running it

In this directory, `tlc -config MCRouting.cfg MCRouting` runs a configuration
(each `.cfg` is named after its module, with a suffix for a second run of
the same module), and `tlapm RouterProofs.tla` checks the proofs of a module;
there are eight, all named `*Proofs`. `ApplicationProofs`, `ConsumersProofs` and
`DeploymentProofs` take several minutes each when nothing is remembered.

# awslib in TLA+

Specifications, model-checking configurations and machine-checked proofs about
`awslib`, the Go library in `src/`: a layer over `aws-sdk-go-v2` that hands out
clients for many accounts and regions, fetches resources from all of them at
once, and caches what it fetched.

## The system

| Part | State | Operations | Hard behaviour | Correct when |
|---|---|---|---|---|
| `resources.Provider`, `ResourceReader` | two buffered channels, a WaitGroup per side, the reader's slices, per proxy an answer channel and a timer | `Run`, `Read`, `Failures` | one goroutine per proxy and one per call, timeouts that race late answers, a full channel | every proxy is accounted for once, as an answer or a failure; both calls return even if AWS never answers |
| `v3.ClientPool`, `FailureCache` | clients per account and region, roles, remembered failures | `GetClients`, `GetAccountClients`, `GetClient`, `PoolAccountIDs`, `ListAccountIDs` | concurrent builds of the same pair, failures outliving their cause, a lock held across a call of AWS | the matrix is complete, scoped to the account asked for, served from the cache; credential failures are not remembered; no request hangs |
| `v3.ClientBuilder`, `Client` | default client, credentials per role | `DefaultClient`, `AssumeClient`, `LocalClient` | check-then-act without the lock | no unlocked map read beside a write |
| CloudTrail event stream (`service/cloudtrail`, `service/helper.go`, `cmd/events`) | two unbuffered channels, a paginator, a context | `ListEventsByInput`, its async form, `ReadChannels`, `CancelContextOnError` | sends that give up, sends that wait, retries, cancellation | events in order, no silent end, no goroutine left behind |
| `cache.DataCache`, its handlers, cached repositories | handlers in order, entries by key, files with an age | `Read`, `Write`, and the wrapper of every `Get*` and `List*` method | keys shared by services, files overwritten in place, handlers written one by one, restarts | a hit is a whole answer to the same call, no older than the ttl, and nothing of a call under another key gets into it; the cache's own failures cost a call of AWS and nothing else |
| `cache.Key` | none | `Key` | depth limit, maps, pointers | different calls have different keys |
| `resources.Observer`, `ResourcePool` | providers by type, resources by type, gauges | `Serve`, `HandleResourceReader`, `flush`, `updateMetrics` | a handler that fails in a sweep, goroutines that read the pool without its lock | the error of `Serve` tells what the pool holds; the gauges show it |
| `proxy.RepoProxyPool`, `RepoProxy`, `GenericRepoProxy` | gateways, cache | `List`, `WithCache`, `FindAll` | global services, pools without a client in the preferred region | a global type is listed once per account |
| CloudFront distribution tenants | tenant, ETag, status | create, update, enable, disable, delete | read-modify-write with ETags, lost responses | nothing is replaced or deleted unread |
| CloudFront connection groups | group, ETag, status, tenants attached to it | create, update, delete | a delete with the ETag of its own disable | nil means the group is gone, stale means it changed |
| `List*` methods of every repository | a token, the slice so far | `List*All`, `List*ByInput` | a page or a further request fails among others, chunks, methods that call each other, an input used again | without an error nothing is missing but what could not be had; with one there is no gap |
| Cost Explorer | query, filter rows | the builders of rows and queries, `Validate`, `GetCostAndUsageByQuery`, its cached form | rows that carry nothing, sole children, negation, a shared key | the request selects what every row lets through; an answer is served to its own query only |
| `provider.ClientPool` (local profiles), role discovery | clients, failures | `GetClients`, `GetClient` | sequential, no locks | as the v3 pool |
| Metrics, generators, entity accessors | | | | they decide nothing |

A caller makes a `ClientPool`, a `RepoProxyPool` of one proxy per client, and a
`Provider` over the proxies `List` selects for a type. `Run` calls each proxy's
`FindAll`, which calls a repository, through the read-through cache if there is
one, and the repository pages through AWS. `Observer.Serve` does this for one
type after the other and passes each reader through the middleware, which
stores the listing in the `ResourcePool`, to the handlers.

## Modules

| Module | Models |
|---|---|
| `FanoutContract` | what a caller of `Provider.Run` may rely on, without goroutines |
| `Fanout`, `FanoutProofs` | `resources/provider.go` and `resources/reader.go`: `findResources`, `findResourcesInRegion`, `flush`, the goroutine of each call, the reader's two goroutines, `Read` and `Failures` |
| `ClientBuilder` | `provider/v3/client_builder.go`, as each goroutine runs it |
| `ClientPool`, `ClientPoolProofs` | `provider/v3/client_pool.go` and `failure_cache.go`, over `ClientBuilder` |
| `EventStream`, `EventStreamProofs` | `fetchEventsByInput`, `ReadChannels`, `WriteToChan`, `CancelContextOnError`, the loop of `cmd/events` |
| `CloudFrontCalls` | what both kinds of operations on CloudFront below have in common: callers, their calls, the answers, and the SDK's repetitions |
| `DistributionTenant` | the operations of `service/cloudfront/distribution_tenant_repository.go` that change a tenant, with CloudFront as they use it, over `CloudFrontCalls` |
| `ConnectionGroup` | those of `connection_group_repository.go`, over `CloudFrontCalls` |
| `CloudFrontProofs` | the proofs about these two |
| `CachedMethods` | which methods of which service the generated `cached_repository.go` wrap |
| `CachedRepository`, `CachedRepositoryProofs` | calls of those wrappers over `cache/datacache.go`, `cache/handlers/file.go` and `memory.go` |
| `Gateways` | `proxy/`: which gateways `RepoProxyPool.List` selects for a type, and which repository method `FindAll` calls for it |
| `ResourceCycle`, `ResourceCycleProofs` | `resources/observer.go` and `resources/middleware/`, over `Gateways` |
| `CacheKey` | `cache/key.go` |
| `CostFilter` | `service/costexplorer/filter.go` and what a rendered expression selects |
| `CostQuery`, `CostQueryProofs` | queries of `service/costexplorer/repository.go` and their cached form, over `CostFilter` and `CacheKey` |
| `ListMethods` | how each `List*` method pages, describes and fails: one record per method, methods with the same loop are the same record |
| `Listing`, `ListingProofs` | a call of one of these methods, and the next with the same input; `ChunkSlice` of `service/helper.go` |
| `MC*` | the instances that TLC checks |

`Fanout` and the abstract `FanoutContract` are related by a refinement, and
`ResourceCycle` uses the contract: its `Serve` takes a listing in one step, at most
one answer from each gateway. `ClientPool` composes the pool with the builder.
`CostQuery` composes the filters with the key.

Operators called `mutant` in a comment are deliberate faults, each defined
before the operator it stands in for. No specification uses them; they show that
the properties can fail.

### Fanout

A goroutine is a control variable: `launcher` (`Run`, then `findResources`),
`worker[p]` (`findResourcesInRegion`), `call[p]` (the goroutine that calls
`FindAll`) and the members of `readerWg`. A channel is a sequence with a
capacity; a send that would block is a guard, and the `select` with `default` in
`flush` is a choice on the length. A step is what a goroutine does up to the
next operation another goroutine could see. A resource is a pair of a
proxy and an index of its answer, so that loss and duplication are visible.
`FindAllReturns` has no fairness: a region may never answer.

### ClientBuilder and ClientPool

A goroutine is `<<caller, region>>`, or `<<caller, NoRegion>>` for the caller itself.
`pc` is where it is. A critical section that contains no call is one step guarded by
`Unlocked`; `ListAccountIDs`, which calls STS under the lock, holds `poolLock`
over several. `FailureCache` has a mutex of its own and each of its methods is
one step. Each call of STS succeeds or fails either way, independently: this
includes every history of sessions that expire and come back and of regions
that are disabled. The clock is abstracted to the age of an entry: `Outlive`
makes a remembered failure stale at any time. A map that Go would abort on is
modelled as if it did not: what the abort would be is the subject of
`NoConcurrentMapAccess`.

### EventStream

An event is named by its place, `<<page, index>>`, so that loss, repetition and
order are visible. An unbuffered channel passes a value only to a waiting
receiver: `SourceReady` and `ErrChanReady` say whether there is one, and
`WriteToChan` skips its value when there is none. Go takes a goroutine out of a
`select` when one of its channels becomes ready, so a receiver whose context is
done is not found waiting; a `select` that starts with several channels ready
may take any. `LookupEvents` answers the next page or fails; once the context
is cancelled it only fails. The `break` within the `select` on `ctx.Done`
leaves the `select` only, so the loop goes on.

### DistributionTenant and ConnectionGroup

`tenant` is what CloudFront has under one name. An id and an ETag are numbers of
one counter, so a tenant that is deleted and created again has another id.
`pc[c]` is the call of CloudFront that caller `c` makes next: a delete is
`get`, and for an enabled tenant `disableGet` and `update` (which are
`SetDistributionTenantEnabled`), then `delete`. `seen[c]` is the tenant value the
Go code has in hand; each call after the first presents its id and ETag. A call that
takes effect may lose its response once per `MaxLost`, and the SDK then repeats
it; `Fail` is any call that fails for good. CloudFront answers each
call that succeeds with the tenant, so the branches for a nil tenant
(lines 282, 324, 348, 376, 444, 459) are not taken. Input validation and the
metrics are left out.

A connection group differs in three ways: its delete does not read again after
the disable but presents the ETag of the answer, the account's default group is
never deleted, and a group that tenants use is refused (`attached` changes at any
time). `overlooked[c]` is a history variable: the group has changed since `c` got
the version it has in hand.

### CachedMethods and CachedRepository

All wrappers are instances of one template, so one state machine stands for them;
`CachedMethods` says which there are, which have parameters, which are never
written because they return no error, and which may answer a nil pointer.
`store[h][k]` is what handler `h` has under key `k`. A handler method holds its
mutex from beginning to end and is one step, the call of `DataCache.Write` is one step per
handler. The n-th complete answer of AWS is a value of its own, so a property can
tell an answer from a later one to the same call. `expired` remembers
which handler has dropped which answer.

The file handler opens its file without truncating it, and the bytes have no checksum.
`WriteFails` and a `Restart` within a write leave what a file overwritten in part may
hold: the old entry, torn bytes, or the old bytes under a new time (the encoder writes the
description of the type, which is the same, before the value). The bytes of longer, earlier
answers stay behind shorter ones, so an entry keeps `of`, the calls whose answers its bytes
may be from, across writes. Torn bytes decode or do not: a hit may be a mixture of all
these answers, and a decode that fails may leave some of it in the variable that the
next handler decodes into (`datacache.go:44-53`, gob leaves alone the fields that are
zero in what it decodes). `residue[c]` has the calls whose answers may have come into a
caller's variable in this way; a `Fetch` goes to another variable.

`Rendering` is what `cache.Key` makes of arguments, any function: it may give
different arguments one key, as the code does with what lies deeper than `keyMaxDepth`,
with a nil slice and a nil pointer, and with values of one hash. gob's
refusal to decode one service's whole answer into another's type, before it decodes any of it, is
taken from the fields of the types that share a name; an answer that gob would decode into an unlike
type, of two services that have no method in common, is not in question. A second
process over the same directory is not modelled, nor is `ListEventsByLookupCached`
(`events_repository.go:130`), written by hand: it returns the error of a failed
`Write` beside the events, which the generated wrappers do not.

### Gateways and ResourceCycle

A gateway is the account and region of its client. `List` is a set: the order of
the gateways matters only for which is the first of an account. `Finder` says which
repository method `FindAll` calls for a type, and that a type without a case
gives an error. `Serve` goes through the types by `pc` and `at`; one step takes
the reader's whole content, some count for each gateway that answered and none for
one that failed. The handler is called after the middleware has stored the
listing in `pool[t]`, which also keeps the `Serve` it is from. Each flush
starts an updater, a goroutine that reads the pool and then sets one gauge per
step. `flush` replaces the list of a type in two steps, so that the unlocked read of
an updater may meet it; then the runtime aborts (`crashed`) or the updater
finds the old list, the new one or none, and the type is `disturbed`.

### CacheKey, CostFilter and CostQuery

A Go value is a tree of tagged records and its rendering such a tree, so that two
keys are equal exactly if their texts are. Expressions and values are defined
level by level, as sets (`Expressions[n]`, `GoValues[n]`), and what is read off a tree is a
recursive function over such a set: `MaxNesting` bounds the levels of an expression,
`MaxHeight` those of a value, pointers included, and `CostAssumption` has the second follow the
first. `TimeText` stands for `MarshalText` of a time. A row is built by one call after the
other, like a caller of the library does; `Expression` renders it and `Matches` says
which lines of a bill an expression selects, which is how the properties
tell what a filter *means*. A line has one value, or none, for each dimension, tag
and cost category. `Validate` refuses
match options other than `EQUALS`, `CASE_SENSITIVE` and `ABSENT`; case is not told apart. `Present` is the negation of `Absent`.

### ListMethods and Listing

The page loops of some fifty methods differ in a few ways, and a record names them:
whether all pages are read, where the marker is kept, what is asked further about
items and in which portions, and what a failure of either leads to. `Listing`
executes such a record. `stack` has the method and, above it, the one it has called,
each with the page it is to ask for next, what it is still to ask about (`todo`, a
sequence of portions) and what it has got. An item is where it is in the listing, so
that an order, a loss and a repetition can be told. `skipped` has what is gone
after a failed request, or was not found or elsewhere; the code does not know it, the properties need
it. `input` is the caller's input, which `ListHostedZonesByInput` changes. A failure of a page is a request
the SDK has given up, a cancelled context included. The listing itself is
taken not to change meanwhile; `DescribeClusters` without an identifier is taken to
answer none. A nil input is given only to the methods that look for it. The certificates of
tenants, which are read concurrently, are not part of this.

## Runs

| Run | Instance | Shows |
|---|---|---|
| `fanout` | 2 proxies, up to 2 resources each, a bus of 2 | types, no send on a closed channel, failure sends never block, discards only beyond the bus, `FanoutContract` is implemented, `Read` and `Failures` return, abandoned calls exit |
| `client_pool` | 3 callers, 2 accounts, 2 regions, with roles for any of the accounts | cached clients are served, credential failures are not remembered, the matrix is complete and scoped, every request ends |
| `builder_race` | the same | violation: the credentials map is read beside a write |
| `event_stream` | 7 trails of up to 4 events, 4 limits, 2 page failures, both consumers | events come in order and once, less the malformed and the skipped; a nil error means that all was read and parsed; `ReadChannels` returns, no goroutine is left unless cancelled |
| `event_stream_cancel` | the same | violation: a cancelled fetch does not end |
| `distribution_tenant` | 3 callers, every operation, 1 lost response | a change replaces the version its caller had in hand, nil from a delete means that tenant is gone, a success is the state asked for, a retried delete ends |
| `connection_group` | 3 callers, every operation, 2 lost responses | nil from a delete means that group is gone and was not the default; a refusal for a stale ETag means a change the caller did not see, its own disable is none |
| `cached` | 2 callers, 6 calls of 4 services, 2 accounts, file then memory, 2 complete answers | what a call returns is an answer to itself as far as its arguments are rendered, and torn bytes mix in only answers under its key; no partial answer is a hit, an expired answer does not come back, failing handlers do no harm |
| `resource_cycle` | 7 lists of gateways, both kinds, 3 types, 2 calls of `Serve` | a global type is listed once per account, and an account is left out only if it lacks the preferred region; the error of `Serve` tells which listings are new; an updater that met no other and no write leaves the gauges at the pool's counts |
| `cost_query` | 2 queries on 11 bases, each with a row built in any way | the request selects what services, tags, rows and expression all let through, well-shaped; a query is answered from the cache only by its own answer |
| `listing` | every method, 4 layouts of up to 3 pages for the items and for what belongs to each, chunks of 2, a limit of 2, 2 failing requests, 2 calls | with a nil error the result is every item of the pages read in order, less what was skipped; with an error a beginning of it; every call ends |
| `listing_complete` | the same | violation: one page of several is the whole answer |

### Bounds

* `fanout`: two proxies are the smallest number at which one answers while the
  other fails, times out or hangs, and four resources against a bus of two
  fill it with and without the reader draining. `ResourceBusSize` is 10000 in
  the code; the proofs hold for every size.
* `client_pool`: two callers may build the same pair while a third finds the
  outcome, which is what a stale failure beside a client needs; two regions of
  one account share a role; two accounts are needed for scope, one of them that of
  the default credentials; roles are configured for both accounts, one, or none. The requests
  are those of `MCAsks`, each caller makes one.
  The proofs hold for all.
* `event_stream`: a second malformed event is what strands a sender; two failures of
  a page before it answers, at any place, cover a retry after a retry. Failures
  under a cancelled context are not bounded.
* `distribution_tenant`, `connection_group`: a delete that is overtaken needs one other
  caller, a name that is deleted and created again beside it needs two. One lost
  response shows each call repeated; a second one, for the group, the answer to the
  disable and the one to the delete.
* `cached`: ECS and EKS `ListClustersAll` share a key, the other account's differs from
  ECS's by the namespace alone; two queries of costs are rendered alike. `cmd/events` reads
  the memory first; here the file comes first, so that another handler is
  read after torn bytes. Two answers of AWS are enough for one to be stale beside
  the other, and for two callers to fetch at once; errors, nil answers, failed writes,
  expiries and restarts are not bounded.
* `resource_cycle`: the lists of gateways are pools with and without each preferred
  region, of one and two accounts, complete and with a hole. A global type, a
  regional one and one `FindAll` does not know; `Serve` is called for one type or
  two, and twice, so that a listing replaces another. Up to one resource of a type in a
  pair tells a listing with it from one without.
* `cost_query`: the bases have services, tags and expressions of every shape, up to four
  nested `And` nodes, a billing view, and the four queries `Validate` refuses. One row beside the base's
  own parts is enough for an `And` with two or more children, and for a sole child; two
  queries, for one to find the other's answer. A day has two hours.
* `listing`: the layouts have an empty listing, a page of a chunk and a half, two
  pages, and an empty page between two others. Two failures let a repeated request fail again,
  and an item be lost before a page fails. Chunks of 2 stand for those of 10 and 20.

### Fairness

* `Fanout`: weak fairness of every goroutine and of the timer: a goroutine that can
  run is scheduled. None for `FindAll`.
* `ClientPool`: weak fairness of every goroutine, which includes that STS answers
  or its five attempts run out. Each request takes each mutex a bounded number of times.
* `EventStream`: weak fairness of the three goroutines, which includes that
  `LookupEvents` answers or fails. None for the cancellation.
* `Listing`: weak fairness of the call in progress, which includes that AWS answers or
  fails.
* `DistributionTenant`: weak fairness of each caller's calls, which includes that CloudFront
  answers and that the caller of a delete retries as its doc asks, and of `Settle`.

Deadlock checking is off where the modelled program stops by itself.

## Proofs

Each module of proofs has the same form: an inductive invariant `IInv`, theorem
`Initially` (`Init => IInv`), one lemma per action or group of actions that have
the same effect, `Consecution` (`IInv /\ [Next]_vars => IInv'`), `Invariance`
(`Spec => []IInv`), and a theorem per property. None of the main properties is inductive
alone. The types are proved wherever a run checks them.

`FanoutProofs`, for every finite set of proxies, every `MaxFound` and every
bus size:

* `IInv` joins the type invariant, `Control` (who
  is where when the WaitGroups are empty and the channels closed),
  `ResourceAccount` (the accepted resources are in the reader's slice, in
  the channel, or discarded, each once), `FailureAccount` (the same for
  failures, which are also at most one per proxy) and `DiscardsOnlyBeyondBus`.
  That a failure send finds room needs the count of failures, and that needs to
  know which workers have reported.
* `NoSendOnClosedHolds`, `ReportNeverBlocksHolds`, `DiscardsOnlyBeyondBusHolds`.
* `ContractHolds`: `Fanout` implements `FanoutContract` under the refinement mapping
  the run checks. Steps map to `Answer`, `Fail`, `Lose`, `Read`, `Failures` or
  stutter; lemma `AnswersLast` gives that an accepted answer never changes.

Assumptions: the set of proxies is finite, `MaxFound` is a natural number, the bus
has room for one resource.

`ClientPoolProofs`, for every set of accounts, regions and callers and any requests:

* `IInv` adds to the types `InRequest` (which goroutines of a caller exist while it is
  where it is), `AtWork` (each works on its own region, and only while the caller
  waits), `Accounted` (the pairs a sweep has come to are built, left out, or being
  worked on, each in one way only) and `Cached` (a client handed out, or found before, is in the
  cache). `Accounted` is what makes "the WaitGroup is empty" mean that the matrix is complete.
* `CachedClientServedHolds`, `MatrixCompleteHolds`, `AccountScopedHolds`.

Assumptions: a goroutine is a caller with a region or without one, there is a region, the
default credentials are of one of the accounts. The builder's mutex and map play no part in
these: they hold although `NoConcurrentMapAccess` does not.

`EventStreamProofs`, for every trail, limit and consumer and any number of failed pages:

* `IInv` adds to the types and `InOrderBarSkipped` `Where` (only in the loop over a
  response is one of its events left; the exit is the loop's condition), `Skipped` (what is skipped was
  come to) and `Told` (while `ReadChannels` has no error no malformed event was passed,
  and only the closed `errChan` can have ended it). That events come once and in order
  rests on `HandledOne`: the next event lies after all that are handled.
* `InOrderBarSkippedHolds`, `NilErrorMeansReadAllHolds`. `TypeCorrect` includes
  that `eventsFetchedCount` is the number of events of all responses (`AnsweredOne`).

Assumptions: a trail has at least one page, which may be empty; `NoLimit` is no number.

`CloudFrontProofs`, for every set of callers and requests and any number of lost
responses. It extends both modules, which share the names of `CloudFrontCalls` and no others;
a theorem is about one of the two specifications. Of groups:

* `GroupInv` adds `Versions` (ids and ETags are given out in order), `InHand` (what a
  caller at a given call asked for and has in hand; never the default group at a delete),
  `DefaultStays` (a group stays the default one, or not) and `UpToDate` (the version in hand is
  the current one unless it was overlooked). `UpToDate` carries `StaleMeansChanged` over
  a delete's own disable.
* `NilMeansGroupGoneHolds`, `StaleMeansChangedHolds`.

Of tenants:

* `TenantInv` adds to the properties of the run `TenantControl` (what a caller
  at a given call asked for and has in hand) and `TenantCurrent` (no id or ETag above
  `version` is in use, and a tenant in hand with the current ETag *is* the current
  tenant). `TenantCurrent` is what makes a compared ETag mean an unchanged tenant and a
  recreated name a different one.
* `NilMeansGoneHolds`, `ReturnsWhatWasAskedHolds`, and the action
  property `ReplacesWhatItReadHolds`.

Assumptions: `Gone` is no group and no tenant, requests have the shape the operations take,
there is at least one set of hostnames.

`CachedRepositoryProofs`, for every set of callers and calls, every list of handlers
and any number of answers:

* `IInv` adds to the properties of the run `Stored` (an entry is a complete
  answer to a call of its key, and no other key of the handler has it), `SameKey` (the calls
  whose answers an entry's bytes or a caller's variable may hold have the key in question), `Asked` (where a
  caller is tells what it has in hand and returned), `Once` (an answer being written
  is in one hand, and the handlers not yet written never had it) and `ExpiredWasFetched`.
  `TtlNotExtended` needs `Once`: else a slow writer could put back what has expired.
* `OwnAnswerHolds` (from `Stored` and `SameKey`: calls with one key are alike in method name,
  account, region and rendered arguments), and `OwnCallHolds`: where `Rendering` tells the
  arguments of the calls apart, a call that met no torn bytes returns an answer to this very
  call. Then `NoPartialHitHolds`, `TtlNotExtendedHolds`,
  `CacheFailureHarmlessHolds`.

Assumptions: calls are of methods in `CachedMethods` and have arguments where the method
has parameters, `Rendering` is defined for these, handlers are of the two kinds, `None` is no call, answer or entry.

`ResourceCycleProofs`, for every list of gateways without repetition, any types and any
number of calls:

* `IInv` adds `Selected` (a remembered provider asks what `List` selects), `StoredSoFar`
  (the pool has listings of this `Serve` for the types up to where it is) and
  `GaugesFollow` (in a type that is not disturbed there is one updater at most, it has the
  pool's counts, and the gauges it need not set any more show them).
* `GlobalOnceHolds`, `ServeAccountHolds`, `GaugeShowsPoolHolds`.

Assumptions: no two gateways of a pool have the same account and region
(`RepoProxyPool` is made of the clients of a pool, one per pair); the observed types
are types of the library.

`ListingProofs`, for every set of methods in `ListMethods`, listings with any pages, chunks
and limits of any size and any number of failing requests and calls:

* `IInv` has the types of what is given and counted, what the result is once there is one, and
  `Good`: the stack is in one of five stages. A method reads pages itself (`Reads`), or calls
  others: it has not yet called the one that lists (`Calls`), that one is being read (`Lists`), it
  has the list and asks about its items (`Asks`), or what belongs to one of them is being read
  (`Follows`). The properties speak of a call that has ended, and say nothing of the frames of one
  that has not; `Good` does.
* For a frame that reads pages `Reading` keeps one equation: `got` and what is `Ahead` of it
  (`todo`, and the pages from its marker on) are what its pages hold, without what is gone. A
  request moves items from one side to the other (`PageByPage`, `ChunksHoldAll`) or takes them from
  both (`HeadLaw`); only a limit ends it early, with a prefix. `Asked` is the same for a frame that
  asks about listed items, where the items gone and those still to come must be `Apart`: an item
  says to which it belongs.
* The laws behind the equation are lemmas about `FlattenSeq`, `Without`, `Chunks` and `Belonging`.
  They need induction, which the library states for a predicate; `NatSets` and `SeqSets` state it
  for a set, and follow from the minimum of a well-founded relation.
* `NilErrorMeansAllHolds`, `ErrorMeansPrefixHolds`, and `CompleteWherePaged`: the promise
  of complete slices, which `listing_complete` refutes in general, holds for each method that asks
  for every page or gets all in one answer, when no request fails and nothing further is listed
  for each item. It needs `MarkerKept`, that only a method that
  keeps its marker in the input changes it.

Assumptions: the methods are records of `ListMethods` (`MethodFacts` and `CallerFacts` are checked
of each), a listing has at least one page, which may be empty, chunks and limits are positive.

`CostQueryProofs`, for all bases, values, match options and keys, any number of rows and queries,
and expressions of any depth where it is not said otherwise:

* `IInv` has that a query, in hand or stored, is one a caller can have built from a base
  (`IsQuery`), a stored answer has the key of its query, and the request in hand is that of the
  query. What the properties say of one query is a matter of its trees, and lies in lemmas.
* `FilterMeansRowsHolds`: `ExpressionsAre` and `MatchesIs` unfold a recursive function one level,
  `AndIs` gives what `combine` selects and that it makes no node with one child, `RowIs`
  the same for a row, and `FilterIs` puts `buildFilter` together.
* `KeyTellsApartHolds`, for a `MaxNesting` of up to 5, which is expressions of the caller's own of up to
  four levels: their deepest values then lie at `keyMaxDepth`. `WriteIs` unfolds
  `writeCanonical` one level; `ExpressionsApart` shows by induction over the levels that two
  expressions with one rendering are the same, and `QueriesApart` the same of queries, field by field.
  With one level more it is false, as below.
* Induction is over the levels of a tree, with the set of levels for which a statement holds
  (`NatSets`) in place of a predicate; that the recursive functions exist is proved in the same way.

Assumptions: no two times are written the same, the strings the code writes are strings, a
`MaxHeight` that holds any query's value, a base is what the helpers of `filter.go` build.

Only model-checked: the termination properties, which are liveness under fairness. Every
invariant and action property that holds is proved.
`NoConcurrentMapAccess`, `CancelStopsFetch` and `EveryListingComplete`
do not hold.

## Where code and documentation part

* `builder_race`: `getRoleCredentials` reads its map without the lock.
* `event_stream_cancel`: a cancelled fetch spins or blocks.
* `listing_complete`: `README.md:21` promises complete slices; the listings of EKS, CloudWatch
  Logs, ELB, DynamoDB, SNS, SQS, S3, Glue, Health, the price list and a role's policies
  are one page.

Also met, and not the subject of a run.

In `Fanout`, `ResourceCycle` and `Gateways`:

* `reader.go:77-79` promises that an empty `Failures()` means a
  complete list; `flush` discards under a full bus (`provider.go:181`) without a failure.
* A region that fails leaves the listing of its type without its resources, and the
  handlers are not told: none of them looks at `Failures`.
* An account without a client in `us-east-1` is left out of global types when another
  account has one (`proxy_pool.go:65`).
* The unlocked read of the pool's map (`middleware/pool.go:90`) can abort the process;
  updaters that overlap leave stale gauges, and the gauges of a pair that has no
  resource any more are never reset.
* `RepoProxy.FindAll` has no case for the Athena types and `Trail`.

In `EventStream` and `CachedRepository`:

* Events are skipped without an error when nobody waits for them
  (`events_repository.go:85`), where `README.md:21` promises complete slices.
* gob panics on the nil pointer that stands for "no price" (`pricing/cached_repository.go:38`).
* A cache key has no service, so listings of one name, `ListClustersAll` of ECS, EKS and EMR,
  replace each other within their ttl.
* A write to a file that breaks off (`file.go:92`) can leave a mixture of old and new
  bytes that decodes, so that a hit has parts of two answers, if only of one key; or a renewed
  file with an old answer; or, when the decode fails midway, part of an answer in what the next
  handler's answer is decoded into.
* `key.go:36-37` has different values give different keys; arguments that differ only below depth
  12 share an entry, and a call is served the other's answer.

In `DistributionTenant` and `ConnectionGroup`:

* "Deleting an already-absent tenant is not an error"
  (`distribution_tenant_repository.go:427`) does not hold when another caller
  deletes the tenant between the first read and the disable; the same for a group.
* A group that tenants use is disabled before its delete is refused, and stays disabled.

In `CostQuery` and `CacheKey`:

* The period is cut to days after `Validate` has looked at it, so a daily query within a
  day is sent with an empty period (`repository.go:171-185`).
* `Absent` after `Excluded` or `Present` keeps the exclusion, and an excluded row
  without values filters nothing. Neither the expression, the services and tags nor the billing view are
  validated.
* From five nested `And` or `Or` nodes on, keys of different queries coincide
  (`keyMaxDepth`); a nil slice has the key of a nil pointer, and a struct that of one with its
  name in another package.
* `FilterByTags` and `FilterByCostCategories` order their children as the map comes, so
  equal maps give different keys.

In `Listing`:

* `ListHostedZonesByInput` leaves the marker of the last page in the caller's input, so
  a second call with it returns that page; `ListApplicationsByInput` drops the
  applications it finds and panics on one it does not, `ListJobRunsAll` with it;
  `ListClustersByInput` of ECS panics when `DescribeClusters` fails
  (with `Methods` reduced to one of the first two, `EveryListingComplete` shows it).

Elsewhere:

* Two goroutines of one sweep may each set up the credentials cache of a role, where
  `README.md:14` says credentials are cached per role.
* `failure_cache_test.go` expects a default ttl of six hours, `failure_cache.go:22` says
  three.
* `compareDBEngineVersions` (`rds/db_versions_repository.go:86`) compares a version with
  itself.
* `Blame.Lookup` wraps a nil error (`blame.go:105`), so that a success comes with an error
  that is not nil.

## Not modelled

* `provider.ClientPool` and role discovery: a command line's pool over local profiles, with no goroutine,
  lock or retry. Its matrix is a loop, its failure cache the one of `ClientPool`.
* The blame lookup: it keeps no state and asks the event stream once.
* The single reads, creates and updates of the repositories other than CloudFront's: one
  call of AWS each, and an error passed on. The forecast of Cost Explorer likewise.
* The certificates of tenants, fetched by a bounded number of goroutines, each of which
  writes an element of its own.
* The region cache of S3 (`s3/bucket_repository.go:138-173`): one map for all accounts, behind a mutex
  held across the request. Its first use is not synchronised, so goroutines that list buckets
  at once may each make one, and what is in the one that is replaced is asked again.
* The SDK's configuration and the clients per service that `Client` keeps.
* Metrics: counters no control depends on, but for the gauges of the pool.
* The code generators: what they generate is modelled where it has behaviour.

What would extend the project most: the certificate fetch with its semaphore as a
module beside `Fanout`, and a second process over the directory of the file handler.

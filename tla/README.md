# go-hyperliquid: TLA+ models and proofs

go-hyperliquid is a Go SDK for the Hyperliquid exchange: signed actions and info
queries over HTTP or over a WebSocket "post" connection, market and account
streams over a second WebSocket connection. The models below follow the code under
`src/`; `PROJECT.json` maps each definition to the lines it stands for.

## The system

| part | state | operations | hard behaviours | what makes it correct |
|---|---|---|---|---|
| nonce generator (`internal/nonce`) | process-wide registry signer -> generator; `last` | `ForSigner`, `Next` | CAS races, clock steps, two clients of one key | strictly increasing per signer, at most a burst ahead of the clock |
| `ws.Conn` life cycle (`internal/ws/conn.go`) | published socket, `closed`, contexts, the supervisor's position and backoff | `Start`, `Close`, `supervise`, `connectAndRun`, `pingLoop` | Close at any point of a dial or a clean-up; dead peers; reconnect for ever | no leaked and no stale socket, nothing after Close, supervisor ends |
| `ws.Conn` post requests | `pending`, two channels per call | `Post`, `dispatchPost`, `failAllPending`, `dropPending` | timeout against reply, socket replaced under a caller, duplicates | one outcome per call, never re-sent, nobody forgotten |
| `ws.Conn` subscriptions (+ `domain/streams.go` `watch`) | `subs`: groups of members per route key | `Subscribe`, `Unsubscribe`, replay, `dispatch` | frames written outside the lock, reconnect during deliveries | exchange and registry agree, no mixed state, own feed only |
| rate-limit window (`internal/ratelimit`) | ring of 60 packed words | `Add`, `Used` | CAS races, slow adders, clock steps | no weight lost or duplicated, bounded overshoot |
| address budget | three atomics | `Sync`, `Consume`, `Snapshot` | a Sync overwrites sends recorded while its query was under way | the mirror follows the exchange's count |
| request engine (`internal/engine`) | pooled buffers; the parts above | `Info`, `Action` | admission before, accounting after; nonce and send in different orders; lost replies; gateways | an outcome never says more than is known |
| client (`client.go`, `config.go`), signer | lazy connections (`sync.Once`), life context, key | `NewClient`, `PostConn`, `StreamConn`, `Close` | first use against Close, a signature against the wiping of the key, defaults against `Testnet` | nothing runs after Close; one network |
| asset registry (`internal/assets`) | atomic snapshot pointer, `loadMu` | `Get`, `Refresh`, `StartAutoRefresh` | concurrent first loads, readers around a swap, waiters | never an older snapshot, every waiter returns |
| user streams (`perpetuals/stream.go`) | reused decode target | `WatchOrderUpdates`, `WatchUserFills`, ... | reuse from push to push, a refresh during a filter | a handler gets its own push |
| section operations (`perpetuals/`) | none of their own | `CancelAllOrders`, `CancelForgottenOrders`, `ClosePosition`, `SlippagePrice` | read, then act on what was read | complete, only what was asked, never a flipped position |
| domain operations (`internal/domain`) | none | orders, modifies, cancels, margin, queries, subscriptions | one bad item of a batch, options that would not be sent | what is sent is what was asked for and what the exchange takes |
| encodings (`internal/action`, `internal/msgpack`) | none | MessagePack and JSON by hand | two forms of one action with optional keys and hand-made counts | what is signed is what is sent |
| fixed point and precision (`types/`) | none | parsing, printing, grids | powers of ten, `int64` ends | exact or refused; on the grid in the asked direction |
| error mapping (`internal/hlerr`) | none | texts and statuses to kinds | order of the rules | see the request engine |
| codec, logging, metrics, examples | none | | | not modelled |

How they meet: an operation of a section validates its arguments against the registry's
snapshot and calls the engine. The engine asks the window (`admit`), takes a nonce, signs
and sends through REST or through `Post`; then it charges window and budget (`account`).
Streams go through `watch` to `Subscribe`. Every reply and push arrives in the read loop of
`connectAndRun`, which calls waiters and handlers. `Client.Close` ends the life context,
closes both connections, drops idle HTTP connections and wipes the key.

## Modules

| module | models | extends / instantiates |
|---|---|---|
| `NonceSource` | the promise of the nonce generator: a call takes effect in one step between its begin and its return, as `max(now, last + 1)` with a time of that call | |
| `Nonce` | `ForSigner` and `Next`, one action per atomic operation or clock reading | `NonceSource` as `SourceSpec` |
| `WsConn` | the connection's life cycle: supervisor, callers of `Start` and `Close`, context watch, ping loop, network | |
| `PostContract` | what a caller may conclude from the outcome of `Post` | |
| `WsPost` | `Post` and its counterparts in the read loop and in `failAllPending` | extends `WsConn`; `PostContract` as `ContractSpec` |
| `WsSubs` | the subscription registry, its replay, dispatch, and `watch` | extends `WsConn` |
| `RateLimit` | `Window.Add`/`usedAt` with the engine's `admit` and `account` | |
| `Client` | lazy connections, life context, key, the eight steps of `Close` | |
| `Outcomes` | what a reply means: statuses, texts, envelopes, items | |
| `Requests` | a call from the admission to the accounting, over both transports, with exchange and gateway | extends `Client`, `Outcomes` |
| `AssetRegistry` | the snapshot pointer and the loads behind `loadMu` | |
| `Pushes` | a user stream: decode into reused storage, filter, handler | extends `AssetRegistry` |
| `Account` | `CancelAllOrders`, `CancelForgottenOrders`, `ClosePosition` on an account that others use | |
| `Numbers` | `Fixed`, its text, the price and size grids, `SlippagePrice` | |
| `Wire` | every action's MessagePack tokens and JSON tree, integers and headers, `Cloid` | extends `Numbers` |
| `Trading` | the trading functions: arguments to action | extends `Wire` |
| `Queries` | info requests and subscriptions: arguments to body and route key | extends `Trading` |
| `Setup` | `NewClient`: defaults, validation, network, signer and account | |
| `Values` | the functions above over bounded inputs, against references | extends `Queries`, `Setup` |
| `Nonce_proofs`, `WsConn_proofs`, `WsPost_proofs`, `WsSubs_proofs`, `RateLimit_proofs`, `Requests_proofs`, `Section_proofs`, `Values_proofs` | theorems | the module they name; `WsPost_proofs` and `WsSubs_proofs` also `WsConn_proofs` |
| `MCNonce`, `MCWsPost`, `MCWsSubs`, `MCRateLimit`, `MCRequests`, `MCValues` | constants for TLC | |

How state corresponds to code:

* `Nonce`: `registry[s]` is the entry of the `sync.Map`, `last[g]` the atomic word of a
  generator; `pc`, `seen`, `cand` are the point and the locals `old`, `next` of `Next`. A client
  that lost the `LoadOrStore` keeps the winner's generator. The model's clock jumps anywhere;
  `shown[c]` is history, the times it has shown since the running call of `c` began.
* `WsConn`: `sup` is the program point of the supervisor goroutine, one value between
  two accesses to shared state; `conn[s]` is the state of the `s`-th dialed socket
  (`"open"`, `"broken"`: failed but not closed, `"closed"`); `socket` is `c.conn`;
  `closer[k]` the progress of a call of `Close`. `c.mu` is held within a single action.
  `gorilla/websocket`, the network and the peer are external: `Break` fails a socket at
  any moment; a write to a failed or closed socket fails.
* `WsPost`: `pending` is the registry by request id, `mailbox[p]` the two buffered
  channels of a call, `hand` the waiter `dispatchPost` has taken and not yet answered.
  The exchange is external: it may execute a delivered request once, answer late,
  answer twice, or never.
* `WsSubs`: `feed`/`members` are the groups of `c.subs`; the change of the registry
  under `c.mu` and the write of its frame are two actions, as in the code. `serving` is
  what the exchange does with the frames in the order of their writes. `view`, `late`
  and `raced` are history.
* `RateLimit`: `buckets[i]` is a packed word, `second`, `old`, `scan` the locals of `Add`
  and `usedAt`. `stale` and `regressed` are history: an `Add` replaced the bucket of a
  later second; the clock stepped back.
* `Client`: `once[k]` is the `sync.Once` of a connection, the call inside it included;
  `conn[k]` its constructor, `Start` and `Close` (`WsConn` is the inside). `closing` counts the
  steps of `Close`; a step that waits for a `Once` in use is a step whose guard is false.
  `enabled` and `key` are the signer's fields, which nothing synchronises: `EnabledReads` is
  what a racing goroutine may read.
* `Requests`: `pc[c]` is the point of a call between two accesses to shared state; `signed`,
  `signature` and `reply` its locals. `wire[c]` is the request's fate, `spent` the nonces the
  exchange has seen, `applied[c]` the items of the action in effect there. `used` is the
  engine's window with everything inside one minute (`RateLimit` is the window itself),
  `mirror` is `AddressBudget.used`. A text is the set of the needles it contains. `lull` and
  `trusted` are history: a query of the count ran while no action was on its way.
* `AssetRegistry`: a snapshot is the number of coins it lists, since an asset id is an index
  and the exchange's list only grows; `current` is the atomic pointer, 0 for nil.
* `Pushes`: `slots` is the backing array of the decode target, which outlives a push;
  `Written` is what the decoder does to an element: keys that are absent leave it alone. `push`
  and `base` are for the properties; the code has `slots`, `flag`, `at` and `own` only.
* `Account`: `open` and `position` are the account at the exchange; `chosen[k]` and `order[k]`
  what a call has read or built and not yet sent. `Fillable` is the exchange's reduce-only rule.
* `Wire`: a MessagePack form is a sequence of tokens in which a map header carries the count the
  code computes by hand; a JSON form is a tree. `Trading` and `Queries` map arguments to them.
* `Numbers`: `Fixed` with `FixedDecimals`, `MaxSignificantFigures` and `MaxInt` as parameters;
  sums that leave `int64` wrap.

## Runs

Small sets of model values; the two runs that fail on purpose each show a disagreement between
the code and a comment, listed under "findings" in `PROJECT.json`.

| run | instance | shows |
|---|---|---|
| `nonce` | two clients of one key and one of another; three nonces; three clock values | nonces of a key increase, have no gap above the clock; the lock-free calls are linearizable: each is one step of the atomic source, with a time of the call, between its begin and its return |
| `post` | two requests, two connections, Close | one outcome per call, no waiter forgotten (even when its socket was captured before a reconnect), no registry leak, at-most-once contract |
| `post_live` | one request, three dials, Close, backoff 2 -> 4 -> 7 | sockets are released, nothing is published after Close, the delay doubles, is capped and is reset; a caller on a dead socket is answered without its timer; Close ends the supervisor |
| `subs` | two watches of one feed and one of another feed under the same key, two connections | registry and exchange agree once frames are written, groups are consistent, no consumer with a `Reset` mixes connections, at most one late push |
| `subs_live` | two watches of one feed, two connections, Close | what is registered is served eventually; a dead socket is replaced |
| `limit` | two callers, two requests each, a ring of two seconds, a clock that jumps | no weight lost or counted twice, the word does not overflow into its stamp, overshoot is bounded by one request per other caller |
| `requests` | two calls of any kind (order, noop, query, watch), both transports, batches of two, one refusing and one ambiguous status, Close at any time, a key or none | an error other than network and unknown means that nothing is or will be in effect; a noop with an order's nonce decides; the mirror follows the count; Close leaves nothing running |
| `section` | the watcher and another caller, the automatic refresh, a listing, pushes of two elements of the section, of a coin just listed and of another section | the snapshot never gets older, every waiter returns, a handler gets the elements of its own push |
| `account` | one operation, three coins (one of another section), two orders, two times, positions of two lots either way, with other clients acting between any two requests | a cancel-all is complete, cancels take only what was asked, a closing order never flips the position |
| `values` | see below | texts, grids, slippage, integers, both wire forms, batches, queries, route keys and configurations against references |
| `subs_frame_race` | two watches of one feed, one connection | violation: the frames of Unsubscribe and Subscribe invert |
| `pushes_stale` | one watch, pushes of one element with an optional key | violation: a field the exchange omits keeps the value of an earlier push |

### Bounds

* `MaxSockets`: connects per run. Two suffice for everything that relates an old to a
  new connection, because code only ever holds one old socket captured before the
  current one; `post_live` uses three.
* `SeriesCap`: caps the history counter of sleeps since the last good connection, past
  the point where the delay is constant.
* `MaxIssued`, `MaxClock` in `Nonce`: three nonces make two clients race twice, three
  clock values let it stand, rise and fall between them.
* `Resets` in `WsSubs`: the watches whose consumers have a `Reset`; streams of quotes, trades, candles
  and asset contexts have none. In `subs` one of the two watches of a feed has one.
* `Active` in `WsSubs`: the feeds whose pushes are followed. The liveness run follows none,
  since pushes do not change what is served.
* `Ring` = 2 stands for 60 buckets: one bucket is shared by every second `Ring` apart,
  which is all the arithmetic of the ring. `MaxClock` leaves each bucket two owners.
  `FieldMax` = 4 saturates within the run; it is above `Limit`, as 2^32-1 is.
* `Requests`: two calls make every pair meet (an order and its noop, an action and the query,
  a first use and Close); properties relate at most two calls. `Limit` = 21 lets a query and an
  action pass and refuses the second query. One text stands for the rejections of a whole
  action: their kinds differ, the state does not.
* `AssetRegistry`, `Pushes`: `MaxMeta` = 2 gives an older and a newer snapshot; two elements
  give an order, an omission and a refresh between them.
* `Account`: `MaxOrders` = 2 gives an asked order and another; `MaxTime` = 1 a young and an old
  one; one call, since calls meet only through the account, and `Gone`, `Place` and
  `Trade` do to the account all that another call can. The theorems are for any number of calls.
* `Values`: numbers of two decimals in an 11-bit machine (the largest is 10.23) with one
  significant figure, so that every clamp, carry and range end is met by every number; all
  texts of up to two and three digits; integers whose leading bytes are 0 or 255 and whose last
  three are taken around every threshold; every header threshold; the forms of an id with any
  one character replaced; orders over known, unknown and delisted coins on and off the grids,
  two at a time; asks whose arguments vary together wherever they meet in one body. Texts of
  numbers have the sign "-", "+" or none. The case of the letters of an id and of the x in 0x is left
  out: a digit is its value. `Uint32Range` = 4 is below the leverages of the run. The product of
  float64s in `SlippagePrice` is the exact rational, rounded to a unit as the code does.
* Symmetry is declared in runs without liveness only, over calls that the model treats
  alike.
* Deadlock is checked in `values`, `section` and `pushes_stale`. Elsewhere a closed connection, a
  finished call and an exhausted bound stop for good reasons; `CloseStops`, `DeadSocketAnswers`,
  `EventuallyServed`, `Recovers` and `EveryCallReturns` say where progress is due.

### Fairness

`FairSpec` of `WsPost` and `WsSubs` assumes weak fairness of what the Go scheduler and
the runtime run: the supervisor goroutine (dials have a handshake timeout, sleeps a
timer, reads of a failed socket end), the context watcher, running calls of `Post`,
`Close` and of the frame writes (each has a write deadline). `WsSubs` also assumes that
dials succeed again and again when attempted again and again (strong fairness of
`DialSucceeds`): the code promises nothing for a server that is gone. No fairness is
assumed of the exchange, of the network, nor of consumers who subscribe, cancel, time
out or close.

`RegistryFairness` assumes that a load ends (the transport has a timeout), that a store and the
deferred unlock are executed, and strong fairness of `Lock`: a Go mutex in its starvation mode
hands itself to the longest waiter. Nothing is assumed of when callers or the ticker come.

### Assumptions about the environment

What the exchange and its gateway do is read off the way the code treats them. A 4xx status and
a post error without a status mean that the request was not passed on; a 5xx, a timeout and
a lost connection leave that open. The exchange keeps the nonces it has seen and refuses a
second use; a signature made with a wiped key recovers to an unknown wallet. Its metadata only
grows. It applies the reduce-only rule to the position of the moment, and its clock agrees with the
caller's in `CancelForgottenOrders`.

## What the code does that a reader may not expect

Two disagreements are findings with a run of their own: inverted frames (`subs_frame_race`) and
stale optional fields (`pushes_stale`). Two more contradict a comment and are stated by the
properties of `values`, which say where exactly the comment does not hold:

* A slippage price may be less aggressive than asked, although `market.go:110-111` says "never less
  aggressive than requested": `FixedFromFloat64` rounds to the nearest 1e-8 before the grid rounds away
  from the mid. With `szDecimals` 0, a mid of 0.0001 and a slippage of 0.01003 a buy asks for
  0.000101003 and gets 0.000101. `SlippageAggressive` bounds the shortfall by half of the last
  decimal and says that there is one exactly where the rounded price is on the wrong side and on the grid.
* Under `Testnet` an explicitly given mainnet URL is replaced, although `config.go:20` says "Explicitly set
  URLs are never overridden": the code cannot tell it from the default (`config.go:208-211`).
  `NetworkAgrees` says which URLs are replaced and by which.

Others are in the models and made visible by how their properties are stated:

* A failed subscribe frame leaves the registration behind; the next reconnect serves it although
  the caller was told that the subscription failed (`WsSubs`).
* When a group is re-created under the same route key with another payload, a push of the old
  payload still on its way reaches the new handlers: a push carries the key only.
* The first sleep is the initial backoff, also when that is above `ReconnectMaxBackoff`.
* An `Add` suspended for a whole window resets the bucket of a later second (`stale`).
* A Sync overwrites the sends recorded while its query was on its way; the mirror is right
  again only after a query that ran alone (`trusted`).
* `admit` reads before the request and `account` adds after it, so concurrent requests all pass.
* An order of a coin listed since the last refresh is neither cancelled by `CancelAllOrders("")`
  nor delivered by a user stream.
* A REST request in flight when the client is closed goes on.
* A signature racing `Close` may be made with the wiped key and is then refused by the exchange.
* Rounding up a price next to the end of `int64` wraps.
* A client of the mainnet with the testnet's URLs is accepted: it signs for one network and talks to
  the other. Only URLs that are empty or at the default follow `Testnet`, REST and WebSocket apart.
* The route keys of `userFills` and `clearinghouseState` leave out the user, though the pushes carry it: two
  users on one connection would get each other's pushes. A client subscribes for its own
  account only, so `PushesRouted` is stated for one user. `protocol.go:36-38` says this of the channels without a
  user field.
* Streams of quotes, trades, candles and asset contexts have no `Reset`: after a reconnect their
  consumers go on from what they have.
* A leverage is cut to 32 bits; without a `maxLeverage` in the metadata nothing bounds it before.

## Proofs

Checked by TLAPS for all values of the constants that satisfy the modules' named
assumptions.

* `Nonce_proofs`. `IssuedIncreasing` is not inductive: a CAS is only safe because the
  word it compares is the greatest nonce issued from the generator. `NonceInv` adds that
  (`LastBounds`), that all clients of a signer use one generator and no generator serves
  two signers (`SharedGenerator`, `OwnSigner`, `UnusedUntilStored`), that a candidate is
  the successor of what was loaded or the clock (`CandidateNext`), that the clock was read
  during the call (`ReadDuringCall`) and that nothing above the clock was skipped
  (`NoGapBelowLast`). From it follow `NoncesIncrease`, `NoncesFollowClock` and
  `ImplementsSource`: a call takes effect at its successful CAS, where the word it loaded is still
  the last nonce of its signer (`CasReturns`), and every other step is a step of the clock, the
  begin of a call or a stutter. It says more than the increase of the nonces: which value each call gets.
* `WsConn_proofs`. `TypeCorrect`; `SocketsReleased`, whose invariant is itself inductive
  with the types: the supervisor holds at most the newest socket, and `Shut` closes it
  before the supervisor can dial; and `CloseIsFinal`, the action property that only
  `Publish` sets `c.conn`, under a check of `closed` in the same critical section.
  `BackoffIsLawful`: the code doubles and caps in place, the law states the closed form.
  `BackoffInv` says at which points of the supervisor `backoff` is the pause of the running
  series and at which it is the one before it; `DelayGrows` is the step from one to the next: doubling what
  was capped and capping again is capping the doubled. That 2^(n+1) is twice 2^n is no axiom
  of the provers; `PowerDoubles` has it from the number of subsets of a finite set.
* `WsPost_proofs`. Every step of a request stutters for the connection and every other
  step is a step of it (`ConnectionStep`), so `SocketLifetime` carries over.
  `PostInv` is inductive; what it adds to the properties is
  - `IdsDrawn`: `postSeq` counts the calls that hold an id and no two hold the same, so an
    entry of `pending` belongs to one call and a reply finds its own;
  - `WaiterFirst`: no outcome before registration, and before its write a call is
    registered or has its outcome;
  - `Captured`: a call only ever holds a socket that was published, and a finished
    `Close` closed the socket it found. With `SocketLifetime` this makes a successful write
    imply that the supervisor still has this socket to clean up, which is
    `NoForgottenWaiter`;
  - `Returned` and `Delivered`: results match positions, and a request, a reply, a waiter
    in the read loop's hand or a filled mailbox belongs to the call that sent the
    frame, executed exactly as often as the frame's progress says.

  From it follow `SingleOutcome`, `NobodyForgotten`, `CloseAnswersWaiters`,
  `NoRegistryLeak`, `PostTypeCorrect`, and `ImplementsContract`: `Serve` is the contract's
  `Execute`, a return of `Post` its `Reply`, `Refuse` or `GiveUp`, all else a stutter.
  Assumed of the constants: `Posts` is finite, and `None` is neither a call nor an outcome.
* `WsSubs_proofs`. Here too the steps of the subscriptions stutter for the connection
  (`ConnectionStep`). `ServedAsRegistered` speaks of keys whose frames are all written and
  cannot be inductive; `Frames` says for every payload, while a published socket works, that
  what is registered is served, still to be replayed, or due from a watch that has not
  written; that what is served without being registered has an unsubscribe frame due; and that
  no such frame is due while the key is registered. `Captured` adds that a watch holds a socket that
  was published, so a new connection begins without frames due and, with `SocketLifetime`, a
  write that succeeds is one to the current socket. `Left` and `Viewed` say that whoever is no
  member has left and that every member with a `Reset` has seen pushes of the current connection only, which makes a
  captured list of handlers safe to call (`NoMix`); `Lates` that the second late push has no list
  to come from (`LatePush`). Steps of the connection that dial nothing are handled at once
  (`Calm`). From `SubsInv`: `ServedExactly`, `OneFeed`, `NoMix`, `LatePush`, `SubsTypeCorrect`.
* `RateLimit_proofs`. `NothingLost` needs two facts: a bucket is of a second of its own slot
  that weight was added under (`Filed`), and a caller in `account` has a positive weight left
  (`Owing`), so no bucket is installed with an unused stamp. The swap installs a word only over
  the one that was loaded, so the capped sum of a bucket goes to the capped sum with the new
  weight (`CappedSum`), or the bucket begins a new second. Hence `WeightKept`.
  `OvershootBounded` speaks of all requests at once and no step of one caller shows it. Of the
  admitted requests whose weight is in the window or still to come take the one that began last:
  every other caller had one request under way when it began, and all that was added before
  is in what it read. The order in which requests began is not in the state, so `OvershootInv` says
  that a rank of the callers' latest requests exists (`Ordered`), with the rank and the caller of
  the last one admitted: the window with what requests up to that rank may still add
  is `Bounded`; and each scan of a later rank `Sees`, in the buckets it has read and those it has
  still to read, all but what the others had under way, or has already met the limit (a bucket
  at `FieldMax` holds less than was added, but no less than the limit). Beginning gives a new rank;
  reading a bucket moves one second from the unread ones to the total, by `NothingLost` and since two
  seconds of a slot are never both in the window (`OneOfSlot`); a swap moves weight from what is owed
  into the window (`SwapSums`); a request that is admitted becomes the last one (`AdmitOrder`); every other
  step lets what is pending fall (`CalmOrder`). That the clock has not stepped back is used where a
  later stamp in a bucket would hide a second of the window. Sums are stated as numbers of
  units, `Sum`, because a fold is a recursion that the provers cannot unfold; `SumWithin` and `SumPoint`
  are the two facts about them the argument needs. Assumed: `Callers` is finite and not empty.
* `Requests_proofs`. `ClientInv` says which connections are resolved and closed by how far
  `Close` is; it is inductive because a `Once` that is done stays done, so no first use can come
  between `Close`'s own resolution and its `Close` of that connection. `CloseStops` follows.
  `NoopDecides` needs to know why no order can still act: `NonceInv` adds that an action has
  effects only under a nonce in `spent` (`Marked`), that a nonce given by the caller is the one
  signed with (`Progress`), and that whoever is told of success, or is about to be, is the call
  its nonce was spent on (`Decided`, `Settled`). What `Accept` puts into `spent` was not there, so
  every other call of that nonce is without effect; what is in `spent` stays, so it remains so.
  `OutcomeTold` is about calls that are done; `OutcomeInv` adds the same of the reply that is on its way
  and of the outcome while it is accounted for (`Truthful`), and that nothing is in effect before the
  exchange has the request. A failure a gateway answers is mapped to `network` or `unknown` only
  because its status is none of 4xx (`FailureLeavesOpen`); that is the assumption on `Failures`,
  as a 4xx is by `Refusals` a request that went nowhere.
  `MirrorFollows` bounds the mirror by two sums over calls. `MirrorInv` states it more sharply (`Near`):
  the first bound also counts the actions whose call has returned without a reply and that may
  still arrive, the second also those counted before their reply. And a query that is to be
  synced without a warning has an answer that is still the count, because no action is or comes under way
  (`Lulled`). Sums of weights are again numbers of units. Assumed: `Calls` is finite.
* `Section_proofs`, streams. `RegistryInv` is inductive: `loadMu` has the one owner that is inside, a
  stored answer is no newer than the exchange and no older than the pointer, a first load finds no
  snapshot. From it `SnapshotsGrow` (an answer in the loader's hand can only be stored over an
  older one, since loads exclude each other and the list grows) and `LoadsShared`. Steps of a
  stream stutter for the registry (`StreamsKeepRegistry`). `StreamInv` says what a filter has
  taken so far: a set of positions between what the snapshot at the decoding and the present one
  list (`Taken`), from storage that holds this push (`Loaded`). Adding a position to such a set
  appends to the selected sequence (`ChosenGrows`, by cardinalities), hence `OwnPushDelivered`.
* `Section_proofs`, operations of several requests. `CancelAllComplete` is about the end of a call and says nothing of the
  middle; `AllAsked` adds that between the two requests every asked order of the beginning that is
  still open has been chosen. `OnlyAsked` holds of what is chosen and of what was cancelled, and
  needs that an order was placed no later than now and that time only passes. `CloseOnlyReduces` rests on
  `Reduces`, that an order of `ClosePosition` is reduce-only at every point before it is sent.

* `Values_proofs`. `Values` has one step, so an input is what `InputType` says (`InputTyped`) and the
  theorems are facts about functions of it. The recursive functions of `Numbers` are opened by
  `Recursion` and `Induction`, about functions and sets of numbers (the library's induction theorems take an operator,
  which these provers cannot instantiate); both follow from the smallest member of a set. From them come
  the powers of ten, the digits of a number and its text (`WireText`), and what trailing and
  leading zeros say of divisibility and size.
  `GridSoundAlways`: the exchange's rule on decimals and significant figures of a price's text is divisibility
  by the tick (`PriceRule`), and the grid, which gets coarser with the number of digits, has both neighbours of
  a value where rounding looks for them (`Neighbours`): the next multiple up may be the next
  power of ten, where a coarser grid begins. `SlippageAggressiveAlways`: rounding to the next unit and then to the tick
  moves a price by less than their sum, and where the tick of the rounded price is another than
  that of the asked price, the asked price is next to a power of ten (`NextTick`); a rounded price on the
  wrong side has not moved on the grid (`ShortOnGrid`).
  `OrdersCheckedAlways`: items are built one by one in order, and each is kept by `orderWire`. `QueriesToldAlways`: a body is the set of its fields
  (`BodyTells`), which gives back the function and every argument it takes; arguments it does not
  take are at their zero value in both asks. `PushesRoutedAlways`: the keys written out (`KeyOf`) give back
  the function, the coin and the interval (`KeyTells`), and equal bodies the user (`MeaningUser`), which is all that
  pushes depend on (`PushesTold`). `NetworkAgreesAlways`: by the cases of `withDefaults`.
  `WireRoundTripAlways`: `AppendWire` writes the digits of a number (`WireText`) and `parseFixed` sums digits as
  they come (`InBase`, by Horner's rule), so the text's digits give the number back, cut at the place
  where only zeros follow; any other text of decimal digits is its own fraction of `Scale`, and
  the code's two range checks on it refuse exactly the values above the largest int64. Ids: places of the 32 digits and of the four dashes are counted, and each of them
  determines the character that was read there. The smallest int64 is left out of the values: `parseFixed` never returns
  it, and its text would need a magnitude of one more than the largest.
  `IntegersShortestAlways`: `AppendInt` takes the narrowest width that extends to the integer, and an
  encoding that is read back as the integer has a width that does; a header's length is the value of its bytes to
  the base 256.
  `SignedIsSentAlways`: the bytes of an object grow field by field, each from those of the fields before it, and the
  parts of a `FlattenSeq` are joined in turn; so on each level the text of a set of fields in the
  order of the code is one sum that the signed and the sent text share. This goes up from the fields of an order over
  the list of orders to each of the nine actions; the trading functions build only such actions, and
  the trailer (vault, nonce, expiry) is read back from the body.
  Assumed: the ranges and types of `NumbersAssumption`, `AssetAssumption`, `ValuesAssumption`; of a configuration (`ConfigAssumption`) that a text that is given is not
  empty; of an ask (`AsksAssumption`) that it has no arguments that its function does not take.

Only model-checked: everything under fairness (TLAPS has no support for it).

## Not modelled

* Hashing, EIP-712, secp256k1 and RFC 6979: arithmetic out of TLC's reach. `Wire` covers which
  bytes are hashed.
* `MulFixed`, conversions to and from `decimal.Decimal`, and the surcharge `InfoItemsWeight` by
  itself (`RateLimit` has it as `ExtraOf`).
* `AddressBudget.Snapshot` reads three atomics one after the other and changes nothing; its
  callers may see a Sync half done.
* The plain decoding of replies into their types, TLS and connection pooling of `net/http`, the
  codec, logging, metrics, examples, and wrappers that only pass a call on.
* The pooled body buffer of the engine (`engine.go:351-404`) is re-used as soon as the transport
  returns. A WebSocket write copies it before; of `net/http` the models assume that it has
  read the body when `Do` returns, which its documentation leaves open for some early answers.
* Obligations of callers: `Reset` runs under `c.mu` and handlers run in the read loop; that
  they return promptly and do not call the connection is documented and assumed. Two
  `Start` calls are one: the client starts a connection once, inside `sync.Once`.

## Plan

1. `TypeOK` of `Requests` as a theorem of its own; today `NonceInv` and `MirrorTypes` have the parts of it
   that the proofs use.
2. `AddressBudget.Snapshot` against `Sync` and `Consume`, as actions of `Requests`.

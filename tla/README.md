# oas-rs in TLA+

`oas-rs` is an HTTP framework on Hyper and Tokio: an application builder that
registers routes, layers and an OpenAPI document, and a runtime that serves the
result over TCP, Unix sockets and TLS, on HTTP/1.1 and HTTP/2. This directory
holds TLA+ models of its stateful parts, the TLC configurations that check them
on small instances, and TLAPS proofs of every invariant and action property that
the passing runs check, for any size of the system. Liveness is model-checked.

Paths such as `src/src/runtime.rs:771` are relative to the parent of this
directory; shorter ones (`runtime.rs:771`) are below `src/src`.

## 1. The system

### 1.1 How the parts interact

    App (builder) --build()--> Runtime --serve_*()--> accept loop
                                                        |  permit (semaphore), stop (watch), JoinSet
                                                        v
                                  connection task: sniff / TLS -> hyper -> drive / drive_h2
                                                        |                     ^ Activity (atomics)
                                                        v                     |
                     prepare -> layers (Next::run) -> route -> handler -> body (Guarded)
                                                                     `-> on_upgrade: session task

- **Calls.** The serve call polls `accept_next`; a connection task polls hyper,
  which calls `prepare` per request; `prepare` walks the layers whose scope
  covers the request and then a route.
- **Messages.** A watch channel carries the shutdown signal to all connection
  tasks. HTTP/2 responses go through hyper's channels.
- **Shared state.** The semaphore of `max_connections`, whose permit is shared
  (`Arc`) between the connection's task, its requests and a WebSocket session;
  the atomics of `Activity`, written by HTTP/2 stream tasks and the socket and
  read by the driver; the shards of the rate limiter; the two atomics of a
  multipart request.
- **Callbacks.** Layers get `Next`, groups get a closure, `on_upgrade` gets the
  session's handler; `Drop` of `ActivityGuard`, `Guarded` and of the permit.

### 1.2 Components

| Component | State | Operations | What is hard | Correct when |
|---|---|---|---|---|
| Serve loop and shutdown (`runtime.rs`, `tls.rs`) | permits, JoinSet, signal, tasks of HTTP/2 streams and sessions | accept, retry, back off, fail, stop, drain, abort; connection life | shutdown is looked at in two selects only; a permit has several owners; tasks outside the JoinSet | no permit lost, the cap holds, the call returns, no request cut before the deadline, nothing served after it |
| HTTP/2 driver (`runtime.rs` `drive_h2`, `Activity`) | `in_flight`, `last_ms`, `streams`, `closing` | tick, stop, start and end of requests, chunks | two loads against concurrent stores; a stall of one stream hidden by another | cuts only what is idle or stalled, and cuts it in time |
| Rate limiter (`rate_limit.rs`) | buckets in locked shards, overflow bucket, last sweep | take, sweep, refill | clock read before the lock; sweeps; full table | rates hold per bucket of a key and per shard, table bounded, Retry-After kept |
| Router and paths (`router/mod.rs`, `path.rs`) | static map, trie | insert, find, resolve | backtracking, shared nodes, HEAD and OPTIONS, encoded segments | the best route is found, no route is lost |
| Builder and groups (`app.rs`, `group.rs`) | routes, layers, `last_route`, `route_error` | every registration, `build` | order of calls, `last_route`, generated routes | what is built answers what was registered |
| OpenAPI (`openapi/`) | settings, cached document and page | setters, `oneshot`, `build` | stale caches | the document is what the routes say |
| Layers (`middleware.rs`) | list of scoped layers, `Next::index` | run, answer, exchange the request | scopes and routes are matched by different code | a route's layers run before it |
| Request bodies (`runtime.rs` `prepare_matched`, `params.rs`) | limit, timeout | collect | timeout against end of body | 408, 413 and 400 for the right reason |
| Stalled writes and sniffing (`runtime.rs` `Tracked`, `FrameScanner`, `detect_h2`, `Rewind`) | stall clock, scanner position, prefix | poll_write, poll_flush, feed, sniff | partial writes, partial flushes under TLS, clock reset, a preface cut anywhere | only a stalled client is cut; progress is reported for response data only; every byte reaches the right protocol once |
| TLS (`tls.rs`) | none | configuration, handshake | none beyond the accept loop | |
| WebSocket (`websocket.rs`) | transport, slot, idle clock | upgrade, recv, send, close | the timeout against a message, calls given up midway, the order of the handshake's checks | only a right handshake opens a session; the slot goes back with the transport |
| Multipart (`multipart.rs`) | `unproductive`, `draining`, delimiter scan | poll, next field, drop a field | a delimiter split over chunks while a field is drained; a parser that pulls ahead | what comes without a result is bounded |
| SSE (`sse.rs`) | keep-alive ticker | poll | event and tick together | a comment exactly after each quiet gap |
| Static files (`static_files.rs`) | a file's handle and length | resolve, open, validate, read | the file changes meanwhile | a body is of one file and as long as announced; a 304 is true |
| Compression (`compress.rs`) | none | negotiate, encode, describe for HEAD | HEAD, caches, other layers outside | HEAD agrees with GET; caches give out the right variant |
| CORS (`cors.rs`) | none; its settings | preflight, decorate | refusals by other layers; settings in any order | a granted preflight is kept; one `Cors` never says `*` with credentials |
| Bearer, panics, tracing, request ids, error format | none | one answer or one response each | stacked in any order; a response replaced | a refusal says what to do about it |
| Handlers, responses (`response.rs`) | none | conversions; HEAD | | HEAD has the length of the GET |
| Extractors, schemas, derive macros | none | pure conversions | | |

`PROJECT.json` lists every component with its files and its hazards, each at
its line with the properties that would catch it.

## 2. The modules

| Module | Models | Checked by | Proved in |
|---|---|---|---|
| `BoundedService` | what a serve call promises (abstract) | refinement of `Server` | `ServerProofs` |
| `Server` | accept loop, drain, connection tasks, slots, sessions | `MCServer`, 4 configurations | `ServerProofs` |
| `H2Connection` | one HTTP/2 connection's driver and the tasks of its streams | `MCH2Connection`, 2 | `H2Proofs` |
| `RateLimit` | the token-bucket layer | `MCRateLimit`, 1 | `RateLimitProofs` |
| `Router` | paths, trie, choice of a route, scopes (operators) | through `App` | `AppProofs` |
| `App` (extends `Router`) | builder, groups, layers, document, `build`, requests through the layers | `MCApp`, 2 | `AppProofs` |
| `Layers` | responses, and what each built-in layer makes of one (operators) | through `Responses` | `ResponsesProofs` |
| `Responses` (extends `Layers`) | a stack of built-in layers, the builder of `Cors`, requests and their answers | `MCResponses`, 2 | `ResponsesProofs` |
| `Values`, `Timed` | an absent value; a clock, and a task polled some time after it is woken | through their users | |
| `Sniff` | `detect_h2` and `Rewind` | `MCStreams`, 1 for these seven | `ConnectionProofs` |
| `BodyRead` | collection of a buffered body | | `BodyProofs` |
| `SendPath` | `Tracked` with its stall clock, `FrameScanner` | | `ConnectionProofs` |
| `StaticFiles` | `ServeDir` while others write to the directory | | `BodyProofs` |
| `EventStream` | `EventBytes` and its keep-alive ticker | | `ConnectionProofs` |
| `MultipartGuard` | the guard between a streamed upload's handler and its parser | | `BodyProofs` |
| `WebSocketSession` | the handshake, and a session as its handler sees it | | `ConnectionProofs` |
| `Induction` | induction and recursion as facts that proofs can cite | | itself |

An operator whose comment starts or ends with "Mutant" is a deliberately wrong
version of the definition after it; substituting it must break a property.

### 2.1 Server

One state machine for a whole `serve_listener`, `serve_unix` or `serve_tls`
call. `acceptor` is the program counter of the call: `slot` and `accept` are the
two selects of `accept_next`, `backoff` its sleep, `drain` and `grace` the two
waits of `drain_connections`. `task[c]` is the connection's spawned task,
`tasks` the JoinSet, `phase[c]` the socket, `req[c]` a request, `session[c]` the
task that `on_upgrade` spawns, `refs[c]` the clones of the connection's permit
and `permits` the semaphore. Every await point is a step.

- `Accept` reaps finished tasks, then spawns, as the loop of `serve_runtime`
  does. `AcceptRetry`, `AcceptBackoff` and `AcceptFatal` are the three outcomes
  of `classify_accept_error`; a fatal one leaves by `?`, which drops the JoinSet.
- `StopAccepting` is the shutdown branch of either select; a permit already held
  is dropped with it. There is none during the backoff sleep.
- `DrainDone`, `DrainTimeout`, `GraceDone`, `GraceTimeout` are
  `drain_connections`. `GraceTimeout` assumes that one second is enough for the
  runtime to drop every cancelled task that is not inside a poll.
- `EndTask` drops the connection's future: an HTTP/1.1 handler is inside it; an
  HTTP/2 handler is in a task that hyper spawned, and goes with `StreamDropped`.
- `HandlerBlocks` / `HandlerYields` are synchronous code in a handler: on
  HTTP/1.1 it keeps the connection's task inside a poll, so neither the signal
  nor an abort reaches it.
- `HandlerUpgrades`, `ConnectionUpgraded`, `SessionCancelled`, `SessionEnds`
  follow a permit into a WebSocket session.

One request at a time is modelled per connection. HTTP/2 streams of one
connection are told apart in `H2Connection`, the calls of a session in
`WebSocketSession`.

### 2.2 BoundedService

Three variables: the `stage` of the call, the `holders` of slots and the
connections `served`. Connections are admitted only while serving and below the
cap, and nothing is served when the call is over. `Server!Contract` is the
refinement mapping: `Stage` from `acceptor`, `Holders` from `refs`, `Served`
from `task`.

### 2.3 H2Connection

The driver of one connection and the tasks of its streams, one atomic access
per step. A driver's tick is three steps: `stalled_for` and the load of
`in_flight` are separate from the load of `last_ms` and the decision, and stream
tasks run between them. The drop of an `ActivityGuard` is three steps too: read
the clock, `fetch_max`, `fetch_sub`. `handedAt`, `doneAt` and `countedAt` are
history variables for the properties. Time stands still within a tick, which
says that the few instructions of a tick take far less than the 250 ms period;
ticks are on time. `stalled_for` locks the map of streams, so it is one step.

### 2.4 RateLimit

`ReadClock` (`RateLimit::handle`) and `Limiter::take` (`Admit`, `Refuse`) are
separate steps, so requests reach a bucket with clock values out of order, by at
most `MaxDelay`. `take` runs under the shard's lock and is one step: sweep if
the table is full, choose the bucket or the overflow bucket, refill, spend.
Tokens are integers in units of a clock tick; the code's are `f64`. A sweep
judges by one request's clock and drops the clocks of the buckets it removes, so
a request that read its clock earlier may start a swept bucket again from before
the sweep. `Slip` is the price: one delay for the first bucket, one for every
sweep. The bound with a single delay does not hold. `spent`, `spilled` and
`shardSpent` are leaky buckets of what was given out to a key by buckets of its
own, to a key by the overflow bucket, and by a shard: they are the reference
definition the real buckets are compared with, and every grant is charged to
one of the first two. A key may draw from both, the overflow bucket while the
table is full and a fresh bucket after a sweep, so a key is bounded by twice the
burst and twice the rate. The hash of a key to a shard is any function.

### 2.5 Router and App

A segment is a plain text, an encoded text, or one that is malformed; `Decode`
says what an encoded one means. A path is its segments and the number of slashes
before each of them: static routes are looked up by spelling, the trie and the
scopes go by segments. So a path may have doubled slashes inside, which joining
a group's prefix leaves there, and none in front (`Rooted` is
`assert_route_path`, which routes go through and the paths of the document and
of the page do not). A node of the trie is the pattern that leads to it;
`Find` is the search with backtracking as a recursive function over nodes.

`App` has one action per registration call, `OpenGroup` and `CloseGroup` around
a group's closure, the setters of the document, `OneShot` (a test request to the
builder, which fills the caches), `Build`, and then requests: `Receive` finds
the first layer that covers the request, a layer answers or hands it on, as it
is or another one (`PassOn`), and `Dispatch` answers. A registration that panics
is no step. A route with too many captures is not kept (`dropped`, a history
variable): `last_route` stays, and what is chained to it falls on the route
before it (`LayersPlaced`). The document is abstracted to its inputs: the
settings and the documented routes, so a cached document is stale when it
differs from them. Schema conflicts in `build` are a nondeterministic choice.

### 2.6 Layers and Responses

`App` has layers that do anything; here they are the nine that the crate
brings: `Cors`, `Compress`, `ErrorFormat`, `CatchPanic`, `Trace`, `RequestId`,
`BearerAuth`, `RateLimit` and `ServeDir`. A response is a record of the headers
that layers read or write, its body a kind, a class of size and a coding.
`Around` is one layer: it answers itself, or makes something of the response
inside it, or lets a panic through. `Respond` folds a stack around `Dispatch`,
which stands for the routes, with `MaybeHead` where the code drops the body of a
HEAD before any layer sees it.

`Responses` registers layers, then asks. A `Cors` is built step by step:
`NewCors`, then any calls of its builder (`EditCors`), then `LayerCors`. The two
calls that browsers refuse together panic in either order (`Refused`), and a
call that panics is no step. A stack may have any layer any number of times, as
`App::layer` lets it; a `Compress` has its `min_size`. The
properties compare an answer with the answer to another request through the same
stack: the GET of a HEAD, the request that another client of a shared cache
sends, the request that a preflight asks for.

### 2.7 Timed, and the components of a byte stream

`Timed` is a clock and one task that was `woken` at some time, by data or by its
timer, and is polled at most `Delay` later. Deadlines are part of the state of
each component, so a timer may fire while the data it waits for is already
there: what the code looks at first decides.

- `Sniff`: a client types bytes; `ReadMore` reads any number of them, no more
  than `Want`; `Decide` hands what was read to `Rewind`, whose reads (`Replay`,
  `ReadOn`) have any room. `DropStopped` and `DropSilent` are the signal and
  `header_read_timeout`. Detection starts when the task is first polled.
- `BodyRead`: bytes arrive in any frames, end or break off. `RefuseAnnounced` is
  the early 413, `Overrun` that of `Limited`, `Late` the 408; `Whole` comes
  before `Late` in one poll, since `timeout` polls the body first.
- `SendPath`: hyper's frames go out in writes of any length that the socket
  takes, over one or two slices, and flushes that wait under TLS. A byte carries
  a mark whether it is response data, which `FrameScanner` does not see and
  `ScannerExact` compares it with. Payload bytes look like headers of frames, so
  a scanner that loses its place is found out. A flush is tried only when there
  is nothing to write, as hyper does. `Tracked` is around the TLS stream, so under
  TLS (`tls`) a write goes to a buffer of `HoldLimit` bytes that is handed to the
  socket (`held`), and a flush is pending, with the stall clock running, until
  the socket has taken all of it (`RefusedBySocket`, `Flushed`). `since` and
  `taken` are history: when a refusal came first with no write or flush done
  since, and what the socket took from then on.
- `StaticFiles`: a file is its bytes, each known by the write that put it there,
  and a modification time. Between `Resolve`, `Open` and each `Read` others may
  replace, remove, roll back, truncate, extend or patch it, or make the name a
  directory. The client keeps what it got and revalidates it by `*`, by a list
  of tags, by date or by both. `request.opened` and `answer.now` are history.
  `fstat` of an open handle is taken to succeed, and each write to have a time
  of its own.
- `EventStream`: `PollEvent`, `PollEnd`, `PollComment` and `PollPending` are the
  outcomes of `EventBytes::poll_next`, in the order it tries them. The connection
  polls again after what it took, unless it is `full`, and may poll for reasons
  of its own. `lastEvent`, `quiet` and `gap` are history.
- `MultipartGuard`: three parties and one body: the handler (`NextField`,
  `Chunk`, `Cancel`, `DropField`), the guard (`Pull`, `Refuse`: one poll of
  `GuardedBody`), and between them multer, which is external: `stage` and
  `buffer` are its part, with a preamble, headers that a blank line ends (one
  byte, `Blank`) and data up to a delimiter. It is taken to pull whatever is
  ready in each poll, however much it has not looked at yet (`Polls`), and to keep
  the end of the data that may begin a delimiter. Bytes, their division into
  chunks, and where the handler drops a field or a future are free. `skipping`,
  `fresh` and `late` are history variables: whether a field was dropped since the
  parser last produced something, the bytes pulled since then, and whether the
  delimiter had begun to arrive by then.
- `WebSocketSession`: `Upgrade` answers a handshake by the checks of
  `on_upgrade` in their order; a 101 takes a clone of the slot into the task it
  spawns (`session = "promised"`), which hyper gives the connection
  (`HandedOver`) or never does. `recv` polls the stream before its timer; when
  that has fired it awaits the close frame, for a second at most. Any call may
  be given up midway (`GiveUp`), as a `select!` of the handler does, and the
  handler may end in any state. `began` and `heard` are history.

`MCStreams` runs one of the seven per behaviour, chosen by `part`: they share the
clock and nothing else, so their states add up instead of multiplying.

## 3. What the runs show

| Run | Instance | Shows |
|---|---|---|
| `server_safety` | 3 connections, 2 slots, handlers may block, listener may break | slots are conserved (`SlotConservation`) and owned by what runs, tasks stay tracked (`OwnersTracked`), the cap holds for sockets and sessions, no request is cut before the deadline, only stuck handlers are left; `Server` implements `BoundedService`, which serves nothing afterwards |
| `server_shutdown` | 2 connections, 1 slot, one handler may block for ever, no header timeout | a call asked to stop returns; what it leaves behind and can be dropped is dropped |
| `server_orderly` | 2 connections, 1 slot, no deadline, no header timeout, handlers finish | the signal alone ends every connection; a client in the backlog is taken in when the others are done, whichever way their slot came back |
| `server_h2_leftover` | 2 connections | **violated**: see section 6 |
| `h2_watch` | 2 streams, limits of 2 ticks, clock to 5 | the counter is exact; torn readings never cut a busy connection nor close one (`EndedOnlyQuiet`), only a stall is dropped as one, and stalls and idleness are acted on within a tick (`Reclaimed`) |
| `h2_header_timeout` | the same | **violated**: see section 6 |
| `rate_limit` | 4 keys, 2 workers, 2 shards of caps 2 and 1, clock to 4 | the table never exceeds `max_keys` for any hash; what a key gets from buckets of its own and what it gets from the overflow bucket each stay within burst and rate, and a shard within its cap of buckets and one more, up to the delays of the lock (`WithinRate`); Retry-After is kept |
| `app_layers` | 2 routes, 2 layers, groups nested twice, 5 request paths | a route layer is on the route it was added after, also when a route was refused (`LayersPlaced`); route layers, group layers (also for routes of groups within; `LayersRun`) and prefix layers run, for HEAD, encoded segments and exchanged requests |
| `app_routes` | 3 routes of 8 templates, 2 methods, 85 paths; beside it 2 routes in groups, and 2 routes with the document at 3 paths, 2 texts, 1 scheme | the trie finds the best route, every route whose path begins with a slash answers, generated routes displace nothing, the caches are never stale |
| `responses` | any stack of up to 3 layers of 9 kinds, a kind repeated or not, 17 handlers' responses, several hundred requests | HEAD agrees with GET, a cache gives out the right variant, a granted preflight is kept through every refusal, no wildcard with credentials from one `Cors`, a refusal explains itself |
| `head_compress` | 2 layers, the same requests | **violated**: see section 6 |
| `streams` | the seven components of section 2.7 | `SniffExact`: the right protocol gets every byte once, and no client is waited for in vain; `UploadSettled`: each status of a body for its own reason and in time; `ScannerExact`, `StallExact`: progress is response data only, and a connection is dropped only if for the limit the socket took nothing, or under TLS less than TLS buffers; `NotModifiedIsFresh`, `OneFile`: a 304 by tag is true, a body is of one file; `GapsMarked`: comments in gaps only, and in every gap; `GuardHolds`, `RefusedOnlyStuck`: what comes without a result is bounded and skipping a large part is no error; `OpenedRightly`, `SessionReleased`: sessions for right handshakes only, their slot goes with the transport |

### 3.1 Bounds

- `Conns`: three clients on two slots let one wait in the backlog while one
  holds a slot by its task and another by a session. One client fewer is enough
  for liveness, where one slot is contended for.
- `MaxRequests`: a client sends one or two requests; two are needed for a
  keep-alive connection that is idle again.
- `StallLimit`, `IdleLimit` of two tick periods and `Grace` of one: a limit
  starts and ends between ticks, and `MaxTime` lets every limit pass after
  activity of both streams.
- `MaxKeys = 3` over two shards gives caps of 2 and 1. Four keys may hash in any
  way at the first instant, where the table fills up and overflows; while time
  passes (`Focus`) three keys meet in the shard of two, which gives eviction,
  overflow and the return of a swept key while another key keeps its bucket,
  and the fourth is elsewhere. `MaxTime` is two full refills of a bucket
  (`Burst * Interval = 2`). `MaxDelay = 1` is enough to swap two clock values.
- `MaxCaptures = 2` instead of 128 for the trie; templates have up to three
  segments, in groups or not, so the limit is met and passed. The document may
  be put at the path of a route, at one of its own and at one without a slash.
  Two layers suffice for the order of layers and for one that exchanges the
  request before the other. In `app_routes` a constraint (`Explored`) keeps the
  trie and the document apart: three routes with no document, or two routes with
  it.
- Three built-in layers: enough for one that answers, one that replaces or
  encodes it, and one outside or between them, of any kinds.
  Stacks of three have two kinds of `Cors` (`Explored`), stacks of two every one
  that differs from a new one in at most two settings. Sizes are those of an error
  document (`Tiny`), of a larger body, and above the thresholds of the blocking
  pool and of streaming; a `Compress` takes bodies from the first size or from
  the second.
- `Delay = 1` puts a poll before, at or after the firing of a timer;
  `MaxTime = 8` is more than two periods or limits of each component.
- A preface of three symbols, and a fourth after it; a `BodyLimit` of two bytes
  of up to four; two frames with payloads of up to two bytes over a socket with
  room for three, so that a header, of two bytes, is cut from its payload and in
  itself, and a TLS buffer of two, so that a flush is cut; files of up to four
  bytes where two are small, and three writes, which can replace a file that the
  client holds, roll it back, and change it between two reads; two modification
  times in a second.
- `Delimiter` of three bytes, of which chunks have one or two: a delimiter comes
  in up to three chunks. A body of 11 bytes has a preamble, a part that is skipped
  past the limit of two, and headers past it.
- `MaxInbox = 2`: a message is read while another waits.

Deadlock is not checked where components come to an end: a server with no
client left, a clock at its bound, a stream that was read, an application whose
build failed have nothing left to do. `responses` has no such end and is checked.

### 3.2 Fairness

`LiveSpec` has what Tokio gives: a ready task is polled, a timer fires.
`StopAccepting` has *strong* fairness. While `accept` keeps failing with EMFILE
the loop alternates between the select, where shutdown is a branch, and a sleep,
where it is not, so the branch is enabled again and again and never for good;
`tokio::select!` polls its branches in random order, which makes it win in the
end. `ConnectionFairness` has no fairness on what a client or a handler does:
`ShutdownReturns` holds against clients that never leave and handlers that never
end. `OrderlySpec` adds handlers that finish (`HandlersFinish`) and descriptor
shortages that pass (`AcceptSucceeds`, strong fairness because the loop may back
off between attempts). `BacklogAdmitted` needs nothing about clients: that the
others are done for good is a premise of it.

The other modules state no fairness: what must happen there must happen in
time, and their properties bound the clock (`Reclaimed`, `UploadSettled`,
`StallExact`, `GapsMarked`, `SniffExact`, `SessionReleased`). What they rest on is
that a woken task is polled within `Delay` and that ticks of the HTTP/2 driver
are on time.

## 4. What is proved

Theorems hold for every value of the constants under the named assumptions of
their module: any number of connections, streams, keys, workers and shards, any
limit, any interleaving, and without the bounds of the clock.

| Module | Theorem | Statement | Assumptions |
|---|---|---|---|
| `ServerProofs` | `TypeCorrect` | `Spec => []TypeOK` | `ServerAssumption` |
| | `Invariance` | `Spec => []ServerInv` | |
| | `SlotsConserved` | `Spec => []SlotConservation` | |
| | `ConnectionLimit` | `Spec => []OpenWithinCap` | |
| | `OwnersKnown` | `Spec => []OwnersTracked` | |
| | `OnlyStuckLeftBehind` | `Spec => OnlyStuckLeft` | |
| | `NoRequestCut` | `Spec => RequestsNotCut` | |
| | `Implements` | `Spec => ImplementsContract` (refinement of `BoundedService`) | |
| `H2Proofs` | `DriverInvariance` | `Spec => []H2Inv` | `H2Assumption` |
| | `CounterExact` | `Spec => []InFlightExact` | |
| | `OnlyQuietEnded` | `Spec => EndedOnlyQuiet` | |
| | `OnlyStalledDropped` | `Spec => StalledOnlyStalled` | |
| | `ReclaimedInTime` | `Spec => []Reclaimed` | |
| `RateLimitProofs` | `KeysWithinRate` | `Spec => []KeyWithinRate` | `LimitAssumption` |
| | `RetryAfterKept` | `Spec => RetryAfterHolds` | |
| | `EveryoneWithinRate` | `Spec => []WithinRate` | |
| | `TableWithinMaxKeys` | `Spec => []TableBounded` | |
| `ConnectionProofs` | `ProtocolDetected` | `SniffSpec => []SniffExact` | `PrefaceAssumption`, of `Timed` |
| | `StallsExact` | `SendSpec => []StallExact` | `SendAssumption`, of `Timed` |
| | `ProgressIsResponse` | `SendSpec => []ScannerExact` | |
| | `SlotsReleased` | `SocketSpec => []SessionReleased` | `SessionAssumption`, of `Timed` |
| | `SessionsOpenedRightly` | `SocketSpec => []OpenedRightly` | |
| | `EveryGapMarked` | `SseSpec => []GapsMarked` | `PeriodAssumption`, of `Timed` |
| `BodyProofs` | `UploadsSettled` | `UploadSpec => []UploadSettled` | `UploadAssumption`, of `Timed` |
| | `NotModifiedTrue` | `FilesSpec => []NotModifiedIsFresh` | `FileAssumption` |
| | `BodyOfOneFile` | `FilesSpec => []OneFile` | |
| | `UnproductiveBounded` | `Spec => []GuardHolds` | `GuardAssumption` |
| | `LargePartsSkipped` | `Spec => []RefusedOnlyStuck` | |
| `AppProofs` | `BestRoute` | `Spec => []BestMatch` | `RouterAssumption`, `AppAssumption` |
| | `EveryRouteReachable` | `Spec => []RoutesReachable` | |
| | `AppInvariance` | `Spec => []AppInv` | |
| | `AllLayersPlaced` | `Spec => []LayersPlaced` | |
| | `AllLayersRun` | `Spec => []LayersRun` | |
| | `DecodedPrefixesCovered` | `Spec => []PrefixesSeeDecoded` | |
| | `DocumentStaysFresh` | `Spec => []DocumentFresh` | |
| `ResponsesProofs` | `StackInvariance` | `Spec => []StackInv` | `SizeAssumption`, `TextsAssumption`, `LengthAssumption`, `ResponsesAssumption` |
| | `NeverWildcardCredentials` | `Spec => []NoWildcardCredentials` | |
| | `RefusalsExplained` | `Spec => []RefusalExplained` | |
| | `GrantsAreReadable` | `Spec => []GrantedIsReadable` | |
| | `HeadsAgree` | `Spec => []HeadAgrees` | |
| | `CachesServeRightVariant` | `Spec => []RightVariant` | |

**Assumptions.** They are facts about the program's data: sizes and limits are
numbers, a limit that the code divides by is not 0, sets of actors are finite.
Three say more. `RouterAssumption` keeps plain, encoded and malformed texts apart
and gives every well-formed text a meaning. `ResponsesAssumption` says what
handlers do (`WellBehaved`): they leave the CORS headers to `Cors`, announce no
other length than their body has, and explain the refusals they make themselves.
`TextsAssumption` names the texts that the layers write.

**Induction and recursion.** What is true of every number is cited as a fact
about a set (`NatInSet`), what a recursive function computes as a fixed point
(`FixedPoint`): the value at a place must depend only on places of lower rank.
The lookup in the trie, the answer of a stack, the scanner's path through the
bytes and the sum over a shard are reasoned about in this way.

**Serve loop.** The inductive invariant is `ServerInv == TypeOK /\
SlotConservation /\ OwnersLive /\ TasksTracked`. `SlotConservation` alone is
nearly inductive, but `Accept` overwrites `refs[c]`: that the connection had no
owner before is a part of `OwnersLive`. `OpenWithinCap` follows since an open
socket has an owner, so open sockets are among the holders. `TasksTracked` says
that the JoinSet has every running connection task until it is given up, which
makes `abort_all` reach all of them, so that nothing is served when the call is
over. The two action properties need one more fact, `AbortedAwaited`: an aborted
task is waited for until the grace is over. The proof is split by the parts of
`Next`: a lemma about `Reown` (what it does to the number of holders and to the
owners of one connection), a lemma about `EndTask`, and one lemma for each part
of the invariant over the accept loop, the drain and the connections.
`Implements` maps every step to a step of `BoundedService` or a stutter:
accepting is `Admit`, an end of a task `Leave`, the end of a request or of a
session `Release` or a stutter, aborts `GiveUp`.

**HTTP/2 driver.** `H2Inv` is the type, `InFlightExact` and four facts.
`StampInv` is the heart: before a stream stops being counted, `last_ms` has
passed the end of its work. So when a tick has found the counter at zero
(`LastInv`: nothing can start before its other load, since requests are accepted
by the driver itself), `last_ms` is past the end of every request
(`QuietEnough`), whatever the other tasks do between the loads. `SlotInv` ties a
slot to the chunk that waits, `TickerInv` the clock to the next tick. For
`Reclaimed`, `TimeInv` says that a tick is due within a period of the limit of
every waiting chunk (`StallTick`) and of the idle limit (`IdleTick`).

**Rate limiter.** `KeyInv`: what a key was given is at most what its bucket
lacks and has not regained by now, plus `Slack` of its shard; a key without a
bucket has regained all but what earlier sweeps cost. `Slack` grows by
`MaxDelay` with every sweep, and sweeps of a shard are `SweepInterval` apart by
the clocks of requests, which makes it at most `Slip` (`SlackFits`). That
`spent` of a swept key is covered is shown from its bucket having been full by
the sweeping request's clock. For Retry-After, `RetryInv` says that the bucket a
refused key would come to has a whole token at the promised time at the latest,
unless someone takes from it or it goes, both of which end the promise.
What a key was given by the overflow bucket is at most what that bucket lacks
(`SpillInv`), and no sweep drops it. `KeyWithinRate` is the first half of
`WithinRate`. For the second, `ShardInv`
keeps books of a shard (`Books`): each of its buckets has a place of its own
below the cap, the overflow bucket has the last one, and what the shard gave out
is shared among the places so that a bucket has room for the share of its place.
A step changes one share, and only the final bound adds them up (`AddsUp`, by
induction on the places). For the table, `TableInv` is that every shard keeps to
its cap; `CapsAddUp` lays the caps side by side among `max_keys` places, which
gives every key a place of its own, so that no sum over the shards is needed.

**Protocol detection.** `SniffInv`: what was read is what the client sent first
(`SeenIsTyped`); once the protocol is known, what the connection was handed and
what `Rewind` still holds make up what was read (`SeenIsKept`); a decision cannot
turn out wrong whatever is sent later (`Decided`); and the task sleeps only when
it has read all there is and that could still be the preface (`SleepsRightly`).

**Writes.** `StallInv` says where the stall clock stands: it runs from the first
refusal since a write was accepted or a flush completed, and the task looks at it
within `Delay` of its end. `Trickles` keeps what the socket took since then and
what TLS still holds within the buffer, and something is held as long as the
clock runs. `ScanInv` follows the scanner through all bytes that are not written
yet, as a path of states (`Parsed`), one byte at a time, that calls progress
exactly the bytes marked as response data and ends between frames. So it does not
matter where writes and slices cut: `feed` moves along the path.

**Static files.** `FilesInv` rests on every write having a modification time of
its own (`OwnTimes`). So what a copy was made of is known by its tag
(`CacheFits`), and a file that still has the time it was described with is the
one that was opened, and what was read is its beginning (`ReadFits`). Writes enter
through one lemma, `WriterEffect`: at most one file changes, and it is then newer
than anything described or kept.

**Multipart.** `GuardInv` rests on one idea: of a sequence of bytes without a
delimiter, only the beginnings of a delimiter that it ends with (`Begun`) decide
where the next delimiter ends in what follows (`DelimiterArrives`,
`BegunGrows`). The guard's `carry` is the end of what was pulled since a `Field`
was dropped, but never drops such a beginning (`CarryKeeps`), so it finds the
first delimiter in `fresh` and counts what is behind it (`Scanned`), and a first
delimiter stays the first whatever follows (`FirstStays`): `unproductive` is
`Unaccounted`, whatever the parser pulls and parses meanwhile. What the parser
has in its buffer ends with no more beginnings than `fresh` does (`Inside`,
`Fewer`), unless a delimiter had begun to arrive when the `Field` was dropped, so
while the guard drains the parser has found no delimiter either. A chunk is let
through only while the count is within the limit, which leaves one chunk
(`Within`).

**Routes.** `FindRecurs` shows that the recursive definition of `Find` has a
value at every node, `FindBest` that it is the best pattern below that node,
from the deepest nodes up: a static branch that leads nowhere is given up for
the capture beside it. `BuiltInv` relates the tables to the routes (`TablesOf`:
every registered route is in the static map or in the trie, for its method, and
the trie has the nodes on the way to each of its own), the routes to the groups
around them, and the layers of routes and groups to the scope they were given.
`DroppedInv` adds that an application with a route that was not kept, and so with
any layer meant for one, does not get past `build`.

**Layers of an application.** `RequestInv` follows a request: every layer that
was passed and covers the request as it is has run since the request was last
exchanged (`Covered`), and a handler answers past the last layer (`Served`).
That a layer of a route covers the requests that reach the route, although one
goes by text and the other by the trie, is what the facts about paths are for.
`DocumentFresh` is inductive together with `BuiltInv`: each registration and
setter that changes what the document is made of drops the caches, and the
routes that `build` adds are in no document.

**Stacks of layers.** `Respond` recurs over the stack. `Along` is its run: what
each layer is given and returns, as two functions on the places of the stack. A
property of answers, or a relation between the answers to two requests, that the
innermost answer has and every layer keeps holds of the answers of the stack; so
each theorem is a case for each kind of layer. For `HEAD` the relation is
`HeadPair`: the same headers, and what the `HEAD` says of the length is what the
layers will make of the body that the `GET` still has; `Compress` and
`ErrorFormat` describe the one as they encode or replace the other. For caches
it is `Variants`: two answers that differ in something say so in `Vary`. For
preflights the layers in front of `Cors` leave the leave to read alone
(`Quiet`). For `NoWildcardCredentials`, `StackInv` says that no `Cors` in the
making or in the stack has both settings (`SafeCors`).

**Timed components.** `UploadInv`, `SseInv` and `SocketInv` each add to the
property where the clock stands: a task that waits has a timer that has not
fired, and one that was woken, by the deadline at the latest, is polled within
`Delay`. `SseInv` also relates the ticker to the last event (`TickerFits`), so a
comment needs a whole period without one. `OpenedInv` says that a session has
the status and the protocol of its handshake; `ChosenIsBest` is the fact about
the choice.

Only model-checked are the liveness properties (`ShutdownReturns`, `LeftoversEnd`,
`OrderlyStop`, `BacklogAdmitted`): fairness is beyond the prover. The properties
that runs refute are not theorems. The bounds of an instance (`MaxTime`,
`MaxBody`, `MaxRoutes`, ...) are constants in the theorems, of any size.

## 5. What is not modelled

- Buffered and streamed bodies share a route's plan; `App::with_state` and
  `default_body_limit` carry values along. Servers with no
  `body_read_timeout` or sessions with no idle timeout wait for ever by design.
- Of multipart: buffered bodies, the limit of the whole body, statuses, and the
  parts' names and types.
- Schema names: their conflict is a choice of `build`. The JSON of the document,
  the text of `Allow`, of errors and of logs.
- Rounding of `f64` tokens, poisoned locks of the limiter, how the key is found.
- The time a tick of the driver takes, late timers; the chunking of large HTTP/2
  bodies.
- Of static files: which paths stay inside the root (checks of path names and
  links), content types, ranges (there are none).
- Of compression the coders, of CORS the comparison of origins' text and
  Max-Age, of request ids their characters.
- WebSocket frames, pings and message sizes (tungstenite); the stall of a `send`
  is that of its socket (`SendPath`).
- TLS, HTTP parsing and multipart parsing themselves (rustls, hyper, multer).
- Extractors, schemas and derive macros: conversions of one request and code at
  compile time, without state; what they compute is text, which a model would
  have to spell out.

## 6. Where code and documentation differ

Shown by a run:

- **HTTP/2 handlers at the deadline** (`server_h2_leftover`). The repository's
  README (lines 74-79) says that connections still busy at `shutdown_timeout`
  are cancelled, the handler dropped, before `serve_listener` returns, unless
  the handler never yields. HTTP/2 handlers run in tasks on hyper's executor
  (`runtime.rs:1395`), which `drain_connections` neither aborts nor waits for.
  They are dropped when their task next runs, which may be after the call has
  returned (`LeftoversEnd` shows that they are dropped).
- **`header_read_timeout` and HTTP/2** (`h2_header_timeout`). Its documentation
  (`runtime.rs:363-364`) says that HTTP/2 connections are not covered at all;
  `drive_h2` closes an HTTP/2 connection idle for that long, as the repository's
  README says.
- **HEAD of a large static file under `Compress`** (`head_compress`). The
  documentation of `min_size` (`compress.rs:49-52`) says that a HEAD always agrees
  with its GET. `ServeDir` streams a file above `SMALL_FILE` with a
  Content-Length; `Compress` leaves a stream as it is, but describes the HEAD, by
  its length, as encoded. `HeadAgrees` states what holds, with that case, a full
  pool of blocking threads and the errors of the last item below excepted.

Recorded from reading and modelling, without a run of their own:

- **Relative paths of the document and of the page.** `assert_route_path`
  (`app.rs:1245-1252`) says that every registration path is absolute, because a
  relative one "would register fine and never match a request".
  `OpenApiOptions::path` and `SwaggerOptions::path` do not go through it: `build`
  accepts such a path, and the document is served to no one. `RoutesReachable`
  says that no other route is like that.
- **What multipart keeps** (`MultipartGuard`). The documentation
  (`multipart.rs:7-11`, `201-203`, the repository's README, lines 474-476) speaks
  of what the parser buffers; the guard counts what was pulled since the parser
  last produced something, and `GuardHolds` bounds that. They differ where multer
  pulls ahead. It takes all that is ready in each poll, so over HTTP/2 a poll that
  finds more than 256 KiB and a chunk ready is refused although the upload is well
  formed; and a body of many small parts may leave more in the buffer with each
  result, which sets the count to 0. How much is ready at once is up to hyper and
  its flow control.
- **A part skipped late** (`MultipartGuard!DropField`). The guard is off while a
  dropped `Field` is skipped, until `DelimiterScan` sees the delimiter that ends
  it (`multipart.rs:101-114`). If that delimiter, or its beginning, has been
  pulled before the drop, the scan waits for the next one, and what comes before
  it is not counted. `GuardHolds` says so (`late`). Bytes that the scan carried
  from an earlier skip stay in `carry` and count as the first ones of the next
  (`fresh`), where they may make up a delimiter that the body does not have.
- **A slow client under TLS.** The documentation of `send_timeout`
  (`runtime.rs:380-396`) lets the clock run while the socket refuses a write.
  `Tracked` is around the TLS stream (`tls.rs:243`), whose flush is pending
  until the socket has taken all that TLS buffers, and a pending flush keeps the
  stall clock (`runtime.rs:1233-1240`): a client that takes a little now and
  then is dropped if it takes less than that buffer within the limit.
  `StallExact` says so.
- **Two `Cors` layers.** The builder of one refuses any origin together with
  credentials (`cors.rs:87-99`, `139-145`). `App::layer` takes a second one, and
  one for any origin around one with credentials answers `*` and credentials,
  which browsers do not accept. `NoWildcardCredentials` is about one.
- **Retrying keys in a full table** (`rate_limit.rs:242-245`). A key may use up
  what the overflow bucket has and, after a sweep, get a full bucket of its own;
  `KeyWithinRate` bounds both.
- **`ErrorFormat` and `CatchPanic` outside of others.** Both put a new response
  in place of one; `ErrorFormat` keeps `Allow`, `WWW-Authenticate`,
  `Retry-After`, `Connection` and `Sec-WebSocket-Version`, `CatchPanic` nothing.
  CORS headers, `Vary` and `X-Request-Id` of layers inside them are gone from
  errors, where `cors.rs:26-27` speaks of all responses "including error
  responses" and `request_id.rs:10-11` of "`404`/`405` ones". The order of
  registration decides; `GrantedIsReadable` has the right one as its premise.
- **`ServeDir` outside of `Cors`.** It answers the `GET` of a file itself,
  without CORS headers, and lets the preflight through, which `Cors` then
  grants. The order of registration decides here too; `GrantedIsReadable` has it
  as a premise.
- **Any origin with exposed headers** (`cors.rs`). `Access-Control-Expose-Headers`
  then depends on whether there is an `Origin`, and `Vary` does not say so.
  `RightVariant` compares the leave to read and the coding.
- **The idle clock of `recv`** (`websocket.rs:313`) starts with each call, so "no
  message arrives for this long" is measured within one call: a handler whose
  `select!` drops `recv` more often than that never times out.
- **Empty `CONTINUATION` frames** are not progress for `FrameScanner`, where its
  comment (`runtime.rs:1053-1054`) names `CONTINUATION` along with `HEADERS`.
- **Small errors and HEAD.** An error that a layer answers itself (401, 429) is
  made without a Content-Length. A `Compress` around it with a `min_size` that the
  document reaches (as low as 32 bytes) encodes it for a GET and, with no length
  to go by, leaves it for a HEAD. `HeadAgrees` excepts it.

## 7. Plan

Done, in this order: `Server` with `BoundedService` and its proofs;
`H2Connection`; `RateLimit`; `Router` and `App`; `MultipartGuard`; `StaticFiles`
and `EventStream`; `BodyRead`; `SendPath`; `Sniff`; `Layers` and `Responses`;
`WebSocketSession`; the proofs of all invariants and action properties of the
passing runs.

Next: the session of `WebSocketSession` as an implementation of what `Server`
takes one to be (`HandlerUpgrades`, `SessionEnds`), step by step as for
`BoundedService`; the invariants behind the liveness properties, in particular
that a call that waits for connections to end waits for some that can; more of
multipart (the limit of the whole body) and of static files.

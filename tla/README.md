# Formal models of gRPCat

gRPCat is a transparent gRPC proxy: it accepts any RPC as a bidirectional
stream, shows the first message to a chain of middlewares, and forwards the
stream to a backend over a pooled connection. The modules in this directory
model the proxy in TLA+, check it with TLC on small instances, and prove its
safety properties with TLAPS for every value of the constants.

Run from this directory:

    tlc -workers 2 -config cache_safety.cfg MCConnectionCache
    tlc -workers 2 -config forward_safety.cfg Forwarder
    tlapm ForwarderProofs.tla

`PROJECT.json` lists every run with its module, the lines of source behind
every definition, one mutated definition per property that must break it, the
hazards the properties are for, and the theorems.

## 1. The system

| Component | Source | State | Operations | Hard part |
|---|---|---|---|---|
| Connection cache | `proxy/cache.go` | map address -> entry under an RWMutex; per entry the atomics `lastUsed`, `inFlight`; a stop channel | `Get`, `acquire`/release, `sweepIdle`, `Remove`, `Close` | atomics written outside the mutex while the sweep reads them; time; goroutines that are late |
| Forwarder | `proxy/forwarder.go` | per call: two streams, a cancel function, two one-element channels, a pin | `Forward`, two pump goroutines | a select over two channels, flow control, cancellation, goroutines that outlive the handler |
| Stream handler | `proxy/server.go` (`TransparentHandler`, `handleAborted`) | per call: first frame, pooled Context | read first message, run chain, abort or forward | order and failure of the steps |
| Middleware registry | `proxy/server.go` (`Use`, `snapshotMiddlewares`) | one slice that only grows | append, snapshot | snapshots alias the array appended to |
| Middleware chain | `middleware/context.go`, `pool.go` | chain index, response, backend, metadata, values | `Next`, `Abort`, `AbortWithError`, `SendResponse`, `SetBackend`, `AddMetadata`, `Set`, `Get`, `reset` | one index moved by nested calls; maps and Contexts shared between requests |
| Server lifecycle | `proxy/server.go` (`Start`, `Stop`) | `stopOnce`, `stopped`, a watcher per `Start` | start, stop, graceful and forced stop | order of GracefulStop, Close and return; `Stop` from a handler |
| Codec and Frame | `proxy/codec.go` | reference counts of pooled buffers | `Marshal`, `Unmarshal`, `Free`, `Data` | ownership of buffers across goroutines |
| Parser | `parser/` | none | message header, method path | length arithmetic, staying in step |
| grpcat | `cmd/grpcat/` | flags, route table | configuration, two signals, bundled middlewares | flags that do not fit; order of options; forced shutdown during a graceful one |

How they interact. gRPC calls the stream handler on a goroutine of its own for
each RPC. The handler reads the first message, takes a Context from the pool
and a snapshot of the middleware slice, runs the chain, and then either answers
itself (abort) or calls `Forward`. `Forward` takes a connection from the cache
and pins it, opens a stream to the backend under a child of the client's
context, starts two pumps, and waits in a select. Its deferred calls cancel the
stream and then unpin the connection. The pumps pass gRPC's buffers from one
leg to the other without copying. The sweeper closes connections nobody has
pinned or used for the idle timeout. `Stop` lets gRPC finish the handlers and
then closes the cache.

What makes each part correct:

- cache: no connection handed out is evicted; the count of streams is exact;
  an open connection is always reachable from the map; unused ones go.
- forwarder: messages reach the other side in order, none lost, none invented,
  with the half-close behind the last one; the client is told the backend's
  own status, after the whole response; a call ends when its client leaves or
  its backend finishes; nothing is left running after it.
- handler: middlewares run in order, an abort is final, what one request leaves
  in a pooled Context is invisible to the next; the backend gets the metadata
  as middleware has left it.
- buffers: the counts kept by hand are the numbers of references, so nothing is
  read after it went back to the pool and nothing stays out.
- lifecycle: the pool is closed under no handler and stays closed; only gRPC's
  own `Stop` cuts RPCs off; shutdown comes to an end.
- parser and command: both decoders and the encoder agree; no TLS flag is
  dropped; requests go where the flags say; size limits hold on both legs.

## 2. Modules

| Module | Models | Extends |
|---|---|---|
| `ConnectionCache` | `cache.go`, every atomic access a step | |
| `BackendPool` | what the cache promises, abstractly | |
| `ConnectionCacheRefinement` | the mapping between the two | `ConnectionCache` |
| `MCConnectionCache` | symmetry sets for TLC | `ConnectionCacheRefinement` |
| `Forwarder` | one call of `Forward` with its peers | |
| `TransparentPipe` | what a proxied call promises, abstractly | |
| `ForwarderRefinement` | the mapping between the two | `Forwarder` |
| `RequestHandler` | handler, registry, chain and pool of Contexts | |
| `RequestMetadata` | metadata maps and values through chain and `Forward` | |
| `FrameRefs` | `codec.go` and the Frames of handler and pumps | |
| `ServerLifecycle` | `Start`, `Stop`, signals, on an instance of `BackendPool` | |
| `MessageFraming` | `parser/packet.go` | |
| `GrpcatCommand` | flags, routes, options, paths | |

The proof modules are in section 5.

### ConnectionCache

The map, the two atomics of each entry, the set of closed connections, the
clock, and a program counter for each worker (an RPC goroutine, or a caller of
the exported `Get`) and for the sweeper. `acquire` is six steps at least:

    FastHit (map read, time.Now)  ->  StoreStamp  ->  Pin  ->  ...
    ... ->  ReleaseNow  ->  ReleaseStamp  ->  ReleaseUnpin

and a miss goes through `FastMiss` and, under the write lock, `SlowHit`,
`SlowDial` or `SlowDialFails`. The sweep examines one entry at a time in four
steps (`SweepInFlight`, `SweepLastUsed`, `SweepState`, `SweepEvict`), since
`acquire` and release change both atomics meanwhile without the mutex. Critical
sections that touch nothing but the map (`Remove`, the second half of `Close`,
the dial) are one step. The mutex is not a variable: who holds it follows from
the program counters.

Time is an integer clock. `MaxPause` bounds how long a goroutine can take from
reading the clock to the write that depends on it (`Tick` is disabled when the
bound would be passed). It is an assumption about scheduling and not something
the code ensures; it is a parameter so that the results can say what they need.
`ConnState` lets gRPC report Idle, or not, at any time, so the check of
`GetState` protects nothing, as the comment at `cache.go:193` warns. `idle`,
`evicted` and `clock` are environment or history.

`BackendPool` has no timestamps, counters, locks or sweeps: at most one open
connection per backend, all of them mapped, and an eviction that takes away
nothing anybody holds. `ConnectionCacheRefinement` lets a worker hold its
connection from the return of `getEntry` until release has dropped the pin.
`Remove` and `Close` make no such promise, in the code or in the pool.

### Forwarder

The handler's program counter follows `Forward` from `acquire` to the last
deferred call; each pump has one of its own. The channels `s2cCh` and `c2sCh`
hold one report or none. Messages are numbers in the order a peer sends them;
`inbox`, `outbox`, `toB` and `fromB` are the four buffers, of which the two
towards a peer take `Window` messages before `SendMsg` blocks. `ended` is how
the backend stream has ended for the proxy (a status, `local`, `canceled`), and
`told` is the one status gRPC has written to the client.

What gRPC does is taken from how the code uses it and says it behaves:

- `SendMsg` on the backend stream returns `io.EOF` once the stream is over,
  whoever ended it, and ends the stream when it fails with a status of its own;
- `RecvMsg` hands out what has arrived before it reports the end;
- `Header` reports no error (`forwarder.go:259`);
- a `RecvMsg` or `SendMsg` on the server stream that fails writes its error to
  the client and ends the context before it returns (`server.go:101`,
  `server_test.go:207`), which is why a live context "means the failure was on
  the backend leg" (`forwarder.go:194`);
- writes to the client wait for the window and fail once the context is done.

Peers are free: the client may send, half-close, stop reading or leave at any
point; the backend may send headers, messages and a status in any legal order,
with or without reading. `LocalFaults` lets any message be over a size limit.
The client's deadline, cancellation and transport loss are one event
(`ClientGone`), and so are all errors of the backend.

`TransparentPipe` has two lanes, a half-close and an outcome, and no pumps,
windows or contexts. A lane carries the next message or stops; the half-close
follows the last message; the backend's status follows its last message; any
other outcome needs trouble (the client left, a size limit) or a call that
never got under way. `ForwarderRefinement` maps a message to carried when it is
written to its stream, and the outcome to the status the client is told.

### RequestHandler and RequestMetadata

Go's slices are backing arrays with lengths, since the claim at
`server.go:211` is about aliasing: `Use` appends in place while there is
capacity and copies otherwise. `Round` is one round of `Next`'s loop, for the
handler's own call and for nested calls alike; `stack` holds the middlewares
whose `Handle` has not returned. A running middleware may call `Next`, abort
(without response, with an error, with data) or set the backend, any number of
times up to `MaxCalls`. `history` records what a request asked for itself, so
that `OwnOutcome` can compare it with what became of it.

`RequestMetadata` has the same requests and pool, with the chain reduced to a
sequence of calls on the Context, and looks at references instead: maps and
RequestInfos are objects with an identity, so that two requests may have one
map (`Shared`) and middleware may assign `Request` or `Request.Metadata`.
`edited` is a history variable: what middleware's own calls have made of each
map. `Forward` copies before it deletes the client's encodings; the handler
reads the RequestInfo it has made, whatever `Context.Request` refers to then.

### FrameRefs

Buffers of gRPC's pool with their reference counts and contents, the three
Frames of a call (first message, up, down) with a program counter each, and the
writes gRPC has queued. `Arrive`, `Unmarshal` and `RecvReturns` are one
`RecvMsg`; `Marshal` and `SendQueued` or `SendFails` one `SendMsg`; `Drain` is
the transport, as late as it likes. `Reuse` is anybody else taking a free
buffer and overwriting it. `Owners` says who really refers to a buffer, and the
properties compare it with the count.

### ServerLifecycle

Calls of `Start` with their watchers, callers of `Stop` (the watcher of a
cancelled context, any other goroutine, a middleware inside a handler), the
body of `stopOnce` in its three steps, the two signals of the command, and RPC
handlers that take and give back connections of a `BackendPool`. The pool is an
instance of the specification the cache implements. Of gRPC's server the model
keeps that `GracefulStop` waits for connections and handlers, that `Stop`
closes connections and does not wait for handlers, and that `Serve` returns
once one of the two has finished and refuses to begin after either.

### MessageFraming and GrpcatCommand

`MessageFraming` has the decoders and the encoder byte by byte; a byte has
`Base` values, so that with 256 the operators are the code's. The reader is a
state machine of its `io.ReadFull` calls and is called until it fails.

`GrpcatCommand` goes from the flags, or from any `Config` of an embedding
program, over the options of both legs to one request. Options of gRPC are
setters applied in order. A text is the sequence of its pieces between the
separator it is cut at.

## 3. Runs

| Run | Instance | Distinct states | Shows |
|---|---|---|---|
| `cache_safety` | 2 backends, 2 connections, 2 workers, timeout 3, pause 1, time to 3 | 1.5 M | an evicted connection is never handed out; counter exact; map owns the open connections; the lag of `lastUsed` is bounded; the cache implements `BackendPool` |
| `cache_liveness` | 1 backend, 2 connections, 2 callers, timeout 1, time to 2 | | evictable connections go; `Close` finishes |
| `cache_late_eviction` | timeout 2, pause 1 | violated | eviction of a connection handed out |
| `cache_timer_off` | 1 backend, 1 connection, time to 6 | violated | eviction without gRPC's idle timer |
| `forward_safety` | 2 messages each way, window 1, size limits, fairness | 103 k | statuses, half-close, late writers, pin, trailers; calls end, nothing outlives them |
| `forward_refines` | 3 messages each way, window 2, a client that reads | 232 k | `Forwarder` implements `TransparentPipe`; the backend's end ends the call |
| `handler_chain` | 2 requests, 2 Contexts, 4 calls of `Use`, 2 calls each | 1.1 M | chain order, aborts, no leak through the pool |
| `metadata` | 2 requests, 2 Contexts, 2 calls each | 0.7 M | edits reach the backend; no map or value leaks; content-type mirrored |
| `frame_refs` | 3 buffers, 4 messages, queue of 2 | 0.3 M | counts exact, no use after free, no leak |
| `lifecycle` | 2 handlers of which one may call `Stop`, 2 `Start`s, 1 other caller, 2 signals | 0.2 M | pool closed for good; RPCs finish; shutdown ends |
| `framing` | byte of 3 values, limit 6, streams of up to 10 bytes | 0.2 M | decoders and encoder agree and stay in step |
| `command` | 2 names, 1 address, 2 routes, all flags, any `Config` | 0.8 M | no silent plaintext; routes and paths; limits |

Bounds. Two workers on one connection are what the races in the cache need (a
release of one and an acquisition by the other); two backends let a connection
be evicted while another is dialed. Timeout 3 is the smallest with
`2 * MaxPause < IdleTimeout` for a pause of 1, and time runs up to it, so that
eviction happens. In the forwarder, two messages and a window of one make every
`SendMsg` able to block and leave one message behind the first; the third
message and the second slot in the refinement run put a message both in a pump
and in a window. Four calls of `Use` take the slice through a copy, an append
in place at length three and a full array. Four messages over three buffers
make every buffer be used again, with a message of both directions and a queued
write at once. In `lifecycle` two callers of `Start` give one that serves and
one that fails; one handler that calls `Stop` and one that does not give the
self-stop and a bystander. In `framing` a byte of three values makes the
32-bit length wrap at 81, above every stream but reached by the lengths in
headers, and ten bytes hold two messages. Every bound of a counter is a
CONSTANT in a guard (`MaxTime`, `ClientMsgs`, `BackendMsgs`, `MaxUse`,
`MaxCalls`, `MaxMsgs`, `MaxQueue`, `MaxInput`, `MaxRoutes`), and `Conns` bounds
the dials. Where a theorem exists, the bounds of the run do not matter to it.

Deadlock is checked in the cache and in `frame_refs`, where something can
always happen (callers come back, buffers are reused). A call, a request, a
stream and a server end, so the other runs turn that check off, and the
liveness properties say what must happen before everything stops.

Fairness. Goroutines that can run do run: weak fairness of the handler, of each
pump, of the steps of a sweep and of a worker that holds a lock, of the steps
of `Start`, `Stop` and the watchers. `[]<>CanLock`, together with strong
fairness of the steps that take the write lock, is Go's `RWMutex`, which lets no
new reader in while a writer waits. A select with two ready cases chooses at
random, hence strong fairness of `SweepExit`. Nothing obliges a peer to do
anything, an RPC with a live client to end, gRPC to report Idle or anyone to
call `Close` or to send a signal. A handler whose client is gone comes to its
end: that is what `FailureEndsCall` shows of `Forward`. Nothing relies on
gRPC's `Stop` finishing before `GracefulStop`. `ReadingSpec` adds that the
client reads what is there, and only `BackendEndsCall` uses it: a backend's
status waits behind messages the client will not read, in this proxy as without
it. It is checked without size limits; with them, the failure ends the call by
`FailureEndsCall`.

A handler that calls `Stop` waits for itself, and every later caller waits with
it. `StopReturns` and `SecondSignalEnds` say so in their statement (`SelfStop`)
instead of leaving the case out of the model.

## 4. Where code and comments disagree

Each of these is a run that TLC refutes, on the property as the comment states
it.

1. `cache_late_eviction`: `lastUsed.Store` in release is not a maximum and not
   locked. A release that is late by half the idle timeout overwrites a newer
   stamp of another goroutine's `getEntry`, and a sweep before that goroutine
   has incremented the count evicts the connection. `server.go:79` says that
   eviction never cancels an RPC. It needs a pause of at least half the timeout
   (with timeouts in minutes, a suspended process), and the theorem
   `EvictionCorrect` proves that with shorter pauses it cannot happen.
2. `cache_timer_off`: `server.go:85` says that a `WithIdleTimeout` of 0 in the
   dial options disables eviction. It disables gRPC's timer, but a connection
   is also Idle before its first stream and after it has lost its transport,
   and the sweeper evicts it then.

Three more comments say a little more than the code does, and the properties
state what does hold. The comment at `cache.go:93` has the stamp of the release
that made the count zero be visible; two releases may store in the opposite
order of their clock readings, and `StampLagBounded` bounds what is lost.
`backendDone` (`forwarder.go:236`) is also reported for a cancelled call and a
failure of the proxy's leg; `TrailerReadable` is what the code relies on. The
`io.EOF` of a `SendMsg` goes through the channel of that of `RecvMsg`, so
"Client finished sending all requests" (`forwarder.go:205`) need not be so;
`HalfCloseFaithful` shows that the backend then sees no half-close.

## 5. Proofs

| Module | Theorems |
|---|---|
| `ConnectionCacheProofs` | `TypeCorrect`, `CounterCorrect`, `MapCorrect`, `LagBounded`, `FreshnessCorrect`, `EvictionCorrect`, `PoolImplemented` |
| `ForwarderProofs` | `TypeCorrect`, `ResultCorrect`, `HalfCloseCorrect`, `LateWriterCorrect`, `PinCorrect`, `TrailerCorrect`, `PipeImplemented` |
| `RequestHandlerProofs` | `ChainOrder`, `AbortIsFinal`, `ContextsIsolated` |
| `RequestMetadataProofs` | `Isolation`, `EditsReachBackend`, `MirrorCorrect` |
| `FrameRefsProofs` | `CountsExact`, `NoUseAfterFree`, `NothingLeaks` |
| `ServerLifecycleProofs` | `PoolClosed`, `RPCsFinish` |
| `MessageFramingProofs` | `ParsedInBounds`, `DecodersCorrect`, `RoundTripCorrect`, `PlaceCorrect` |
| `GrpcatCommandProofs` | `CredentialsCorrect`, `LimitsCorrect`, `RoutingCorrect` |

**Cache.** Type correctness, `InFlightExact` and `MapOwnsOpenConns` hold for
any sets of workers and connections and any times. The counter needs that a
worker holds an entry exactly in the program counters of `Pinning`, and facts
about cardinalities of a set with one element more or less. `StampLagBounded`:
every pending clock reading is at most `MaxPause` old, so whatever is stored
over a stamp is at most that much older. From it and `PauseAssumption`
(`2 * MaxPause < IdleTimeout` when eviction is on) follow `FreshUntilPinned`
and `HandedOutNotEvicted`. One lag comes from the release that overwrites, one
from the pause of the victim before its pin, hence the factor two;
`cache_late_eviction` shows that it is tight. The invariant has to speak of the
sweep in progress as well: an entry that has passed the first test was unpinned
then, and if it is handed out since, its stamp is too new to pass the second.
`PoolImplemented` maps each step, under the same assumption: what a worker is
given is in the map at the moment it gets it, as the mutex is held.

**Forwarder.** Four groups of facts are inductive together (`AllInv`).
`Inv` is about the handler's returns: it is past its pin and cancellation only
in the deferred calls (`PinInv`), a pump that has reported has exited
(`PumpInv`), an error of the client direction comes with the end of the context
or of the backend leg, both final (`CauseInv`), and a report with `backendDone`
comes after the end of the stream (`EndInv`). `ClientLane` and `ServerLane` say
where each message is: every buffer holds consecutive numbers (`Run`), and
what was read, what is in the window and what the pump has in its hand add up
to what was sent and taken; towards the backend only while its stream is open,
since a `SendMsg` on a finished stream drops its message. `HalfCloseInv` gives
the two meanings of `io.EOF` their condition. `StatusInv` follows a status from
the pump's report over what `Forward` returns to what the client is told.
`PipeImplemented` adds three small facts (`LimitInv`, `QuietInv`, `OnceInv`:
no local error without a limit, nothing moves without a stream, `CloseSend`
runs once) and maps every action to a step of the pipe or a stutter. It holds
with size limits as well, where the run has none.

**Handler.** `Use` writes only behind the elements in use of the last array, so
a snapshot never changes (`SnapshotInv`). The index of a chain that is not
aborted is at most the number of `Next` calls and returns so far, so it stays
below `abortIndex`, and that is behind the end of every chain (`IndexInv`). A
Context in the pool is clean and belongs to nobody (`PoolInv`, `OwnInv`).
`HandlerAssumption` asks for `AbortIndex > 2 * MaxUse + MaxCalls`, the most the
index can grow; the code's is `math.MaxInt >> 1`.

**Metadata.** A Context belongs to one request between `AcquireContext` and the
deferred release, and what lies in the pool is blank (`ContextInv`).
`SentAsEdited` is an action property and follows in the step that forwards.
`ContentTypeMirrored` is about what has left, and what leaves is what some map
holds: `TypesInv` bounds the content-types any map can have (none, or one of
those a client or a middleware puts there), including the maps middleware makes
and shares, and `SubtypeOf` says what `contentSubtype` cuts from each.

**Buffers.** Every step adds one reference, drops one, moves one or leaves all
as they are; four lemmas say what each does to the counts. The invariant adds
what a Frame may hold at each point of its goroutine, and that no message is
queued while it is still to be sent.

**Lifecycle.** What a handler holds is still mapped (`PoolInv`), and once
`GracefulStop` has returned no handler runs and none can begin, as no client
connection is left (`StopInv`).

**Framing.** Base arithmetic: four digits make a number below `Base^4`,
`PutUint32` gives them back, and the digits of a number are unique
(`Uint32OfPut`, `PutOfUint32`); with ends computed in 64 bits the slices of
both decoders are the same. `PlaceCorrect` needs `PlaceInv`, which
`StaysInStep` follows from and which TLC has checked on the instance of
`framing`: the messages read, encoded again and put one behind the other, stand
for everything in front of the suffix `frame`, and that also while a header has
been read and its payload has not. The flag makes "stand for" weaker than
equality, at one byte in each message. `FlattenAppend` says what one more
message does to a concatenation of any number of them.

**Command.** `Inv` has one conjunct for each phase: the Config is the one the
flags give if there are flags (`ConfigInv`), a server that exists has what the
options of that Config come to (`ServerInv`), the routes are those of the
latest flag of each service (`RouteInv`), and a request is what the handler
makes of some path (`RequestInv`). The three properties are then statements
about operators: `LastSetterWins`, that of any number of options the last of
its kind decides, with `ServerSettings` and `DialSettings` for the two lists of
options; and `ParsedPath`, that a path is accepted exactly if it is a formatted
one, with or without the leading slash. Without `RouteInv` over the whole list
of flags nothing says that a replaced route is gone.

Induction. The library's induction theorems take a predicate as an operator,
which the provers cannot instantiate. Where a proof goes over data of any
length, it takes the least counterexample instead: `LeastNumber`, from the
theorem on well-founded orders that speaks of a set (`WFMin`), gives every
non-empty set of numbers a least element. That, with recursive functions in
place of RECURSIVE operators, is enough for options (`Effective`) and for
concatenations (`FlattenSeq`). `Empty` and `NoSubtype` name the empty string
because the SMT translation has none.

Assumptions are the named ASSUMEs on constants, which TLC evaluates in every
run of their module, and `PauseAssumption` where a theorem cites it.

Every safety property of a run that is expected to pass is a theorem.
Only model-checked: all liveness, since fairness brings ENABLED, which is out of
the prover's reach.

## 6. Not modelled

- `ProxyCodec` for messages that are no Frames, `ParseAs` and the buffer
  `handleAborted` wraps its data in: they keep no reference and change no count.
- What `OnFirstFrameError` makes of an error: any error may come of it.
- `-version`, log lines, the logging middleware; keepalive and service-config
  options, which gRPC alone interprets.
- Backward steps of the wall clock, which `lastUsed` follows: they only delay
  evictions. A step forward is a pause of that length in every goroutine that
  holds a stamp, so `MaxPause` and `PauseAssumption` cover it.
- Panics of middlewares; a middleware that writes `Context.Response` directly or
  uses its Context after the call (the documentation forbids the latter).
- Several calls of `Forward` share only the cache, so `Forwarder` has one. Their
  pins meet in `ConnectionCache`, and in `ServerLifecycle` on the pool.
- `Remove`, which the proxy itself never calls, cancels the streams of others
  by design; it is an action of the cache and of the pool, with no promise.

## 7. What could follow

1. A `ServerLifecycle` with `Forwarder` in the place of its handlers. Today the
   two meet in the fact that a handler whose client is gone ends, proved of
   neither but checked of `Forwarder` (`FailureEndsCall`) and assumed as
   fairness in `ServerLifecycle`.

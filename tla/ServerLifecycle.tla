--------------------------- MODULE ServerLifecycle ---------------------------
(***************************************************************************)
(* Start, Stop and the two signals of the command: who may still be using  *)
(* the server, and the pool of backend connections, while it goes down.    *)
(*                                                                         *)
(* The pool is BackendPool, which the connection cache implements; its     *)
(* workers are the RPC handlers.  Of gRPC's server the model keeps that    *)
(* GracefulStop waits for connections and handlers, that Stop closes the   *)
(* connections and does not wait for handlers, and that Serve returns once *)
(* one of the two has finished.                                            *)
(***************************************************************************)
EXTENDS Naturals

CONSTANTS
  Backends, Conns, Nil,  (* As in BackendPool.                             *)
  Handlers,  (* RPCs, each with its handler.                               *)
  Stopping,  (* The Handlers in which a middleware calls Stop.             *)
  Starters,  (* Callers of Start; each has a watcher goroutine.            *)
  Users      (* Other goroutines that call Stop.                           *)

ASSUME LifecycleAssumption ==
  /\ Nil \notin Conns /\ Stopping \subseteq Handlers
  /\ Starters \cap Users = {} /\ (Starters \cup Users) \cap Handlers = {}

(* A starter stands for its watcher when it is a caller of Stop.           *)
Callers == Starters \cup Users \cup Stopping

VARIABLES
  start,     (* Where each call of Start is.                               *)
  watcher,   (* The goroutine it has started.                              *)
  cancelled, (* The context passed to Start is done.                       *)
  signals,   (* Signals the command has received.                          *)
  stop,      (* How far the body of stopOnce is.                           *)
  caller,    (* Whether a caller of Stop is before, in or behind it.       *)
  quit,      (* gRPC: Stop or GracefulStop was called.                     *)
  forced,    (* gRPC: Stop was called.                                     *)
  connsGone, (* gRPC: it has quit and no client connection is left.        *)
  served,    (* gRPC: Stop or GracefulStop has finished.                   *)
  rpc,       (* Where each handler is.                                     *)
  live,      (* The RPCs whose stream to the client is alive.              *)
  conns, dialed, closed, evicted, holds  (* The pool.                      *)

poolVars   == <<conns, dialed, closed, evicted, holds>>
grpcVars   == <<quit, forced, connsGone, served>>
rpcVars    == <<rpc, live>>
startVars  == <<start, watcher, cancelled, signals>>
stopVars   == <<stop, caller>>
vars == <<startVars, stopVars, grpcVars, rpcVars, poolVars>>

Pool == INSTANCE BackendPool WITH Workers <- Handlers

Init ==
  /\ start = [s \in Starters |-> "idle"]
  /\ watcher = [s \in Starters |-> "none"]
  /\ cancelled = FALSE /\ signals = 0
  /\ stop = "open" /\ caller = [c \in Callers |-> "before"]
  /\ quit = FALSE /\ forced = FALSE /\ connsGone = FALSE /\ served = FALSE
  /\ rpc = [h \in Handlers |-> "none"] /\ live = {}
  /\ Pool!Init

-----------------------------------------------------------------------------
(* Stop.                                                                   *)

(* The first caller closes s.stopped and runs the body; the others wait    *)
(* inside stopOnce.Do until it has ended.                                  *)
EnterStop(c) ==
  /\ caller[c] = "before"
  /\ caller' = [caller EXCEPT ![c] = "in"]
  /\ stop' = IF stop = "open" THEN "entered" ELSE stop

(* Mutants: gRPC's Stop instead of GracefulStop; Start has to return first.*)
CallStop ==
  /\ stop = "entered" /\ stop' = "drained"
  /\ quit' = TRUE /\ live' = {} /\ connsGone' = TRUE /\ served' = TRUE
  /\ UNCHANGED <<startVars, caller, forced, rpc, poolVars>>

CallGracefulStopLate ==
  /\ stop = "entered" /\ \A s \in Starters : start[s] # "serving"
  /\ stop' = "graceful" /\ quit' = TRUE
  /\ UNCHANGED <<startVars, caller, forced, connsGone, served, rpcVars,
                 poolVars>>

CallGracefulStop ==
  /\ stop = "entered" /\ stop' = "graceful"
  /\ quit' = TRUE
  /\ UNCHANGED <<startVars, caller, forced, connsGone, served, rpcVars,
                 poolVars>>

Idle == \A h \in Handlers : rpc[h] \in {"none", "ended"}

GracefulStopReturns ==
  /\ stop = "graceful" /\ connsGone /\ Idle
  /\ stop' = "drained" /\ served' = TRUE
  /\ UNCHANGED <<startVars, caller, quit, forced, connsGone, rpcVars, poolVars>>

(* Mutants: the pool is closed while GracefulStop waits, or not at all.    *)
ClosePoolEarly ==
  /\ stop \in {"graceful", "drained"} /\ stop' = "done"
  /\ Pool!Close
  /\ UNCHANGED <<startVars, caller, grpcVars, rpcVars>>

ClosePoolSkipped ==
  /\ stop = "drained" /\ stop' = "done"
  /\ UNCHANGED <<startVars, caller, grpcVars, rpcVars, poolVars>>

(* forwarder.Close(), the end of the body.                                 *)
ClosePool ==
  /\ stop = "drained" /\ stop' = "done"
  /\ Pool!Close
  /\ UNCHANGED <<startVars, caller, grpcVars, rpcVars>>

ReturnFromStop(c) ==
  /\ caller[c] = "in" /\ stop = "done"
  /\ caller' = [caller EXCEPT ![c] = "behind"]
  /\ watcher' = [s \in Starters |-> IF s = c THEN "ended" ELSE watcher[s]]
  /\ UNCHANGED <<start, cancelled, signals, stop, grpcVars, rpcVars, poolVars>>

UserStops(u) ==
  /\ EnterStop(u)
  /\ UNCHANGED <<startVars, grpcVars, rpcVars, poolVars>>

-----------------------------------------------------------------------------
(* Start.                                                                  *)

(* net.Listen, and the watcher goroutine.                                  *)
Listen(s) ==
  /\ start[s] = "idle"
  /\ \/ /\ start' = [start EXCEPT ![s] = "listening"]
        /\ watcher' = [watcher EXCEPT ![s] = "waiting"]
     \/ start' = [start EXCEPT ![s] = "failed"] /\ UNCHANGED watcher
  /\ UNCHANGED <<cancelled, signals, stopVars, grpcVars, rpcVars, poolVars>>

(* Serve refuses to begin after Stop or GracefulStop.                      *)
Serve(s) ==
  /\ start[s] = "listening"
  /\ start' = [start EXCEPT ![s] = IF quit THEN "failed" ELSE "serving"]
  /\ UNCHANGED <<watcher, cancelled, signals, stopVars, grpcVars, rpcVars,
                 poolVars>>

(* Serve waits for the end of the Stop or GracefulStop that ended it.      *)
ServeReturns(s) ==
  /\ start[s] = "serving" /\ served
  /\ start' = [start EXCEPT ![s] = "returned"]
  /\ UNCHANGED <<watcher, cancelled, signals, stopVars, grpcVars, rpcVars,
                 poolVars>>

(* The listener breaks; connections it has accepted live on.               *)
ServeFails(s) ==
  /\ start[s] = "serving" /\ ~quit
  /\ start' = [start EXCEPT ![s] = "broken"]
  /\ UNCHANGED <<watcher, cancelled, signals, stopVars, grpcVars, rpcVars,
                 poolVars>>

(* The watcher's select: ctx.Done() is ready ...                           *)
WatcherStops(s) ==
  /\ watcher[s] = "waiting" /\ cancelled
  /\ watcher' = [watcher EXCEPT ![s] = "stopping"]
  /\ EnterStop(s)
  /\ UNCHANGED <<start, cancelled, signals, grpcVars, rpcVars, poolVars>>

(* Mutant: the watcher looks at ctx.Done() only.                           *)
WatcherEndsCancelled(s) ==
  /\ watcher[s] = "waiting" /\ stop # "open" /\ cancelled
  /\ watcher' = [watcher EXCEPT ![s] = "ended"]
  /\ UNCHANGED <<start, cancelled, signals, stopVars, grpcVars, rpcVars,
                 poolVars>>

(* ... or s.stopped is closed.                                             *)
WatcherEnds(s) ==
  /\ watcher[s] = "waiting" /\ stop # "open"
  /\ watcher' = [watcher EXCEPT ![s] = "ended"]
  /\ UNCHANGED <<start, cancelled, signals, stopVars, grpcVars, rpcVars,
                 poolVars>>

-----------------------------------------------------------------------------
(* The command's signals. A library user may cancel the context as well.   *)

FirstSignal ==
  /\ signals = 0 /\ signals' = 1
  /\ cancelled' = TRUE
  /\ UNCHANGED <<start, watcher, stopVars, grpcVars, rpcVars, poolVars>>

(* Mutant: the second signal asks for the graceful stop again.             *)
SecondSignalGraceful ==
  /\ signals = 1 /\ signals' = 2
  /\ UNCHANGED <<start, watcher, cancelled, stopVars, grpcVars, rpcVars,
                 poolVars>>

(* The second one calls gRPC's own Stop: all connections are closed and    *)
(* the contexts of their RPCs cancelled.                                   *)
SecondSignal ==
  /\ signals = 1 /\ signals' = 2
  /\ quit' = TRUE /\ forced' = TRUE /\ live' = {}
  /\ UNCHANGED <<start, watcher, cancelled, stopVars, connsGone, served, rpc,
                 poolVars>>

-----------------------------------------------------------------------------
(* gRPC and the handlers.                                                  *)

(* While it drains, gRPC still takes RPCs on connections it has.           *)
NewRPC(h) ==
  /\ rpc[h] = "none" /\ ~connsGone /\ ~forced
  /\ \E s \in Starters : start[s] \in {"serving", "broken"}
  /\ rpc' = [rpc EXCEPT ![h] = "running"] /\ live' = live \cup {h}
  /\ UNCHANGED <<startVars, stopVars, grpcVars, poolVars>>

ClientLeaves(h) ==
  /\ h \in live /\ live' = live \ {h}
  /\ UNCHANGED <<startVars, stopVars, grpcVars, rpc, poolVars>>

ConnsGone ==
  /\ quit /\ ~connsGone /\ live = {}
  /\ connsGone' = TRUE
  /\ UNCHANGED <<startVars, stopVars, quit, forced, served, rpcVars, poolVars>>

(* gRPC's Stop returns; handlers may still be running.                     *)
ForcedStopReturns ==
  /\ forced /\ connsGone /\ ~served
  /\ served' = TRUE
  /\ UNCHANGED <<startVars, stopVars, quit, forced, connsGone, rpcVars,
                 poolVars>>

InStop(h) == h \in Stopping /\ caller[h] = "in"

HandlerStops(h) ==
  /\ rpc[h] = "running" /\ h \in Stopping /\ EnterStop(h)
  /\ UNCHANGED <<startVars, grpcVars, rpcVars, poolVars>>

(* Forward takes a connection from the pool ...                            *)
Acquire(h) ==
  /\ rpc[h] = "running" /\ ~InStop(h)
  /\ \E b \in Backends :
       Pool!Hold(h, b) \/ \E c \in Conns : Pool!HoldNew(h, b, c)
  /\ rpc' = [rpc EXCEPT ![h] = "forwarding"]
  /\ UNCHANGED <<startVars, stopVars, grpcVars, live>>

(* ... and its deferred release gives it back.                             *)
Release(h) ==
  /\ rpc[h] = "forwarding"
  /\ Pool!GiveBack(h)
  /\ rpc' = [rpc EXCEPT ![h] = "returning"]
  /\ UNCHANGED <<startVars, stopVars, grpcVars, live>>

HandlerReturns(h) ==
  /\ rpc[h] \in {"running", "returning"} /\ ~InStop(h)
  /\ rpc' = [rpc EXCEPT ![h] = "ended"] /\ live' = live \ {h}
  /\ UNCHANGED <<startVars, stopVars, grpcVars, poolVars>>

(* The sweeper.                                                            *)
Evict(b) ==
  /\ Pool!Evict(b)
  /\ UNCHANGED <<startVars, stopVars, grpcVars, rpcVars>>

-----------------------------------------------------------------------------
HandlerStep(h) ==
  NewRPC(h) \/ ClientLeaves(h) \/ HandlerStops(h) \/ Acquire(h) \/ Release(h)
    \/ HandlerReturns(h)

StartStep(s) ==
  Listen(s) \/ Serve(s) \/ ServeReturns(s) \/ ServeFails(s) \/ WatcherStops(s)
    \/ WatcherEnds(s)

Next ==
  \/ \E s \in Starters : StartStep(s)
  \/ \E u \in Users : UserStops(u)
  \/ \E c \in Callers : ReturnFromStop(c)
  \/ CallGracefulStop \/ GracefulStopReturns \/ ClosePool
  \/ FirstSignal \/ SecondSignal
  \/ ConnsGone \/ ForcedStopReturns
  \/ \E h \in Handlers : HandlerStep(h)
  \/ \E b \in Backends : Evict(b)

Spec == Init /\ [][Next]_vars

(* Goroutines that can run do run. A handler whose client is gone, or cut  *)
(* off, has a cancelled context and comes to its end; nothing obliges one  *)
(* with a live client to end, and nobody relies on gRPC's Stop being the   *)
(* one that finishes: it and GracefulStop contend for one mutex.           *)
Fairness ==
  /\ \A s \in Starters : WF_vars(Serve(s)) /\ WF_vars(ServeReturns(s))
                           /\ WF_vars(WatcherStops(s) \/ WatcherEnds(s))
  /\ \A c \in Callers : WF_vars(ReturnFromStop(c))
  /\ WF_vars(CallGracefulStop) /\ WF_vars(GracefulStopReturns)
  /\ WF_vars(ClosePool) /\ WF_vars(ConnsGone)
  /\ \A h \in Handlers :
       WF_vars(h \notin live /\ (Release(h) \/ HandlerReturns(h)))

FairSpec == Spec /\ Fairness

-----------------------------------------------------------------------------
(* Stop's comment: "GracefulStop has returned, so no forwarder is still    *)
(* writing to the cache". The pool is closed under no handler, by Stop or  *)
(* the sweeper, and none comes later and dials into the new map a          *)
(* connection nobody will close.                                           *)
PoolClosedForGood ==
  /\ \A h \in Handlers : holds[h] \notin closed
  /\ stop = "done" => dialed = closed /\ \A h \in Handlers : holds[h] = Nil

(* Unless gRPC's own Stop cuts it short, Start returns only when every RPC *)
(* has run to its end.                                                     *)
NoRPCCutOff == (\E s \in Starters : start[s] = "returned") /\ ~forced => Idle

SelfStop == \E h \in Handlers : InStop(h)

(* After the second signal the process comes to its end, whatever clients  *)
(* and backends do; only a handler that waits for Stop can prevent it.     *)
SecondSignalEnds ==
  signals = 2 ~> SelfStop \/ \A s \in Starters :
                               start[s] \notin {"listening", "serving"}

(* Every caller of Stop comes back once the clients are gone, the first    *)
(* one and those blocked in stopOnce alike, again unless a handler is      *)
(* among them.                                                             *)
StopReturns ==
  \A c \in Callers :
    caller[c] = "in" /\ connsGone ~> SelfStop \/ caller[c] = "behind"

(* Start's comment: Stop alone does not leave the watcher parked on        *)
(* ctx.Done(), not even that of a Start that has failed.                   *)
WatchersLeave ==
  \A s \in Starters : stop # "open" /\ watcher[s] = "waiting"
                        ~> watcher[s] # "waiting"
=============================================================================

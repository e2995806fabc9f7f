--------------------------- MODULE ConnectionCache ---------------------------
(***************************************************************************)
(* The pool of backend connections of proxy/cache.go: a map from backend   *)
(* address to a cached entry, guarded by the RWMutex c.mu, whose entries   *)
(* carry two atomics, lastUsed and inFlight, that are written WITHOUT the  *)
(* mutex by acquire and release.                                           *)
(*                                                                         *)
(* The actors are the goroutines that take connections (Workers), the      *)
(* sweeper started by startSweeper, callers of Remove and Close, and gRPC, *)
(* which moves a connection in and out of connectivity.Idle.               *)
(*                                                                         *)
(* Every read and write of an atomic is a step of its own, and so is every *)
(* reading of time.Now() whose value is stored or compared later.  A       *)
(* critical section is one step only when nothing it touches is touched    *)
(* outside the mutex.  The mutex itself is derived from the program        *)
(* counters: a goroutine is inside a critical section or it is not.        *)
(***************************************************************************)
EXTENDS Integers, FiniteSets

CONSTANTS
  Backends,     (* Backend addresses.                                      *)
  Conns,        (* Connections that can be dialed. Bounds the dials.       *)
  Workers,      (* Goroutines that call acquire or Get.                    *)
  Getters,      (* The Workers that call the exported Get, which takes no  *)
                (* pin; the others are RPC handlers and call acquire.      *)
  Nil,          (* No connection, no backend.                              *)
  IdleTimeout,  (* c.idleTimeout; 0 disables eviction.                     *)
  MaxPause,     (* Longest time a goroutine takes from reading the clock   *)
                (* to its next write that depends on it.                   *)
  MaxTime       (* Bounds the clock.                                       *)

ASSUME CacheAssumption ==
  /\ IsFiniteSet(Workers)
  /\ Getters \subseteq Workers
  /\ Nil \notin Conns
  /\ Nil \notin Backends
  /\ IdleTimeout \in Nat
  /\ MaxPause \in Nat
  /\ MaxTime \in Nat

VARIABLES
  conns,     (* The map c.conns: the cached connection of each backend.    *)
  lastUsed,  (* entry.lastUsed of each connection.                         *)
  inFlight,  (* entry.inFlight of each connection.                         *)
  dialed,    (* Connections created so far.                                *)
  closed,    (* Connections on which ClientConn.Close was called.          *)
  evicted,   (* Those of them closed by the sweeper. A history variable.   *)
  idle,      (* Connections whose GetState() is connectivity.Idle.         *)
  clock,     (* time.Now(), as an integer.                                 *)
  pc,        (* Where each worker is.                                      *)
  want,      (* Backend a worker looks up again under the write lock.      *)
  entry,     (* Entry a worker has obtained.                               *)
  stamp,     (* Time a worker has read and not yet finished using, else 0. *)
  sweepPc,   (* Where the sweeper is.                                      *)
  sweepNow,  (* The argument now of the running sweepIdle, else 0.         *)
  sweepTodo, (* Backends the range loop has still to visit.                *)
  sweepAt,   (* Backend the range loop is visiting.                        *)
  stopped,   (* The channel stopSweeper is closed.                         *)
  closing    (* A Close has stopped the sweeper and waits for c.mu.        *)

workerVars == <<pc, want, entry, stamp>>
sweepVars  == <<sweepPc, sweepNow, sweepTodo, sweepAt>>
connVars   == <<dialed, closed, evicted, idle>>
closeVars  == <<stopped, closing>>
vars == <<conns, lastUsed, inFlight, clock, connVars, workerVars, sweepVars,
          closeVars>>

-----------------------------------------------------------------------------
(* The mutex, and the sets of program counters the properties speak of.    *)

Sweeping == {"scan", "stamp", "state", "evict"}

WriteLocked == sweepPc \in Sweeping \/ \E w \in Workers : pc[w] = "slowStore"
ReadLocked  == \E w \in Workers : pc[w] = "fastStore"
CanRLock    == ~WriteLocked
CanLock     == ~WriteLocked /\ ~ReadLocked

(* Between inFlight.Add(1) and inFlight.Add(-1).                           *)
Pinning    == {"held", "relStore", "relDec"}
(* From the return of getEntry to the end of release.                      *)
HandedOut  == Pinning \cup {"got"}
(* A clock reading is pending: not yet stored, or stored by getEntry and   *)
(* not yet followed by the increment of inFlight.                          *)
Timed      == {"fastStore", "slowStore", "got", "relStore"}

Holders(c) == {w \in Workers : entry[w] = c /\ pc[w] \in Pinning}

-----------------------------------------------------------------------------
Init ==
  /\ conns = [b \in Backends |-> Nil]
  /\ lastUsed = [c \in Conns |-> 0]
  /\ inFlight = [c \in Conns |-> 0]
  /\ dialed = {} /\ closed = {} /\ evicted = {} /\ idle = {}
  /\ clock = 0
  /\ pc = [w \in Workers |-> "ready"]
  /\ want = [w \in Workers |-> Nil]
  /\ entry = [w \in Workers |-> Nil]
  /\ stamp = [w \in Workers |-> 0]
  \* startSweeper does nothing when the timeout is zero.
  /\ sweepPc = IF IdleTimeout > 0 THEN "select" ELSE "exited"
  /\ sweepNow = 0 /\ sweepTodo = {} /\ sweepAt = Nil
  /\ stopped = FALSE /\ closing = FALSE

-----------------------------------------------------------------------------
(* getEntry.                                                               *)

(* Fast path: the entry is there; time.Now() is read under the read lock.  *)
FastHit(w, b) ==
  /\ pc[w] = "ready" /\ CanRLock /\ conns[b] # Nil
  /\ pc' = [pc EXCEPT ![w] = "fastStore"]
  /\ entry' = [entry EXCEPT ![w] = conns[b]]
  /\ stamp' = [stamp EXCEPT ![w] = clock]
  /\ UNCHANGED <<conns, lastUsed, inFlight, clock, want, connVars, sweepVars,
                 closeVars>>

(* Fast path: no entry; the read lock is dropped before the write lock is  *)
(* asked for, so another goroutine may dial in between.                    *)
FastMiss(w, b) ==
  /\ pc[w] = "ready" /\ CanRLock /\ conns[b] = Nil
  /\ pc' = [pc EXCEPT ![w] = "slow"]
  /\ want' = [want EXCEPT ![w] = b]
  /\ UNCHANGED <<conns, lastUsed, inFlight, clock, entry, stamp, connVars,
                 sweepVars, closeVars>>

(* Slow path, double check: another goroutine created the entry.           *)
SlowHit(w) ==
  /\ pc[w] = "slow" /\ CanLock /\ conns[want[w]] # Nil
  /\ pc' = [pc EXCEPT ![w] = "slowStore"]
  /\ entry' = [entry EXCEPT ![w] = conns[want[w]]]
  /\ stamp' = [stamp EXCEPT ![w] = clock]
  /\ want' = [want EXCEPT ![w] = Nil]
  /\ UNCHANGED <<conns, lastUsed, inFlight, clock, connVars, sweepVars,
                 closeVars>>

(* getEntry returns c, used at time t. Get passes the connection on and    *)
(* keeps no trace of the entry; acquire goes on to pin it.                 *)
ReturnEntry(w, c, t) ==
  IF w \in Getters
  THEN /\ pc' = [pc EXCEPT ![w] = "ready"]
       /\ entry' = [entry EXCEPT ![w] = Nil]
       /\ stamp' = [stamp EXCEPT ![w] = 0]
  ELSE /\ pc' = [pc EXCEPT ![w] = "got"]
       /\ entry' = [entry EXCEPT ![w] = c]
       /\ stamp' = [stamp EXCEPT ![w] = t]

(* Mutant: the hit path leaves the timestamp as it is.                     *)
StoreStampSkipped(w) ==
  /\ pc[w] \in {"fastStore", "slowStore"}
  /\ ReturnEntry(w, entry[w], stamp[w])
  /\ UNCHANGED <<conns, lastUsed, inFlight, clock, want, connVars, sweepVars,
                 closeVars>>

(* lastUsed.Store of the time read before, then the lock is released.      *)
StoreStamp(w) ==
  /\ pc[w] \in {"fastStore", "slowStore"}
  /\ lastUsed' = [lastUsed EXCEPT ![entry[w]] = stamp[w]]
  /\ ReturnEntry(w, entry[w], stamp[w])
  /\ UNCHANGED <<conns, inFlight, clock, want, connVars, sweepVars,
                 closeVars>>

(* Mutant: no second look at the map under the write lock.                 *)
SlowDialUnchecked(w, c) ==
  /\ pc[w] = "slow" /\ CanLock /\ c \in Conns \ dialed
  /\ conns' = [conns EXCEPT ![want[w]] = c]
  /\ lastUsed' = [lastUsed EXCEPT ![c] = clock]
  /\ dialed' = dialed \cup {c}
  /\ idle' = idle \cup {c}
  /\ want' = [want EXCEPT ![w] = Nil]
  /\ ReturnEntry(w, c, clock)
  /\ UNCHANGED <<inFlight, clock, closed, evicted, sweepVars, closeVars>>

(* Slow path: dial. The new connection is connectivity.Idle from birth.    *)
SlowDial(w, c) ==
  /\ pc[w] = "slow" /\ CanLock /\ conns[want[w]] = Nil
  /\ c \in Conns \ dialed
  /\ conns' = [conns EXCEPT ![want[w]] = c]
  /\ lastUsed' = [lastUsed EXCEPT ![c] = clock]
  /\ dialed' = dialed \cup {c}
  /\ idle' = idle \cup {c}
  /\ want' = [want EXCEPT ![w] = Nil]
  /\ ReturnEntry(w, c, clock)
  /\ UNCHANGED <<inFlight, clock, closed, evicted, sweepVars, closeVars>>

(* Slow path: grpc.NewClient fails; the caller gets the error.             *)
SlowDialFails(w) ==
  /\ pc[w] = "slow" /\ CanLock /\ conns[want[w]] = Nil
  /\ pc' = [pc EXCEPT ![w] = "ready"]
  /\ want' = [want EXCEPT ![w] = Nil]
  /\ UNCHANGED <<conns, lastUsed, inFlight, clock, entry, stamp, connVars,
                 sweepVars, closeVars>>

-----------------------------------------------------------------------------
(* acquire after getEntry, and the release function it returns.            *)

(* Mutant: a flag instead of a counter.                                    *)
PinFlag(w) ==
  /\ pc[w] = "got"
  /\ inFlight' = [inFlight EXCEPT ![entry[w]] = 1]
  /\ pc' = [pc EXCEPT ![w] = "held"]
  /\ stamp' = [stamp EXCEPT ![w] = 0]
  /\ UNCHANGED <<conns, lastUsed, clock, want, entry, connVars, sweepVars,
                 closeVars>>

Pin(w) ==
  /\ pc[w] = "got"
  /\ inFlight' = [inFlight EXCEPT ![entry[w]] = @ + 1]
  /\ pc' = [pc EXCEPT ![w] = "held"]
  /\ stamp' = [stamp EXCEPT ![w] = 0]
  /\ UNCHANGED <<conns, lastUsed, clock, want, entry, connVars, sweepVars,
                 closeVars>>

(* release reads the clock ...                                             *)
ReleaseNow(w) ==
  /\ pc[w] = "held"
  /\ stamp' = [stamp EXCEPT ![w] = clock]
  /\ pc' = [pc EXCEPT ![w] = "relStore"]
  /\ UNCHANGED <<conns, lastUsed, inFlight, clock, want, entry, connVars,
                 sweepVars, closeVars>>

(* Mutant: release decrements without stamping.                            *)
ReleaseStampSkipped(w) ==
  /\ pc[w] = "relStore"
  /\ pc' = [pc EXCEPT ![w] = "relDec"]
  /\ UNCHANGED <<conns, lastUsed, inFlight, clock, want, entry, stamp,
                 connVars, sweepVars, closeVars>>

(* ... stores it in lastUsed ...                                           *)
ReleaseStamp(w) ==
  /\ pc[w] = "relStore"
  /\ lastUsed' = [lastUsed EXCEPT ![entry[w]] = stamp[w]]
  /\ pc' = [pc EXCEPT ![w] = "relDec"]
  /\ UNCHANGED <<conns, inFlight, clock, want, entry, stamp, connVars,
                 sweepVars, closeVars>>

(* Mutant: release runs twice.                                             *)
ReleaseUnpinTwice(w) ==
  /\ pc[w] = "relDec"
  /\ inFlight' = [inFlight EXCEPT ![entry[w]] = @ - 2]
  /\ pc' = [pc EXCEPT ![w] = "ready"]
  /\ entry' = [entry EXCEPT ![w] = Nil]
  /\ stamp' = [stamp EXCEPT ![w] = 0]
  /\ UNCHANGED <<conns, lastUsed, clock, want, connVars, sweepVars, closeVars>>

(* ... and then drops the pin.                                             *)
ReleaseUnpin(w) ==
  /\ pc[w] = "relDec"
  /\ inFlight' = [inFlight EXCEPT ![entry[w]] = @ - 1]
  /\ pc' = [pc EXCEPT ![w] = "ready"]
  /\ entry' = [entry EXCEPT ![w] = Nil]
  /\ stamp' = [stamp EXCEPT ![w] = 0]
  /\ UNCHANGED <<conns, lastUsed, clock, want, connVars, sweepVars, closeVars>>

-----------------------------------------------------------------------------
(* The sweeper goroutine and sweepIdle.                                    *)

(* A tick: time.Now() is read before sweepIdle asks for the lock.          *)
SweepTick ==
  /\ sweepPc = "select"
  /\ sweepPc' = "lock"
  /\ sweepNow' = clock
  /\ UNCHANGED <<conns, lastUsed, inFlight, clock, sweepTodo, sweepAt,
                 connVars, workerVars, closeVars>>

(* The stop channel is closed. A tick that is due as well may win first.   *)
SweepExit ==
  /\ sweepPc = "select" /\ stopped
  /\ sweepPc' = "exited"
  /\ UNCHANGED <<conns, lastUsed, inFlight, clock, sweepNow, sweepTodo,
                 sweepAt, connVars, workerVars, closeVars>>

SweepLock ==
  /\ sweepPc = "lock" /\ CanLock
  /\ sweepPc' = "scan"
  /\ sweepTodo' = {b \in Backends : conns[b] # Nil}
  /\ UNCHANGED <<conns, lastUsed, inFlight, clock, sweepNow, sweepAt,
                 connVars, workerVars, closeVars>>

(* Mutants: the count is not looked at; the comparison is >= 0.            *)
SweepInFlightIgnored(b) ==
  /\ sweepPc = "scan" /\ b \in sweepTodo
  /\ sweepTodo' = sweepTodo \ {b}
  /\ sweepPc' = "stamp" /\ sweepAt' = b
  /\ UNCHANGED <<conns, lastUsed, inFlight, clock, sweepNow, connVars,
                 workerVars, closeVars>>

SweepInFlightZero(b) ==
  /\ sweepPc = "scan" /\ b \in sweepTodo
  /\ sweepTodo' = sweepTodo \ {b}
  /\ IF inFlight[conns[b]] >= 0
     THEN UNCHANGED <<sweepPc, sweepAt>>
     ELSE sweepPc' = "stamp" /\ sweepAt' = b
  /\ UNCHANGED <<conns, lastUsed, inFlight, clock, sweepNow, connVars,
                 workerVars, closeVars>>

(* First test of the loop body: inFlight.Load() > 0 means continue.        *)
SweepInFlight(b) ==
  /\ sweepPc = "scan" /\ b \in sweepTodo
  /\ sweepTodo' = sweepTodo \ {b}
  /\ IF inFlight[conns[b]] > 0
     THEN UNCHANGED <<sweepPc, sweepAt>>
     ELSE sweepPc' = "stamp" /\ sweepAt' = b
  /\ UNCHANGED <<conns, lastUsed, inFlight, clock, sweepNow, connVars,
                 workerVars, closeVars>>

(* continue: back to the loop with no entry under examination.             *)
SweepContinue == sweepPc' = "scan" /\ sweepAt' = Nil

(* Second test: used less than IdleTimeout before now means continue.      *)
SweepLastUsed ==
  /\ sweepPc = "stamp"
  /\ IF sweepNow - lastUsed[conns[sweepAt]] < IdleTimeout
     THEN SweepContinue
     ELSE sweepPc' = "state" /\ UNCHANGED sweepAt
  /\ UNCHANGED <<conns, lastUsed, inFlight, clock, sweepNow, sweepTodo,
                 connVars, workerVars, closeVars>>

(* Third test: a connection gRPC does not report Idle means continue.      *)
SweepState ==
  /\ sweepPc = "state"
  /\ IF conns[sweepAt] \notin idle
     THEN SweepContinue
     ELSE sweepPc' = "evict" /\ UNCHANGED sweepAt
  /\ UNCHANGED <<conns, lastUsed, inFlight, clock, sweepNow, sweepTodo,
                 connVars, workerVars, closeVars>>

(* conn.Close() and delete(c.conns, backend).                              *)
SweepEvict ==
  /\ sweepPc = "evict"
  /\ closed' = closed \cup {conns[sweepAt]}
  /\ evicted' = evicted \cup {conns[sweepAt]}
  /\ conns' = [conns EXCEPT ![sweepAt] = Nil]
  /\ SweepContinue
  /\ UNCHANGED <<lastUsed, inFlight, clock, dialed, idle, sweepNow, sweepTodo,
                 workerVars, closeVars>>

SweepUnlock ==
  /\ sweepPc = "scan" /\ sweepTodo = {}
  /\ sweepPc' = "select" /\ sweepAt' = Nil /\ sweepNow' = 0
  /\ UNCHANGED <<conns, lastUsed, inFlight, clock, sweepTodo, connVars,
                 workerVars, closeVars>>

-----------------------------------------------------------------------------
(* Remove and Close. Neither looks at inFlight.                            *)

Remove(b) ==
  /\ CanLock /\ conns[b] # Nil
  /\ closed' = closed \cup {conns[b]}
  /\ conns' = [conns EXCEPT ![b] = Nil]
  /\ UNCHANGED <<lastUsed, inFlight, clock, dialed, evicted, idle, workerVars,
                 sweepVars, closeVars>>

(* Close first ends the sweeper, once, outside the lock ...                *)
CloseStop ==
  /\ ~closing
  /\ closing' = TRUE /\ stopped' = TRUE
  /\ UNCHANGED <<conns, lastUsed, inFlight, clock, connVars, workerVars,
                 sweepVars>>

(* Mutant: the map is replaced and nothing is closed.                      *)
CloseConnsKept ==
  /\ closing /\ CanLock
  /\ conns' = [b \in Backends |-> Nil]
  /\ closing' = FALSE
  /\ UNCHANGED <<lastUsed, inFlight, clock, dialed, closed, evicted, idle,
                 stopped, workerVars, sweepVars>>

(* ... then closes every cached connection and starts an empty map.        *)
CloseConns ==
  /\ closing /\ CanLock
  /\ closed' = closed \cup ({conns[b] : b \in Backends} \ {Nil})
  /\ conns' = [b \in Backends |-> Nil]
  /\ closing' = FALSE
  /\ UNCHANGED <<lastUsed, inFlight, clock, dialed, evicted, idle, stopped,
                 workerVars, sweepVars>>

-----------------------------------------------------------------------------
(* gRPC and time.                                                          *)

(* A stream makes gRPC connect, and the idle timer or a GOAWAY from the    *)
(* backend makes it report Idle again, the latter with streams running.    *)
ConnState(c) ==
  /\ c \in dialed \ closed
  /\ idle' = IF c \in idle THEN idle \ {c} ELSE idle \cup {c}
  /\ UNCHANGED <<conns, lastUsed, inFlight, clock, dialed, closed, evicted,
                 workerVars, sweepVars, closeVars>>

(* Time passes, but no further than MaxPause past a pending clock reading. *)
Tick ==
  /\ clock < MaxTime
  /\ \A w \in Workers : pc[w] \in Timed => clock - stamp[w] < MaxPause
  /\ clock' = clock + 1
  /\ UNCHANGED <<conns, lastUsed, inFlight, connVars, workerVars, sweepVars,
                 closeVars>>

-----------------------------------------------------------------------------
WorkerStep(w) ==
  \/ \E b \in Backends : FastHit(w, b) \/ FastMiss(w, b)
  \/ SlowHit(w)
  \/ StoreStamp(w)
  \/ \E c \in Conns : SlowDial(w, c)
  \/ SlowDialFails(w)
  \/ Pin(w)
  \/ ReleaseNow(w)
  \/ ReleaseStamp(w)
  \/ ReleaseUnpin(w)

SweepStep ==
  \/ SweepTick
  \/ SweepExit
  \/ SweepLock
  \/ \E b \in Backends : SweepInFlight(b)
  \/ SweepLastUsed
  \/ SweepState
  \/ SweepEvict
  \/ SweepUnlock

Next ==
  \/ \E w \in Workers : WorkerStep(w)
  \/ SweepStep
  \/ \E b \in Backends : Remove(b)
  \/ CloseStop
  \/ CloseConns
  \/ \E c \in Conns : ConnState(c)
  \/ Tick

Spec == Init /\ [][Next]_vars

-----------------------------------------------------------------------------
(* Fairness. Goroutines that can run do run; Go's RWMutex keeps new        *)
(* readers out while a writer waits, so the lock is free again and again   *)
(* and each waiting writer gets it in the end; and a select with two       *)
(* ready cases chooses at random, so the stop channel cannot lose forever. *)
(* Nothing obliges an RPC to end, a caller to come back, gRPC to report    *)
(* Idle or anybody to call Close.                                          *)

Fairness ==
  /\ []<>CanLock
  /\ \A w \in Workers : WF_vars(StoreStamp(w))
  /\ WF_vars(SweepTick) /\ SF_vars(SweepExit)
  /\ SF_vars(SweepLock) /\ SF_vars(CloseConns)
  /\ WF_vars(\E b \in Backends : SweepInFlight(b))
  /\ WF_vars(SweepLastUsed \/ SweepState \/ SweepEvict \/ SweepUnlock)

FairSpec == Spec /\ Fairness

-----------------------------------------------------------------------------
(* Properties.                                                             *)

(* Every variable holds a value of its type; the counter of streams may    *)
(* not go below zero.                                                      *)
TypeOK ==
  /\ conns \in [Backends -> Conns \cup {Nil}]
  /\ lastUsed \in [Conns -> Nat]
  /\ inFlight \in [Conns -> Nat]
  /\ dialed \subseteq Conns /\ closed \subseteq Conns
  /\ evicted \subseteq Conns /\ idle \subseteq Conns
  /\ clock \in Nat
  /\ pc \in [Workers -> {"ready", "slow"} \cup Timed \cup Pinning]
  /\ want \in [Workers -> Backends \cup {Nil}]
  /\ entry \in [Workers -> Conns \cup {Nil}]
  /\ stamp \in [Workers -> Nat]
  /\ sweepPc \in {"select", "lock", "exited"} \cup Sweeping
  /\ sweepNow \in Nat
  /\ sweepTodo \subseteq Backends
  /\ sweepAt \in Backends \cup {Nil}
  /\ stopped \in BOOLEAN /\ closing \in BOOLEAN

(* Idle eviction never closes a connection that acquire has handed out and *)
(* release has not taken back, so it cancels no stream being forwarded --  *)
(* the promise of acquire's and BackendIdleTimeout's comments. It spans    *)
(* the moments before the count is raised, when only the timestamp         *)
(* protects the connection.                                                *)
HandedOutNotEvicted ==
  \A w \in Workers : pc[w] \in HandedOut => entry[w] \notin evicted

(* Double-checked dialing and the three ways out of the map agree on who   *)
(* owns a connection: the open connections are exactly the mapped ones,    *)
(* and no two backends share one. A dial that lost a race, or an entry     *)
(* dropped without a Close, would be a connection nobody can ever close.   *)
MapOwnsOpenConns ==
  /\ dialed \ closed = {conns[b] : b \in Backends} \ {Nil}
  /\ \A a, b \in Backends : conns[a] = conns[b] /\ conns[a] # Nil => a = b

(* The timestamp of a connection just handed out, or just released and not *)
(* yet unpinned, lags the clock reading that the goroutine took for it by  *)
(* at most MaxPause, whatever older readings other goroutines store over   *)
(* it.                                                                     *)
StampLagBounded ==
  \A w \in Workers : pc[w] \in {"got", "relDec"} =>
                       lastUsed[entry[w]] + MaxPause >= stamp[w]

(* The counter that eviction trusts is exact: one per goroutine between    *)
(* its increment and its decrement, for evicted, removed and live          *)
(* connections alike.                                                      *)
InFlightExact == \A c \in Conns : inFlight[c] = Cardinality(Holders(c))

(* acquire's comment: "a sweep landing before this increment still sees a  *)
(* connection used less than idleTimeout ago".                             *)
FreshUntilPinned ==
  IdleTimeout > 0 =>
    \A w \in Workers : pc[w] = "got" => clock - lastUsed[entry[w]] < IdleTimeout

(* What sweepIdle is meant to evict.                                       *)
Evictable(c) ==
  /\ \E b \in Backends : conns[b] = c
  /\ inFlight[c] = 0 /\ c \in idle
  /\ clock - lastUsed[c] >= IdleTimeout /\ IdleTimeout > 0
  /\ ~stopped

(* server.go:85: a grpc.WithIdleTimeout of 0 among the user's dial options *)
(* disables eviction. It does away with the idle timer, and ConnState then *)
(* stands for what is left: a new ClientConn is Idle, connects for its     *)
(* first stream, and is Idle again after a GOAWAY or a lost transport.     *)
NothingEvicted == evicted = {}

(* No connection stays evictable forever: the sweeper closes it, unless it *)
(* is used again, gRPC leaves Idle, or Close ends the sweeper.             *)
IdleConnsGo == \A c \in Conns : Evictable(c) ~> ~Evictable(c)

(* Close ends the sweeper even if ticks keep coming, and closes every      *)
(* connection that was open when it was called.                            *)
CloseFinishes ==
  /\ stopped ~> sweepPc = "exited"
  /\ \A c \in Conns : (closing /\ c \in dialed) ~> c \in closed
=============================================================================

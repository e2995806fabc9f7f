------------------------ MODULE ServerLifecycleProofs ------------------------
(***************************************************************************)
(* PoolClosedForGood and NoRPCCutOff for any number of handlers, callers   *)
(* of Start and Stop, backends and connections.                            *)
(*                                                                         *)
(* Two facts meet in the invariant.  Of the pool: what a handler holds is  *)
(* still mapped, so that neither the sweeper nor Stop has closed it.  Of   *)
(* the server: once GracefulStop has returned, no handler is running, and  *)
(* none can begin as no client connection is left.                         *)
(***************************************************************************)
EXTENDS ServerLifecycle, TLAPS

USE DEF poolVars, grpcVars, rpcVars, startVars, stopVars

TypeOK ==
  /\ start \in [Starters -> {"idle", "listening", "serving", "broken",
                             "failed", "returned"}]
  /\ stop \in {"open", "entered", "graceful", "drained", "done"}
  /\ quit \in BOOLEAN /\ forced \in BOOLEAN
  /\ connsGone \in BOOLEAN /\ served \in BOOLEAN
  /\ rpc \in [Handlers -> {"none", "running", "forwarding", "returning",
                           "ended"}]
  /\ conns \in [Backends -> Conns \cup {Nil}]
  /\ closed \subseteq dialed /\ dialed \subseteq Conns
  /\ holds \in [Handlers -> Conns \cup {Nil}]

Mapped == {conns[b] : b \in Backends} \ {Nil}

PoolInv ==
  /\ dialed = closed \cup Mapped
  /\ \A b \in Backends : conns[b] \notin closed
  /\ \A a, b \in Backends : conns[a] = conns[b] => a = b \/ conns[a] = Nil
  /\ \A h \in Handlers : holds[h] = Nil \/ holds[h] \in Mapped

HandlerInv == \A h \in Handlers : holds[h] # Nil => rpc[h] = "forwarding"

StopInv ==
  /\ stop \in {"drained", "done"} => connsGone /\ Idle
  /\ stop = "done" => \A b \in Backends : conns[b] = Nil
  /\ served /\ ~forced => stop \in {"drained", "done"}
  /\ \A s \in Starters : start[s] = "returned" => served

LifecycleInv == TypeOK /\ PoolInv /\ HandlerInv /\ StopInv

(* What is mapped is not closed, and what is held is mapped.               *)
LEMMA InvImpliesProperties ==
  LifecycleInv => PoolClosedForGood /\ NoRPCCutOff
<1>1. SUFFICES ASSUME LifecycleInv PROVE PoolClosedForGood /\ NoRPCCutOff
  OBVIOUS
<1> USE LifecycleAssumption
<1>2. \A h \in Handlers : holds[h] \notin closed
  BY <1>1 DEF LifecycleInv, TypeOK, PoolInv, Mapped
<1>3. stop = "done" => dialed = closed /\ \A h \in Handlers : holds[h] = Nil
  BY <1>1 DEF LifecycleInv, TypeOK, PoolInv, Mapped, StopInv
<1>4. NoRPCCutOff
  BY <1>1 DEF LifecycleInv, StopInv, NoRPCCutOff
<1> QED BY <1>2, <1>3, <1>4 DEF PoolClosedForGood

LEMMA InitInv == Init => LifecycleInv
<1>1. SUFFICES ASSUME Init PROVE LifecycleInv
  OBVIOUS
<1> USE LifecycleAssumption
<1>2. TypeOK
  BY <1>1 DEF Init, Pool!Init, TypeOK
<1>3. PoolInv
  BY <1>1 DEF Init, Pool!Init, PoolInv, Mapped
<1>4. HandlerInv /\ StopInv
  BY <1>1 DEF Init, Pool!Init, HandlerInv, StopInv, Idle
<1> QED BY <1>2, <1>3, <1>4 DEF LifecycleInv

-----------------------------------------------------------------------------
(* The steps of the pool itself.                                           *)

LEMMA HoldInv ==
  ASSUME TypeOK, PoolInv, NEW h \in Handlers, NEW b \in Backends, Pool!Hold(h, b)
  PROVE  /\ PoolInv' /\ conns' \in [Backends -> Conns \cup {Nil}]
         /\ closed' \subseteq dialed' /\ dialed' \subseteq Conns
         /\ holds' \in [Handlers -> Conns \cup {Nil}]
         /\ \A g \in Handlers : g # h => holds'[g] = holds[g]
BY LifecycleAssumption DEF TypeOK, PoolInv, Mapped, Pool!Hold

LEMMA HoldNewInv ==
  ASSUME TypeOK, PoolInv, NEW h \in Handlers, NEW b \in Backends,
         NEW c \in Conns, Pool!HoldNew(h, b, c)
  PROVE  /\ PoolInv' /\ conns' \in [Backends -> Conns \cup {Nil}]
         /\ closed' \subseteq dialed' /\ dialed' \subseteq Conns
         /\ holds' \in [Handlers -> Conns \cup {Nil}]
         /\ \A g \in Handlers : g # h => holds'[g] = holds[g]
<1> USE LifecycleAssumption DEF TypeOK, Pool!HoldNew, Pool!Connect
<1>1. /\ conns' = [conns EXCEPT ![b] = c] /\ dialed' = dialed \cup {c}
      /\ closed' = closed /\ holds' = [holds EXCEPT ![h] = c]
      /\ c \notin dialed /\ conns[b] = Nil /\ c # Nil
  OBVIOUS
<1>2. Mapped' = Mapped \cup {c}
  BY <1>1 DEF Mapped
<1>3. PoolInv'
  <2>1. dialed' = closed' \cup Mapped'
    BY <1>1, <1>2 DEF PoolInv
  <2>2. \A a \in Backends : conns'[a] \notin closed'
    BY <1>1 DEF PoolInv
  <2>3. \A a, d \in Backends : conns'[a] = conns'[d] => a = d \/ conns'[a] = Nil
    <3>1. \A a \in Backends : conns[a] # c
      BY <1>1 DEF PoolInv, Mapped
    <3> QED BY <1>1, <3>1 DEF PoolInv
  <2>4. \A g \in Handlers : holds'[g] = Nil \/ holds'[g] \in Mapped'
    BY <1>1, <1>2 DEF PoolInv
  <2> QED BY <2>1, <2>2, <2>3, <2>4 DEF PoolInv
<1> QED BY <1>1, <1>3

LEMMA EvictInv ==
  ASSUME TypeOK, PoolInv, NEW b \in Backends, Pool!Evict(b)
  PROVE  /\ PoolInv' /\ conns' \in [Backends -> Conns \cup {Nil}]
         /\ closed' \subseteq dialed' /\ dialed' \subseteq Conns
         /\ holds' = holds
         /\ \A a \in Backends : conns[a] = Nil => conns'[a] = Nil
<1> USE LifecycleAssumption DEF TypeOK, Pool!Evict, Pool!Drop
<1>1. /\ conns' = [conns EXCEPT ![b] = Nil] /\ dialed' = dialed
      /\ closed' = closed \cup {conns[b]} /\ holds' = holds
      /\ conns[b] # Nil /\ \A h \in Handlers : holds[h] # conns[b]
  OBVIOUS
<1>2. Mapped' = Mapped \ {conns[b]}
  BY <1>1 DEF Mapped, PoolInv
<1>3. conns[b] \in Mapped
  BY <1>1 DEF Mapped
<1>4. PoolInv'
  <2>1. dialed' = closed' \cup Mapped'
    BY <1>1, <1>2, <1>3 DEF PoolInv
  <2>2. \A a \in Backends : conns'[a] \notin closed'
    BY <1>1 DEF PoolInv
  <2>3. \A a, d \in Backends : conns'[a] = conns'[d] => a = d \/ conns'[a] = Nil
    BY <1>1 DEF PoolInv
  <2>4. \A g \in Handlers : holds'[g] = Nil \/ holds'[g] \in Mapped'
    BY <1>1, <1>2 DEF PoolInv
  <2> QED BY <2>1, <2>2, <2>3, <2>4 DEF PoolInv
<1> QED BY <1>1, <1>3, <1>4 DEF PoolInv

-----------------------------------------------------------------------------
(* The steps that leave the pool alone.                                    *)

LEMMA PoolUnchanged ==
  ASSUME PoolInv, UNCHANGED poolVars
  PROVE  PoolInv'
BY DEF PoolInv, Mapped

(* Start, the watchers, the signals and the callers of Stop.               *)
LEMMA StartInv ==
  ASSUME LifecycleInv,
         \/ \E s \in Starters : StartStep(s)
         \/ \E u \in Users : UserStops(u)
         \/ \E c \in Callers : ReturnFromStop(c)
         \/ FirstSignal \/ SecondSignal
  PROVE  LifecycleInv'
<1> USE DEF LifecycleInv
<1>1. CASE \E s \in Starters : StartStep(s)
  <2>1. PICK s \in Starters : StartStep(s)
    BY <1>1
  <2>2. UNCHANGED <<grpcVars, rpcVars, poolVars>>
    BY <2>1 DEF StartStep, Listen, Serve, ServeReturns, ServeFails,
                WatcherStops, WatcherEnds
  <2>3. stop' = stop \/ (stop = "open" /\ stop' = "entered")
    BY <2>1 DEF StartStep, Listen, Serve, ServeReturns, ServeFails,
                WatcherStops, WatcherEnds, EnterStop, TypeOK
  <2>4. TypeOK'
    BY <2>1, <2>2, <2>3 DEF TypeOK, StartStep, Listen, Serve, ServeReturns,
                            ServeFails, WatcherStops, WatcherEnds
  <2>5. \A q \in Starters : start'[q] = "returned" => served'
    BY <2>1, <2>2 DEF TypeOK, StopInv, StartStep, Listen, Serve, ServeReturns,
                      ServeFails, WatcherStops, WatcherEnds
  <2>6. StopInv'
    BY <2>2, <2>3, <2>5 DEF StopInv, Idle, TypeOK
  <2> QED
    BY <2>2, <2>4, <2>6, PoolUnchanged DEF HandlerInv
<1>2. CASE \E u \in Users : UserStops(u)
  <2>1. stop' = stop \/ (stop = "open" /\ stop' = "entered")
    BY <1>2 DEF UserStops, EnterStop
  <2>2. UNCHANGED <<startVars, grpcVars, rpcVars, poolVars>>
    BY <1>2 DEF UserStops
  <2> QED
    BY <2>1, <2>2, PoolUnchanged DEF TypeOK, HandlerInv, StopInv, Idle
<1>3. CASE \E c \in Callers : ReturnFromStop(c)
  <2>1. UNCHANGED <<start, stop, grpcVars, rpcVars, poolVars>>
    BY <1>3 DEF ReturnFromStop
  <2> QED
    BY <2>1, PoolUnchanged DEF TypeOK, HandlerInv, StopInv, Idle
<1>4. CASE FirstSignal \/ SecondSignal
  <2>1. UNCHANGED <<start, stop, connsGone, served, rpc, poolVars>>
    BY <1>4 DEF FirstSignal, SecondSignal
  <2>2. /\ quit' \in BOOLEAN /\ forced' \in BOOLEAN
        /\ forced => forced'
    BY <1>4 DEF FirstSignal, SecondSignal, TypeOK
  <2> QED
    BY <2>1, <2>2, PoolUnchanged DEF TypeOK, HandlerInv, StopInv, Idle
<1> QED
  BY <1>1, <1>2, <1>3, <1>4

(* The body of Stop and gRPC's own goroutines.                             *)
LEMMA BodyInv ==
  ASSUME LifecycleInv,
         CallGracefulStop \/ GracefulStopReturns \/ ConnsGone \/ ForcedStopReturns
  PROVE  LifecycleInv'
<1>1. UNCHANGED <<start, forced, rpc, poolVars>>
  BY DEF CallGracefulStop, GracefulStopReturns, ConnsGone, ForcedStopReturns
<1>2. TypeOK'
  BY <1>1 DEF LifecycleInv, TypeOK, CallGracefulStop, GracefulStopReturns,
              ConnsGone, ForcedStopReturns
<1>3. StopInv'
  BY <1>1 DEF LifecycleInv, TypeOK, StopInv, Idle, CallGracefulStop,
              GracefulStopReturns, ConnsGone, ForcedStopReturns
<1> QED
  BY <1>1, <1>2, <1>3, PoolUnchanged DEF LifecycleInv, HandlerInv

(* Stop closes what is mapped, and nobody holds any of it.                 *)
LEMMA ClosePoolInv ==
  ASSUME LifecycleInv, ClosePool
  PROVE  LifecycleInv'
<1> USE LifecycleAssumption DEF LifecycleInv
<1>1. /\ stop = "drained" /\ stop' = "done"
      /\ closed' = closed \cup Mapped /\ conns' = [b \in Backends |-> Nil]
      /\ UNCHANGED <<start, quit, forced, connsGone, served, rpc, dialed, holds>>
  BY DEF ClosePool, Pool!Close, Mapped
<1>2. Idle /\ connsGone
  BY <1>1 DEF StopInv
<1>3. \A h \in Handlers : holds[h] = Nil
  BY <1>2 DEF HandlerInv, Idle
<1>4. Mapped' = {}
  BY <1>1 DEF Mapped
<1>5. PoolInv'
  BY <1>1, <1>3, <1>4 DEF PoolInv, TypeOK
<1>6. TypeOK'
  BY <1>1 DEF TypeOK, PoolInv
<1>7. HandlerInv' /\ StopInv'
  BY <1>1, <1>2 DEF HandlerInv, StopInv, Idle
<1> QED
  BY <1>5, <1>6, <1>7

-----------------------------------------------------------------------------
(* The handlers: while one of them does anything, Stop is not past         *)
(* GracefulStop.                                                           *)
LEMMA HandlersInv ==
  ASSUME LifecycleInv, NEW h \in Handlers, HandlerStep(h)
  PROVE  LifecycleInv'
<1> USE LifecycleAssumption DEF LifecycleInv
<1>1. CASE NewRPC(h) \/ HandlerReturns(h)
  <2>1. /\ UNCHANGED <<start, stop, grpcVars, poolVars>>
        /\ \/ ~connsGone /\ rpc[h] = "none" /\ rpc' = [rpc EXCEPT ![h] = "running"]
           \/ /\ rpc[h] \in {"running", "returning"}
              /\ rpc' = [rpc EXCEPT ![h] = "ended"]
    BY <1>1 DEF NewRPC, HandlerReturns
  <2>2. TypeOK' /\ HandlerInv'
    BY <2>1 DEF TypeOK, HandlerInv
  <2>3. StopInv'
    BY <2>1 DEF TypeOK, StopInv, Idle
  <2> QED
    BY <2>1, <2>2, <2>3, PoolUnchanged
<1>2. CASE ClientLeaves(h)
  <2>1. UNCHANGED <<start, stop, grpcVars, rpc, poolVars>>
    BY <1>2 DEF ClientLeaves
  <2> QED
    BY <2>1, PoolUnchanged DEF TypeOK, HandlerInv, StopInv, Idle
<1>3. CASE HandlerStops(h)
  <2>1. /\ UNCHANGED <<start, grpcVars, rpcVars, poolVars>>
        /\ stop' = stop \/ (stop = "open" /\ stop' = "entered")
    BY <1>3 DEF HandlerStops, EnterStop
  <2> QED
    BY <2>1, PoolUnchanged DEF TypeOK, HandlerInv, StopInv, Idle
<1>4. CASE Acquire(h)
  <2>1. /\ rpc[h] = "running" /\ rpc' = [rpc EXCEPT ![h] = "forwarding"]
        /\ UNCHANGED <<start, stop, grpcVars>>
        /\ \E b \in Backends :
             Pool!Hold(h, b) \/ \E c \in Conns : Pool!HoldNew(h, b, c)
    BY <1>4 DEF Acquire
  <2>2. /\ PoolInv' /\ conns' \in [Backends -> Conns \cup {Nil}]
        /\ closed' \subseteq dialed' /\ dialed' \subseteq Conns
        /\ holds' \in [Handlers -> Conns \cup {Nil}]
        /\ \A g \in Handlers : g # h => holds'[g] = holds[g]
    BY <2>1, HoldInv, HoldNewInv
  <2>3. stop \notin {"drained", "done"}
    BY <2>1 DEF StopInv, Idle
  <2>4. TypeOK' /\ HandlerInv'
    BY <2>1, <2>2 DEF TypeOK, HandlerInv
  <2>5. StopInv'
    BY <2>1, <2>3 DEF StopInv
  <2> QED
    BY <2>2, <2>4, <2>5
<1>5. CASE Release(h)
  <2>1. /\ rpc[h] = "forwarding" /\ rpc' = [rpc EXCEPT ![h] = "returning"]
        /\ holds' = [holds EXCEPT ![h] = Nil]
        /\ UNCHANGED <<start, stop, grpcVars, conns, dialed, closed>>
    BY <1>5 DEF Release, Pool!GiveBack
  <2>2. stop \notin {"drained", "done"}
    BY <2>1 DEF StopInv, Idle
  <2>3. TypeOK' /\ HandlerInv'
    BY <2>1 DEF TypeOK, HandlerInv
  <2>4. PoolInv'
    BY <2>1 DEF TypeOK, PoolInv, Mapped
  <2>5. StopInv'
    BY <2>1, <2>2 DEF StopInv
  <2> QED
    BY <2>3, <2>4, <2>5
<1> QED
  BY <1>1, <1>2, <1>3, <1>4, <1>5 DEF HandlerStep

LEMMA SweepInv ==
  ASSUME LifecycleInv, NEW b \in Backends, Evict(b)
  PROVE  LifecycleInv'
<1> USE DEF LifecycleInv
<1>1. /\ Pool!Evict(b) /\ UNCHANGED <<start, stop, grpcVars, rpc>>
  BY DEF Evict
<1>2. /\ PoolInv' /\ conns' \in [Backends -> Conns \cup {Nil}]
      /\ closed' \subseteq dialed' /\ dialed' \subseteq Conns
      /\ holds' = holds
      /\ \A a \in Backends : conns[a] = Nil => conns'[a] = Nil
  BY <1>1, EvictInv
<1>3. TypeOK' /\ HandlerInv'
  BY <1>1, <1>2 DEF TypeOK, HandlerInv
<1>4. StopInv'
  BY <1>1, <1>2 DEF StopInv, Idle
<1> QED
  BY <1>2, <1>3, <1>4

LEMMA NextInv == LifecycleInv /\ [Next]_vars => LifecycleInv'
<1>1. SUFFICES ASSUME LifecycleInv, [Next]_vars PROVE LifecycleInv'
  OBVIOUS
<1>2. CASE Next
  BY <1>1, <1>2, StartInv, BodyInv, ClosePoolInv, HandlersInv, SweepInv DEF Next
<1>3. CASE UNCHANGED vars
  BY <1>1, <1>3, PoolUnchanged
  DEF vars, LifecycleInv, TypeOK, HandlerInv, StopInv, Idle
<1> QED
  BY <1>1, <1>2, <1>3

-----------------------------------------------------------------------------
(* Neither Stop nor the sweeper closes a connection under a handler, and   *)
(* after Stop the pool is closed for good.                                 *)
THEOREM PoolClosed == Spec => []PoolClosedForGood
<1>1. Spec => []LifecycleInv
  BY InitInv, NextInv, PTL DEF Spec
<1>2. LifecycleInv => PoolClosedForGood
  BY InvImpliesProperties
<1> QED
  BY <1>1, <1>2, PTL

(* Start returns with an RPC still running only after gRPC's own Stop.     *)
THEOREM RPCsFinish == Spec => []NoRPCCutOff
<1>1. Spec => []LifecycleInv
  BY InitInv, NextInv, PTL DEF Spec
<1>2. LifecycleInv => NoRPCCutOff
  BY InvImpliesProperties
<1> QED
  BY <1>1, <1>2, PTL
=============================================================================

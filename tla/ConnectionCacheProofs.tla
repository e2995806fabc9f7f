------------------------ MODULE ConnectionCacheProofs ------------------------
(***************************************************************************)
(* Theorems about ConnectionCache for every number of backends,            *)
(* connections and goroutines, every idle timeout and every pause.  The    *)
(* last part shows that it implements BackendPool.                         *)
(***************************************************************************)
EXTENDS ConnectionCacheRefinement, FiniteSetTheorems, TLAPS

(* The two program counters at which a goroutine holds the mutex.          *)
Storing == {"fastStore", "slowStore"}
(* The sweeper has read a count of zero for the entry under examination.   *)
Examining == {"stamp", "state", "evict"}

(* Closing follows dialing, evicting is closing.                           *)
ClosedInv == closed \subseteq dialed /\ evicted \subseteq closed

(* Workers hold dialed connections, and an open one inside the mutex.      *)
WorkerInv ==
  \A w \in Workers :
    /\ pc[w] \in Storing \cup HandedOut => entry[w] \in dialed
    /\ pc[w] \in Storing => entry[w] \notin closed
    /\ pc[w] = "slow" => want[w] \in Backends

(* The sweeper shares the mutex with nobody.                               *)
LockInv == sweepPc \in Sweeping => \A w \in Workers : pc[w] \notin Storing

(* The sweeper exists only if eviction is on, and walks over entries that  *)
(* are in the map and that it has not visited yet.                         *)
SweeperInv ==
  /\ IdleTimeout = 0 => sweepPc = "exited"
  /\ sweepNow <= clock
  /\ sweepPc \in Sweeping => \A b \in sweepTodo : conns[b] # Nil
  /\ sweepPc \in Examining => /\ sweepAt \in Backends \ sweepTodo
                              /\ conns[sweepAt] # Nil

(* Clock readings in use are not in the future and at most MaxPause old.   *)
StampInv ==
  \A w \in Workers :
    /\ pc[w] \in Timed => clock - stamp[w] <= MaxPause
    /\ pc[w] \in Timed \cup {"relDec"} => stamp[w] <= clock

(* While the sweeper examines c, whoever has been handed c out keeps its   *)
(* timestamp recent, and stores nothing older than the sweep over it.      *)
ExamineInv ==
  sweepPc \in Examining =>
    \A w \in Workers : entry[w] = conns[sweepAt] =>
      /\ pc[w] \in HandedOut =>
           lastUsed[conns[sweepAt]] + 2 * MaxPause >= sweepNow
      /\ pc[w] = "relStore" => stamp[w] >= sweepNow

(* Goroutines are not delayed by half an idle timeout or more between a    *)
(* clock reading and the write that depends on it.                         *)
PauseAssumption == IdleTimeout > 0 => 2 * MaxPause < IdleTimeout

(* Nobody has been handed out a connection that is past the timestamp      *)
(* test, nor one that has been evicted.                                    *)
EvictInv ==
  PauseAssumption =>
    /\ sweepPc \in {"state", "evict"} =>
         \A w \in Workers : pc[w] \in HandedOut => entry[w] # conns[sweepAt]
    /\ HandedOutNotEvicted

Inv ==
  /\ TypeOK /\ InFlightExact /\ MapOwnsOpenConns /\ ClosedInv /\ WorkerInv
  /\ LockInv /\ SweeperInv /\ StampInv /\ StampLagBounded /\ ExamineInv
  /\ EvictInv

-----------------------------------------------------------------------------
(* Sets of program counters and tuples of variables are always expanded.   *)
USE DEF Storing, HandedOut, Pinning, Timed, Sweeping, Examining, workerVars,
        sweepVars, connVars, closeVars

-----------------------------------------------------------------------------
(* The counter.                                                            *)

LEMMA HoldersFinite ==
  ASSUME NEW c
  PROVE  IsFiniteSet(Holders(c)) /\ Cardinality(Holders(c)) \in Nat
BY CacheAssumption, FS_Subset, FS_CardinalityType DEF Holders, CacheAssumption

(* A goroutine about to decrement finds its own unit in the counter.       *)
LEMMA PinCounted ==
  ASSUME TypeOK, InFlightExact, NEW w \in Workers, pc[w] \in Pinning,
         entry[w] \in Conns
  PROVE  inFlight[entry[w]] >= 1
<1>1. w \in Holders(entry[w])
  BY DEF Holders
<1>2. Cardinality(Holders(entry[w])) # 0
  BY <1>1, HoldersFinite, FS_EmptySet
<1> QED
  BY <1>2, HoldersFinite DEF InFlightExact, TypeOK

(* Only Pin and ReleaseUnpin change who holds a connection, each by one.   *)
LEMMA CountKept ==
  ASSUME TypeOK, WorkerInv, InFlightExact, Next
  PROVE  InFlightExact'
<1>1. ASSUME NEW w \in Workers, Pin(w)
      PROVE  InFlightExact'
  <2> SUFFICES ASSUME NEW c \in Conns
               PROVE  inFlight'[c] = Cardinality(Holders(c)')
    BY DEF InFlightExact
  <2>1. CASE c = entry[w]
    <3>1. Holders(c)' = Holders(c) \cup {w} /\ w \notin Holders(c)
      BY <1>1, <2>1 DEF Pin, Holders, TypeOK
    <3>2. Cardinality(Holders(c)') = Cardinality(Holders(c)) + 1
      BY <3>1, HoldersFinite, FS_AddElement
    <3> QED
      BY <1>1, <2>1, <3>2 DEF Pin, InFlightExact, TypeOK
  <2>2. CASE c # entry[w]
    <3>1. Holders(c)' = Holders(c)
      BY <1>1, <2>2 DEF Pin, Holders, TypeOK
    <3> QED
      BY <1>1, <2>2, <3>1 DEF Pin, InFlightExact, TypeOK
  <2> QED
    BY <2>1, <2>2
<1>2. ASSUME NEW w \in Workers, ReleaseUnpin(w)
      PROVE  InFlightExact'
  <2> SUFFICES ASSUME NEW c \in Conns
               PROVE  inFlight'[c] = Cardinality(Holders(c)')
    BY DEF InFlightExact
  <2>1. CASE c = entry[w]
    <3>1. Holders(c)' = Holders(c) \ {w} /\ w \in Holders(c)
      BY <1>2, <2>1 DEF ReleaseUnpin, Holders, TypeOK
    <3>2. Cardinality(Holders(c)') = Cardinality(Holders(c)) - 1
      BY <3>1, HoldersFinite, FS_RemoveElement
    <3> QED
      BY <1>2, <2>1, <3>2 DEF ReleaseUnpin, InFlightExact, TypeOK
  <2>2. CASE c # entry[w]
    <3>1. Holders(c)' = Holders(c)
      BY <1>2, <2>2 DEF ReleaseUnpin, Holders, TypeOK
    <3> QED
      BY <1>2, <2>2, <3>1 DEF ReleaseUnpin, InFlightExact, TypeOK
  <2> QED
    BY <2>1, <2>2
<1>3. ASSUME NEW w \in Workers, WorkerStep(w), ~Pin(w), ~ReleaseUnpin(w)
      PROVE  InFlightExact'
  <2>1. UNCHANGED inFlight
    BY <1>3 DEF WorkerStep, FastHit, FastMiss, SlowHit, StoreStamp, SlowDial,
                SlowDialFails, ReleaseNow, ReleaseStamp
  <2>2. \A c \in Conns : Holders(c)' = Holders(c)
    BY <1>3 DEF WorkerStep, FastHit, FastMiss, SlowHit, StoreStamp, SlowDial,
                SlowDialFails, ReleaseNow, ReleaseStamp, ReturnEntry, Holders,
                TypeOK
  <2> QED
    BY <2>1, <2>2 DEF InFlightExact
<1>4. CASE UNCHANGED <<inFlight, workerVars>>
  BY <1>4 DEF InFlightExact, Holders
<1> QED
  BY <1>1, <1>2, <1>3, <1>4
  DEF Next, SweepStep, SweepTick, SweepExit, SweepLock, SweepInFlight,
      SweepLastUsed, SweepState, SweepEvict, SweepUnlock, Remove, CloseStop,
      CloseConns, ConnState, Tick

-----------------------------------------------------------------------------
(* Types.                                                                  *)

LEMMA TypeKept ==
  ASSUME TypeOK, WorkerInv, SweeperInv, InFlightExact, Next
  PROVE  TypeOK'
<1>1. ASSUME NEW w \in Workers, WorkerStep(w)
      PROVE  TypeOK'
  <2>1. CASE ReleaseUnpin(w)
    <3>1. entry[w] \in Conns
      BY <2>1 DEF ReleaseUnpin, WorkerInv, TypeOK
    <3>2. inFlight[entry[w]] >= 1
      BY <2>1, <3>1, PinCounted DEF ReleaseUnpin
    <3> QED
      BY <2>1, <3>1, <3>2 DEF ReleaseUnpin, TypeOK
  <2>2. CASE ~ReleaseUnpin(w)
    BY <1>1, <2>2
    DEF WorkerStep, FastHit, FastMiss, SlowHit, StoreStamp, SlowDial,
        SlowDialFails, Pin, ReleaseNow, ReleaseStamp, ReturnEntry, WorkerInv,
        TypeOK
  <2> QED
    BY <2>1, <2>2
<1>2. ASSUME NEW b \in Backends, Remove(b)
      PROVE  TypeOK'
  BY <1>2 DEF Remove, TypeOK
<1>3. CASE SweepStep
  BY <1>3 DEF SweepStep, SweepTick, SweepExit, SweepLock, SweepInFlight,
              SweepLastUsed, SweepState, SweepEvict, SweepUnlock,
              SweepContinue, SweeperInv, TypeOK
<1>4. ASSUME NEW c \in Conns, ConnState(c)
      PROVE  TypeOK'
  BY <1>4 DEF ConnState, TypeOK
<1>5. CASE CloseStop
  BY <1>5 DEF CloseStop, TypeOK
<1>6. CASE CloseConns
  <2>1. {conns[b] : b \in Backends} \ {Nil} \subseteq Conns
    BY DEF TypeOK
  <2> QED
    BY <1>6, <2>1 DEF CloseConns, TypeOK
<1>7. CASE Tick
  BY <1>7 DEF Tick, TypeOK
<1> QED
  BY <1>1, <1>2, <1>3, <1>4, <1>5, <1>6, <1>7 DEF Next

-----------------------------------------------------------------------------
(* The map.                                                                *)

LEMMA MapKept ==
  ASSUME TypeOK, MapOwnsOpenConns, ClosedInv, WorkerInv, SweeperInv, Next
  PROVE  MapOwnsOpenConns' /\ ClosedInv'
<1>1. ASSUME NEW w \in Workers, NEW c \in Conns, SlowDial(w, c)
      PROVE  MapOwnsOpenConns' /\ ClosedInv'
  <2>1. conns[want[w]] = Nil /\ want[w] \in Backends /\ c \notin dialed
    BY <1>1 DEF SlowDial, WorkerInv
  <2>2. {conns'[b] : b \in Backends} \ {Nil} =
          ({conns[b] : b \in Backends} \ {Nil}) \cup {c}
    BY <1>1, <2>1, CacheAssumption DEF SlowDial, TypeOK, CacheAssumption
  <2>3. \A b \in Backends : conns[b] # c
    BY <2>1, CacheAssumption DEF MapOwnsOpenConns, CacheAssumption
  <2> QED
    BY <1>1, <2>1, <2>2, <2>3
    DEF SlowDial, MapOwnsOpenConns, ClosedInv, TypeOK
<1>2. ASSUME NEW b \in Backends, conns[b] # Nil,
             closed' = closed \cup {conns[b]},
             conns' = [conns EXCEPT ![b] = Nil], UNCHANGED dialed,
             evicted' \subseteq evicted \cup {conns[b]}
      PROVE  MapOwnsOpenConns' /\ ClosedInv'
  <2>1. {conns'[a] : a \in Backends} \ {Nil} =
          ({conns[a] : a \in Backends} \ {Nil}) \ {conns[b]}
    BY <1>2 DEF MapOwnsOpenConns, TypeOK
  <2> QED
    BY <1>2, <2>1 DEF MapOwnsOpenConns, ClosedInv, TypeOK
<1>3. CASE CloseConns
  BY <1>3 DEF CloseConns, MapOwnsOpenConns, ClosedInv
<1>4. CASE UNCHANGED <<conns, dialed, closed, evicted>>
  BY <1>4 DEF MapOwnsOpenConns, ClosedInv
<1>5. CASE SweepEvict
  BY <1>2, <1>5 DEF SweepEvict, SweeperInv
<1>6. ASSUME NEW b \in Backends, Remove(b)
      PROVE  MapOwnsOpenConns' /\ ClosedInv'
  BY <1>2, <1>6 DEF Remove
<1> QED
  BY <1>1, <1>3, <1>4, <1>5, <1>6
  DEF Next, WorkerStep, FastHit, FastMiss, SlowHit, StoreStamp, SlowDialFails,
      Pin, ReleaseNow, ReleaseStamp, ReleaseUnpin, SweepStep, SweepTick,
      SweepExit, SweepLock, SweepInFlight, SweepLastUsed, SweepState,
      SweepUnlock, CloseStop, ConnState, Tick

-----------------------------------------------------------------------------
(* The mutex.                                                              *)

(* The sweeper enters only when nobody stores under a lock, and nobody     *)
(* takes a lock while it is inside.                                        *)
LEMMA LockKept ==
  ASSUME TypeOK, LockInv, Next
  PROVE  LockInv'
<1>1. ASSUME NEW w \in Workers, WorkerStep(w)
      PROVE  LockInv'
  BY <1>1
  DEF WorkerStep, FastHit, FastMiss, SlowHit, StoreStamp, SlowDial,
      SlowDialFails, Pin, ReleaseNow, ReleaseStamp, ReleaseUnpin, ReturnEntry,
      CanRLock, CanLock, WriteLocked, TypeOK, LockInv
<1>2. CASE SweepStep
  BY <1>2 DEF SweepStep, SweepTick, SweepExit, SweepLock, SweepInFlight,
              SweepLastUsed, SweepState, SweepEvict, SweepUnlock,
              SweepContinue, CanLock, WriteLocked, ReadLocked, LockInv
<1>3. CASE UNCHANGED <<workerVars, sweepVars>>
  BY <1>3 DEF LockInv
<1> QED
  BY <1>1, <1>2, <1>3 DEF Next, Remove, CloseStop, CloseConns, ConnState, Tick

(* A connection cannot be closed between a goroutine finding it under the  *)
(* lock and dropping the lock.                                             *)
LEMMA WorkerKept ==
  ASSUME TypeOK, MapOwnsOpenConns, ClosedInv, WorkerInv, LockInv, Next
  PROVE  WorkerInv'
<1>1. ASSUME NEW w \in Workers, WorkerStep(w)
      PROVE  WorkerInv'
  BY <1>1
  DEF WorkerStep, FastHit, FastMiss, SlowHit, StoreStamp, SlowDial,
      SlowDialFails, Pin, ReleaseNow, ReleaseStamp, ReleaseUnpin, ReturnEntry,
      MapOwnsOpenConns, TypeOK, WorkerInv
<1>2. CASE SweepStep
  BY <1>2 DEF SweepStep, SweepTick, SweepExit, SweepLock, SweepInFlight,
              SweepLastUsed, SweepState, SweepEvict, SweepUnlock, LockInv,
              WorkerInv
<1>3. CASE CloseConns \/ \E b \in Backends : Remove(b)
  BY <1>3 DEF CloseConns, Remove, CanLock, WriteLocked, ReadLocked, WorkerInv
<1>4. CASE CloseStop \/ Tick \/ \E c \in Conns : ConnState(c)
  BY <1>4 DEF CloseStop, Tick, ConnState, WorkerInv
<1> QED
  BY <1>1, <1>2, <1>3, <1>4 DEF Next

-----------------------------------------------------------------------------
(* The sweeper.                                                            *)

(* The map changes under the sweeper's feet only by its own evictions.     *)
LEMMA SweeperKept ==
  ASSUME TypeOK, SweeperInv, Next
  PROVE  SweeperInv'
<1>1. ASSUME NEW w \in Workers, WorkerStep(w)
      PROVE  SweeperInv'
  BY <1>1
  DEF WorkerStep, FastHit, FastMiss, SlowHit, StoreStamp, SlowDial,
      SlowDialFails, Pin, ReleaseNow, ReleaseStamp, ReleaseUnpin, CanLock,
      WriteLocked, TypeOK, SweeperInv
<1>2. CASE SweepStep
  BY <1>2 DEF SweepStep, SweepTick, SweepExit, SweepLock, SweepInFlight,
              SweepLastUsed, SweepState, SweepEvict, SweepUnlock,
              SweepContinue, TypeOK, SweeperInv
<1>3. CASE CloseConns \/ \E b \in Backends : Remove(b)
  BY <1>3 DEF CloseConns, Remove, CanLock, WriteLocked, SweeperInv
<1>4. CASE CloseStop \/ Tick \/ \E c \in Conns : ConnState(c)
  BY <1>4 DEF CloseStop, Tick, ConnState, TypeOK, SweeperInv
<1> QED
  BY <1>1, <1>2, <1>3, <1>4 DEF Next

-----------------------------------------------------------------------------
(* Timestamps.                                                             *)

LEMMA StampKept ==
  ASSUME TypeOK, StampInv, Next
  PROVE  StampInv'
<1>1. ASSUME NEW w \in Workers, WorkerStep(w)
      PROVE  StampInv'
  BY <1>1, CacheAssumption
  DEF WorkerStep, FastHit, FastMiss, SlowHit, StoreStamp, SlowDial,
      SlowDialFails, Pin, ReleaseNow, ReleaseStamp, ReleaseUnpin, ReturnEntry,
      TypeOK, StampInv, CacheAssumption
<1>2. CASE Tick
  BY <1>2, CacheAssumption DEF Tick, TypeOK, StampInv, CacheAssumption
<1>3. CASE UNCHANGED <<clock, workerVars>>
  BY <1>3 DEF StampInv
<1> QED
  BY <1>1, <1>2, <1>3
  DEF Next, SweepStep, SweepTick, SweepExit, SweepLock, SweepInFlight,
      SweepLastUsed, SweepState, SweepEvict, SweepUnlock, Remove, CloseStop,
      CloseConns, ConnState

(* A reading that overwrites another's timestamp is itself at most         *)
(* MaxPause old, and no timestamp is in the future.                        *)
LEMMA LagKept ==
  ASSUME TypeOK, WorkerInv, StampInv, StampLagBounded, Next
  PROVE  StampLagBounded'
<1>1. ASSUME NEW w \in Workers, WorkerStep(w)
      PROVE  StampLagBounded'
  BY <1>1, CacheAssumption
  DEF WorkerStep, FastHit, FastMiss, SlowHit, StoreStamp, SlowDial,
      SlowDialFails, Pin, ReleaseNow, ReleaseStamp, ReleaseUnpin, ReturnEntry,
      TypeOK, WorkerInv, StampInv, StampLagBounded, CacheAssumption
<1>2. CASE UNCHANGED <<lastUsed, workerVars>>
  BY <1>2 DEF StampLagBounded
<1> QED
  BY <1>1, <1>2
  DEF Next, SweepStep, SweepTick, SweepExit, SweepLock, SweepInFlight,
      SweepLastUsed, SweepState, SweepEvict, SweepUnlock, Remove, CloseStop,
      CloseConns, ConnState, Tick

-----------------------------------------------------------------------------
(* Eviction.                                                               *)

(* When the count is read as zero nobody pins the connection, and whoever  *)
(* has it without a pin stamped it at most two pauses ago. From then on    *)
(* the mutex keeps new users away and each release stores a time later     *)
(* than the start of the sweep.                                            *)
LEMMA ExamineKept ==
  ASSUME TypeOK, InFlightExact, WorkerInv, LockInv, SweeperInv, StampInv,
         StampLagBounded, ExamineInv, Next
  PROVE  ExamineInv'
<1>1. ASSUME NEW b \in Backends, SweepInFlight(b), inFlight[conns[b]] <= 0
      PROVE  ExamineInv'
  <2>1. ASSUME NEW w \in Workers, entry[w] = conns[b]
        PROVE  pc[w] \notin Pinning
    BY <1>1, <2>1, PinCounted DEF SweepInFlight, SweeperInv, TypeOK
  <2>2. ASSUME NEW w \in Workers, entry[w] = conns[b], pc[w] = "got"
        PROVE  lastUsed[conns[b]] + 2 * MaxPause >= sweepNow
    BY <1>1, <2>2, CacheAssumption
    DEF SweepInFlight, SweeperInv, StampInv, StampLagBounded, TypeOK,
        CacheAssumption
  <2> QED
    BY <1>1, <2>1, <2>2 DEF SweepInFlight, SweeperInv, ExamineInv, TypeOK
<1>2. CASE SweepStep /\ ~\E b \in Backends : SweepInFlight(b)
  BY <1>2 DEF SweepStep, SweepTick, SweepExit, SweepLock, SweepLastUsed,
              SweepState, SweepEvict, SweepUnlock, SweepContinue, ExamineInv
<1>3. ASSUME NEW b \in Backends, SweepInFlight(b), inFlight[conns[b]] > 0
      PROVE  ExamineInv'
  BY <1>3 DEF SweepInFlight, ExamineInv
<1>4. ASSUME NEW w \in Workers, WorkerStep(w), sweepPc \in Examining
      PROVE  ExamineInv'
  BY <1>4, CacheAssumption
  DEF WorkerStep, FastHit, FastMiss, SlowHit, StoreStamp, SlowDial,
      SlowDialFails, Pin, ReleaseNow, ReleaseStamp, ReleaseUnpin, CanRLock,
      CanLock, WriteLocked, TypeOK, WorkerInv, LockInv, SweeperInv,
      ExamineInv, CacheAssumption
<1>5. ASSUME NEW w \in Workers, WorkerStep(w), sweepPc \notin Examining
      PROVE  ExamineInv'
  BY <1>5
  DEF WorkerStep, FastHit, FastMiss, SlowHit, StoreStamp, SlowDial,
      SlowDialFails, Pin, ReleaseNow, ReleaseStamp, ReleaseUnpin, ExamineInv
<1>6. CASE CloseConns \/ \E b \in Backends : Remove(b)
  BY <1>6 DEF CloseConns, Remove, CanLock, WriteLocked, ExamineInv
<1>7. CASE CloseStop \/ Tick \/ \E c \in Conns : ConnState(c)
  BY <1>7 DEF CloseStop, Tick, ConnState, ExamineInv
<1>8. ASSUME NEW b \in Backends, SweepInFlight(b)
      PROVE  inFlight[conns[b]] <= 0 \/ inFlight[conns[b]] > 0
  BY <1>8 DEF SweepInFlight, SweeperInv, TypeOK
<1> QED
  BY <1>1, <1>2, <1>3, <1>4, <1>5, <1>6, <1>7, <1>8 DEF Next, SweepStep

(* Past the timestamp test nobody has the connection: two pauses are less  *)
(* than the idle timeout that the test has found to be over.               *)
LEMMA EvictKept ==
  ASSUME TypeOK, MapOwnsOpenConns, ClosedInv, WorkerInv, LockInv, SweeperInv,
         ExamineInv, EvictInv, Next
  PROVE  EvictInv'
<1> SUFFICES ASSUME PauseAssumption
             PROVE  EvictInv'
  BY DEF EvictInv
<1>1. CASE SweepLastUsed
  BY <1>1, CacheAssumption
  DEF SweepLastUsed, SweepContinue, PauseAssumption, TypeOK, SweeperInv,
      ExamineInv, EvictInv, HandedOutNotEvicted, CacheAssumption
<1>2. CASE SweepEvict
  BY <1>2 DEF SweepEvict, SweepContinue, EvictInv, HandedOutNotEvicted
<1>3. CASE SweepStep /\ ~SweepLastUsed /\ ~SweepEvict
  BY <1>3 DEF SweepStep, SweepTick, SweepExit, SweepLock, SweepInFlight,
              SweepState, SweepUnlock, SweepContinue, EvictInv,
              HandedOutNotEvicted
<1>4. ASSUME NEW w \in Workers, WorkerStep(w)
      PROVE  EvictInv'
  BY <1>4
  DEF WorkerStep, FastHit, FastMiss, SlowHit, StoreStamp, SlowDial,
      SlowDialFails, Pin, ReleaseNow, ReleaseStamp, ReleaseUnpin, ReturnEntry,
      CanRLock, CanLock, WriteLocked, TypeOK, MapOwnsOpenConns, ClosedInv,
      WorkerInv, LockInv, EvictInv, HandedOutNotEvicted
<1>5. CASE CloseConns \/ \E b \in Backends : Remove(b)
  BY <1>5 DEF CloseConns, Remove, CanLock, WriteLocked, EvictInv,
              HandedOutNotEvicted
<1>6. CASE CloseStop \/ Tick \/ \E c \in Conns : ConnState(c)
  BY <1>6 DEF CloseStop, Tick, ConnState, EvictInv, HandedOutNotEvicted
<1> QED
  BY <1>1, <1>2, <1>3, <1>4, <1>5, <1>6 DEF Next

-----------------------------------------------------------------------------
(* The invariant.                                                          *)

LEMMA InitInv == Init => Inv
<1> SUFFICES ASSUME Init
             PROVE  Inv
  OBVIOUS
<1>1. \A c \in Conns : Holders(c) = {}
  BY DEF Init, Holders
<1>2. InFlightExact
  BY <1>1, FS_EmptySet DEF Init, InFlightExact
<1>3. TypeOK
  BY CacheAssumption DEF Init, TypeOK, CacheAssumption
<1>4. ClosedInv /\ WorkerInv /\ LockInv /\ SweeperInv
  BY CacheAssumption
  DEF Init, ClosedInv, WorkerInv, LockInv, SweeperInv, CacheAssumption
<1>5. MapOwnsOpenConns
  BY DEF Init, MapOwnsOpenConns
<1>6. StampInv /\ StampLagBounded /\ ExamineInv /\ EvictInv
  BY DEF Init, StampInv, StampLagBounded, ExamineInv, EvictInv,
         HandedOutNotEvicted
<1> QED
  BY <1>2, <1>3, <1>4, <1>5, <1>6 DEF Inv

LEMMA NextInv == Inv /\ [Next]_vars => Inv'
<1>1. ASSUME Inv, Next
      PROVE  Inv'
  BY <1>1, CountKept, TypeKept, MapKept, LockKept, WorkerKept, SweeperKept,
     StampKept, LagKept, ExamineKept, EvictKept
  DEF Inv
<1>2. ASSUME Inv, UNCHANGED vars
      PROVE  Inv'
  BY <1>2 DEF vars, Inv, TypeOK, InFlightExact, Holders, MapOwnsOpenConns,
              ClosedInv, WorkerInv, LockInv, SweeperInv, StampInv,
              StampLagBounded, ExamineInv, EvictInv, HandedOutNotEvicted
<1> QED
  BY <1>1, <1>2

LEMMA Invariance == Spec => []Inv
BY InitInv, NextInv, PTL DEF Spec

-----------------------------------------------------------------------------
(* Results.                                                                *)

(* Every variable keeps its type; in particular no decrement takes a       *)
(* stream counter below zero.                                              *)
THEOREM TypeCorrect == Spec => []TypeOK
<1>1. Inv => TypeOK
  BY DEF Inv
<1> QED
  BY <1>1, Invariance, PTL

(* The counter sweepIdle trusts is the number of goroutines that hold the  *)
(* connection.                                                             *)
THEOREM CounterCorrect == Spec => []InFlightExact
<1>1. Inv => InFlightExact
  BY DEF Inv
<1> QED
  BY <1>1, Invariance, PTL

(* The open connections are exactly the mapped ones: double-checked        *)
(* dialing, Remove, Close and the sweeper lose none and share none.        *)
THEOREM MapCorrect == Spec => []MapOwnsOpenConns
<1>1. Inv => MapOwnsOpenConns
  BY DEF Inv
<1> QED
  BY <1>1, Invariance, PTL

(* Stores of older readings set a timestamp back by at most one pause.     *)
THEOREM LagBounded == Spec => []StampLagBounded
<1>1. Inv => StampLagBounded
  BY DEF Inv
<1> QED
  BY <1>1, Invariance, PTL

(* If two pauses are shorter than the idle timeout, a connection that was  *)
(* handed out passes for recently used until it is pinned ...              *)
THEOREM FreshnessCorrect ==
  ASSUME PauseAssumption
  PROVE  Spec => []FreshUntilPinned
<1>1. Inv => FreshUntilPinned
  BY CacheAssumption
  DEF Inv, FreshUntilPinned, PauseAssumption, WorkerInv, StampInv,
      StampLagBounded, TypeOK, CacheAssumption
<1> QED
  BY <1>1, Invariance, PTL

(* ... and the sweeper never evicts a connection that acquire handed out   *)
(* and release has not taken back, whatever gRPC reports as its state.     *)
THEOREM EvictionCorrect ==
  ASSUME PauseAssumption
  PROVE  Spec => []HandedOutNotEvicted
<1>1. Inv => HandedOutNotEvicted
  BY DEF Inv, EvictInv
<1> QED
  BY <1>1, Invariance, PTL
-----------------------------------------------------------------------------
(* ConnectionCache implements BackendPool.                                 *)

USE DEF Holds, Pool!vars

(* A worker that stores its stamp under the mutex has an entry of the map. *)
LEMMA StampedIsMapped ==
  ASSUME Inv, NEW w \in Workers, pc[w] \in Storing
  PROVE  \E b \in Backends : conns[b] = entry[w] /\ entry[w] # Nil
BY CacheAssumption
DEF Inv, TypeOK, WorkerInv, ClosedInv, MapOwnsOpenConns, CacheAssumption

(* Steps of a worker that the pool does not see.                           *)
LEMMA WorkerStutters ==
  ASSUME TypeOK, NEW w \in Workers,
         \/ \E b \in Backends : FastHit(w, b) \/ FastMiss(w, b)
         \/ SlowHit(w) \/ SlowDialFails(w)
         \/ Pin(w) \/ ReleaseNow(w) \/ ReleaseStamp(w)
  PROVE  UNCHANGED Pool!vars
<1>1. UNCHANGED <<conns, connVars>>
  BY DEF FastHit, FastMiss, SlowHit, SlowDialFails, Pin, ReleaseNow,
         ReleaseStamp
<1>2. Holds' = Holds
  BY DEF FastHit, FastMiss, SlowHit, SlowDialFails, Pin, ReleaseNow,
         ReleaseStamp, TypeOK
<1> QED
  BY <1>1, <1>2

(* Steps of a worker that the pool sees: it is given a connection, makes   *)
(* one for somebody else, or gives its own back.                           *)
LEMMA WorkerMoves ==
  ASSUME Inv, NEW w \in Workers,
         \/ StoreStamp(w)
         \/ \E c \in Conns : SlowDial(w, c)
         \/ ReleaseUnpin(w)
  PROVE  Pool!Next \/ UNCHANGED Pool!vars
<1> USE CacheAssumption DEF CacheAssumption
<1>1. CASE StoreStamp(w)
  <2>1. PICK b \in Backends : conns[b] = entry[w] /\ entry[w] # Nil
    BY <1>1, StampedIsMapped DEF StoreStamp
  <2>2. CASE w \in Getters
    BY <1>1, <2>2 DEF StoreStamp, ReturnEntry, Inv, TypeOK
  <2>3. CASE w \notin Getters
    <3>1. Holds[w] = Nil /\ Holds' = [Holds EXCEPT ![w] = conns[b]]
      BY <1>1, <2>1, <2>3 DEF StoreStamp, ReturnEntry, Inv, TypeOK
    <3>2. Pool!Hold(w, b)
      BY <1>1, <2>1, <3>1 DEF StoreStamp, Pool!Hold
    <3> QED
      BY <3>2 DEF Pool!Next
  <2> QED
    BY <2>2, <2>3
<1>2. ASSUME NEW c \in Conns, SlowDial(w, c)
      PROVE  Pool!Next
  <2> DEFINE b == want[w]
  <2>1. b \in Backends /\ Pool!Connect(b, c)
    BY <1>2 DEF SlowDial, Inv, WorkerInv, Pool!Connect
  <2>2. CASE w \in Getters
    <3>1. Holds' = Holds
      BY <1>2, <2>2 DEF SlowDial, ReturnEntry, Inv, TypeOK
    <3> QED
      BY <2>1, <3>1 DEF Pool!Next, Pool!Provide
  <2>3. CASE w \notin Getters
    <3>1. Holds[w] = Nil /\ Holds' = [Holds EXCEPT ![w] = c]
      BY <1>2, <2>3 DEF SlowDial, ReturnEntry, Inv, TypeOK
    <3> QED
      BY <2>1, <3>1 DEF Pool!Next, Pool!HoldNew
  <2> QED
    BY <2>2, <2>3
<1>3. CASE ReleaseUnpin(w)
  <2>1. Holds[w] # Nil /\ Holds' = [Holds EXCEPT ![w] = Nil]
    BY <1>3 DEF ReleaseUnpin, Inv, TypeOK, WorkerInv
  <2> QED
    BY <1>3, <2>1 DEF ReleaseUnpin, Pool!Next, Pool!GiveBack
<1> QED
  BY <1>1, <1>2, <1>3

(* Eviction is the one step of the sweeper that the pool sees, and by then *)
(* nobody holds the connection.                                            *)
LEMMA SweepMoves ==
  ASSUME Inv, PauseAssumption, SweepStep
  PROVE  Pool!Next \/ UNCHANGED Pool!vars
<1>1. CASE SweepEvict
  <2> DEFINE b == sweepAt
  <2>1. b \in Backends /\ conns[b] # Nil
    BY <1>1 DEF SweepEvict, Inv, SweeperInv
  <2>2. Pool!Drop(b)
    BY <1>1, <2>1 DEF SweepEvict, Pool!Drop
  <2>3. \A w \in Workers : Holds[w] # conns[b]
    BY <1>1, <2>1 DEF SweepEvict, Inv, EvictInv
  <2>4. Pool!Evict(b)
    BY <1>1, <2>2, <2>3 DEF SweepEvict, Pool!Evict
  <2> QED
    BY <2>1, <2>4 DEF Pool!Next
<1>2. CASE ~SweepEvict
  BY <1>2 DEF SweepStep, SweepTick, SweepExit, SweepLock, SweepInFlight,
              SweepLastUsed, SweepState, SweepUnlock, SweepContinue
<1> QED
  BY <1>1, <1>2

LEMMA StepRefines ==
  ASSUME Inv, PauseAssumption, [Next]_vars
  PROVE  [Pool!Next]_(Pool!vars)
<1>1. ASSUME NEW w \in Workers, WorkerStep(w)
      PROVE  Pool!Next \/ UNCHANGED Pool!vars
  BY <1>1, WorkerStutters, WorkerMoves DEF WorkerStep, Inv
<1>2. ASSUME NEW b \in Backends, Remove(b)
      PROVE  Pool!Next
  <2>1. Pool!Remove(b)
    BY <1>2 DEF Remove, Pool!Remove, Pool!Drop
  <2> QED
    BY <2>1 DEF Pool!Next
<1>3. CASE CloseConns
  BY <1>3 DEF CloseConns, Pool!Next, Pool!Close
<1>4. CASE CloseStop \/ Tick \/ \E c \in Conns : ConnState(c)
  BY <1>4 DEF CloseStop, Tick, ConnState
<1>5. CASE UNCHANGED vars
  BY <1>5 DEF vars
<1> QED
  BY <1>1, <1>2, <1>3, <1>4, <1>5, SweepMoves DEF Next

(* Under the assumption on pauses of EvictionCorrect, the cache with its   *)
(* mutex, timestamps, counters and sweeper is the plain pool.              *)
THEOREM PoolImplemented ==
  ASSUME PauseAssumption
  PROVE  Spec => ImplementsPool
<1>1. Init => Pool!Init
  BY DEF Init, Pool!Init
<1>2. Inv /\ [Next]_vars => [Pool!Next]_(Pool!vars)
  BY StepRefines
<1> QED
  BY <1>1, <1>2, Invariance, PTL DEF Spec, ImplementsPool, Pool!Spec
=============================================================================

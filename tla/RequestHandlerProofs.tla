------------------------ MODULE RequestHandlerProofs -------------------------
(***************************************************************************)
(* ChainInOrder, AbortHolds and OwnOutcome for any number of requests,     *)
(* Contexts and backends, and any calls of Use and on the Context.         *)
(*                                                                         *)
(* Three arguments meet.  Use writes only behind the elements in use of    *)
(* the last array, so a snapshot never changes (SnapshotInv).  The index   *)
(* of a chain that is not aborted is at most the calls of Next and the     *)
(* returns of Handle so far, so it stays below abortIndex, which in turn   *)
(* is behind the end of every chain (IndexInv).  A Context in the pool is  *)
(* clean and no two requests have the same (PoolInv, OwnInv).              *)
(***************************************************************************)
EXTENDS RequestHandler, SequenceTheorems, TLAPS

Slot == Nat \cup {Nil}

Held == {"start", "chain", "forward"}

TypeOK ==
  /\ arrays \in Seq(Seq(Slot))
  /\ len \in 0..MaxUse
  /\ pool \subseteq Contexts
  /\ ctx \in [Contexts -> [array : Slot, len : 0..MaxUse, index : Int,
                           response : Responses \cup {Nil},
                           backend : Backends \cup {Nil}]]
  /\ pc \in [Requests -> {"read", "acquire", "done"} \cup Held]
  /\ mine \in [Requests -> Contexts \cup {Nil}]
  /\ stack \in [Requests -> Seq(Slot)]
  /\ calls \in [Requests -> 0..MaxCalls]
  /\ outcome \in [Requests -> Backends \cup {Default} \cup Responses
                              \cup Unforwarded]
  /\ history \in [Requests -> [found : Seq(Slot), ran : Seq(Slot),
                               response : Responses \cup {Nil},
                               backend : Backends \cup {Nil},
                               aborted : Nat \cup {Nil}]]

(* The elements of s.middlewares are in the last array.                    *)
SliceInv ==
  len > 0 => Len(arrays) > 0 /\ len <= Len(arrays[Len(arrays)])

PoolInv ==
  /\ \A r \in Requests : /\ mine[r] # Nil <=> pc[r] \in Held
                         /\ mine[r] \notin pool
  /\ \A r, s \in Requests : r # s /\ mine[r] = mine[s] => mine[r] = Nil
  /\ \A c \in pool : ctx[c].response = Nil /\ ctx[c].backend = Nil

(* The snapshot in the Context of r is the chain r found: its slots are    *)
(* not those that Use writes.                                              *)
SnapshotInv(r) ==
  pc[r] \in Held =>
    /\ Len(history[r].found) = ctx[mine[r]].len
    /\ ctx[mine[r]].len > 0 =>
         /\ ctx[mine[r]].array \in 1..Len(arrays)
         /\ ctx[mine[r]].len <= Len(arrays[ctx[mine[r]].array])
         /\ ctx[mine[r]].array = Len(arrays) => ctx[mine[r]].len <= len
         /\ \A i \in 1..ctx[mine[r]].len :
              arrays[ctx[mine[r]].array][i] = history[r].found[i]

(* What has run is the beginning of the chain.                             *)
RanInv(r) ==
  /\ Len(history[r].ran) <= Len(history[r].found)
  /\ \A i \in 1..Len(history[r].ran) : history[r].ran[i] = history[r].found[i]

(* Nothing has happened before the handler's call of Next.                 *)
FreshInv(r) ==
  /\ pc[r] \in {"read", "acquire", "start"} =>
       /\ history[r].ran = <<>> /\ history[r].aborted = Nil
       /\ history[r].response = Nil /\ history[r].backend = Nil
       /\ calls[r] = 0 /\ outcome[r] = "none"
  /\ pc[r] = "start" => ctx[mine[r]].index = -1

(* The index counts the rounds, one for each call of Next and one for each *)
(* return of a Handle, until an abort puts it out of the chain's reach.    *)
IndexInv(r) ==
  pc[r] = "chain" =>
    /\ history[r].aborted = Nil =>
         /\ ctx[mine[r]].index >= 0
         /\ ctx[mine[r]].index + Len(stack[r]) <= calls[r] + Len(history[r].ran)
         /\ Len(history[r].ran) = IF ctx[mine[r]].index < ctx[mine[r]].len
                                  THEN ctx[mine[r]].index + 1
                                  ELSE ctx[mine[r]].len
    /\ history[r].aborted # Nil => ctx[mine[r]].index >= AbortIndex
    /\ stack[r] = <<>> => ctx[mine[r]].index >= ctx[mine[r]].len

(* The Context in use holds what its user's own calls have put there.      *)
OwnInv(r) ==
  pc[r] \in Held => /\ ctx[mine[r]].response = history[r].response
                    /\ ctx[mine[r]].backend = history[r].backend

OutcomeInv(r) ==
  /\ pc[r] = "chain" => outcome[r] = "none"
  /\ Forwarded(r) => /\ Len(history[r].ran) = Len(history[r].found)
                     /\ history[r].aborted = Nil
                     /\ outcome[r] = IF history[r].backend = Nil THEN Default
                                     ELSE history[r].backend
  /\ outcome[r] \in Responses => outcome[r] = history[r].response
  /\ history[r].aborted # Nil => Len(history[r].ran) = history[r].aborted

RequestInv(r) ==
  /\ SnapshotInv(r) /\ RanInv(r) /\ FreshInv(r) /\ IndexInv(r) /\ OwnInv(r)
  /\ OutcomeInv(r)

HandlerInv ==
  TypeOK /\ SliceInv /\ PoolInv /\ \A r \in Requests : RequestInv(r)

-----------------------------------------------------------------------------
(* What has run, as a sequence.                                            *)
LEMMA RanIsPrefix ==
  ASSUME TypeOK, NEW r \in Requests, RanInv(r)
  PROVE  /\ history[r].ran = SubSeq(history[r].found, 1, Len(history[r].ran))
         /\ Len(history[r].ran) = Len(history[r].found)
              => history[r].ran = history[r].found
<1> DEFINE ran == history[r].ran
           found == history[r].found
<1>1. ran \in Seq(Slot) /\ found \in Seq(Slot)
  BY DEF TypeOK
<1>2. /\ Len(ran) \in Nat /\ Len(found) \in Nat
      /\ Len(ran) <= Len(found)
      /\ \A i \in 1..Len(ran) : ran[i] = found[i]
  BY <1>1, LenProperties DEF RanInv
<1> HIDE DEF ran, found
<1>3. \A i \in 1..Len(ran) : found[i] \in Slot
  BY <1>1, <1>2, ElementOfSeq, SMT
<1>4. /\ SubSeq(found, 1, Len(ran)) \in Seq(Slot)
      /\ Len(SubSeq(found, 1, Len(ran))) = Len(ran)
      /\ \A i \in 1..Len(ran) : SubSeq(found, 1, Len(ran))[i] = found[i]
  BY <1>2, <1>3, SubSeqProperties, SMT
<1>5. ran = SubSeq(found, 1, Len(ran))
  BY <1>1, <1>2, <1>4, SeqEqual
<1>6. Len(ran) = Len(found) => ran = found
  BY <1>1, <1>2, SeqEqual
<1> QED
  BY <1>5, <1>6 DEF ran, found

-----------------------------------------------------------------------------
LEMMA HandlerInit == Init => HandlerInv
<1> SUFFICES ASSUME Init PROVE HandlerInv
  OBVIOUS
<1> USE HandlerAssumption DEF HandlerAssumption, Init
<1>1. TypeOK
  BY DEF TypeOK, Blank, Slot, Held, Unforwarded
<1>2. SliceInv /\ PoolInv
  BY DEF SliceInv, PoolInv, Blank, Held
<1>3. ASSUME NEW r \in Requests PROVE RequestInv(r)
  BY <1>3 DEF RequestInv, SnapshotInv, RanInv, FreshInv, IndexInv, OwnInv,
              OutcomeInv, Held, Blank, Forwarded, Responses, Unforwarded
<1> QED
  BY <1>1, <1>2, <1>3 DEF HandlerInv

-----------------------------------------------------------------------------
(* Use writes no slot that is in use, and moves no array.                  *)
LEMMA SlotsKept ==
  ASSUME TypeOK, SliceInv, Use
  PROVE  /\ arrays' \in Seq(Seq(Slot)) /\ len' \in 0..MaxUse
         /\ SliceInv'
         /\ len' >= len /\ Len(arrays') >= Len(arrays)
         /\ \A a \in 1..Len(arrays) :
              /\ Len(arrays'[a]) = Len(arrays[a])
              /\ \A i \in 1..Len(arrays[a]) :
                   a # Len(arrays) \/ i <= len => arrays'[a][i] = arrays[a][i]
         /\ \A a \in 1..Len(arrays) : a = Len(arrays') => a = Len(arrays)
<1> DEFINE last == Len(arrays)
           full == last = 0 \/ len = Len(arrays[last])
           cap  == IF len = 0 THEN 1 ELSE 2 * len
           copy == [i \in 1..cap |-> IF i <= len THEN arrays[last][i]
                                     ELSE IF i = len + 1 THEN len + 1 ELSE Nil]
           grown == [arrays[last] EXCEPT ![len + 1] = len + 1]
<1> USE HandlerAssumption DEF HandlerAssumption
<1>1. /\ arrays \in Seq(Seq(Slot)) /\ last \in Nat
      /\ len \in Nat /\ len < MaxUse /\ len' = len + 1
      /\ len' \in 0..MaxUse
  BY LenProperties DEF TypeOK, Use
<1>2. len > 0 => last > 0 /\ arrays[last] \in Seq(Slot)
                 /\ len <= Len(arrays[last])
  BY <1>1, ElementOfSeq DEF SliceInv
<1>3. arrays' = IF full THEN Append(arrays, copy)
                ELSE [arrays EXCEPT ![last][len + 1] = len + 1]
  BY DEF Use
<1>4. CASE full
  <2>1. cap \in Nat /\ len + 1 <= cap
    BY <1>1
  <2>2. \A i \in 1..len : arrays[last][i] \in Slot
    BY <1>1, <1>2, ElementOfSeq
  <2>3. \A i \in 1..cap : copy[i] \in Slot
    BY <1>1, <2>1, <2>2 DEF Slot
  <2>4. copy \in Seq(Slot) /\ Len(copy) = cap
    <3>1. copy \in [1..cap -> Slot]
      BY <2>3
    <3> HIDE DEF copy, cap
    <3>2. DOMAIN copy = 1..cap
      BY <3>1
    <3> QED
      BY <2>1, <3>1, <3>2
  <2> HIDE DEF copy, cap
  <2>5. arrays' = Append(arrays, copy)
    BY <1>3, <1>4
  <2>6. /\ arrays' \in Seq(Seq(Slot)) /\ Len(arrays') = last + 1
        /\ arrays'[last + 1] = copy
        /\ \A a \in 1..last : arrays'[a] = arrays[a]
    BY <1>1, <2>4, <2>5
  <2> QED
    <3>1. SliceInv'
      BY <1>1, <2>1, <2>4, <2>6 DEF SliceInv
    <3>2. \A a \in 1..last : arrays'[a] = arrays[a] /\ a # Len(arrays')
      BY <1>1, <2>6
    <3> QED
      BY <1>1, <2>6, <3>1, <3>2
<1>5. CASE ~full
  <2>1. last \in 1..Len(arrays) /\ arrays[last] \in Seq(Slot)
    BY <1>1, <1>5, ElementOfSeq
  <2>2. Len(arrays[last]) \in Nat /\ len < Len(arrays[last])
    BY <1>1, <1>2, <1>5, <2>1, LenProperties
  <2>3. len + 1 \in 1..Len(arrays[last]) /\ len + 1 \in Slot
    BY <1>1, <2>2 DEF Slot
  <2>4. /\ grown \in Seq(Slot) /\ Len(grown) = Len(arrays[last])
        /\ \A i \in 1..len : grown[i] = arrays[last][i]
    BY <1>1, <2>1, <2>3, ExceptSeq
  <2>5. arrays' = [arrays EXCEPT ![last] = grown]
    BY <1>3, <1>5
  <2> HIDE DEF grown
  <2>6. /\ arrays' \in Seq(Seq(Slot)) /\ Len(arrays') = last
        /\ \A a \in 1..last :
             arrays'[a] = IF a = last THEN grown ELSE arrays[a]
    BY <1>1, <2>1, <2>4, <2>5, ExceptSeq
  <2>7. SliceInv'
    BY <1>1, <2>1, <2>2, <2>4, <2>6 DEF SliceInv
  <2> QED
    BY <1>1, <2>1, <2>2, <2>4, <2>6, <2>7
<1> QED
  BY <1>4, <1>5

LEMMA UseKeeps ==
  ASSUME HandlerInv, Use
  PROVE  HandlerInv'
<1> USE DEF HandlerInv
<1>0. UNCHANGED <<pool, ctx, pc, mine, stack, calls, outcome, history>>
  BY DEF Use
<1>1. TypeOK' /\ SliceInv'
  BY <1>0, SlotsKept DEF TypeOK
<1>2. PoolInv'
  BY <1>0 DEF PoolInv
<1>3. ASSUME NEW r \in Requests PROVE RequestInv(r)'
  <2>1. SnapshotInv(r)'
    <3> SUFFICES ASSUME pc[r] \in Held, ctx[mine[r]].len > 0
                 PROVE  /\ ctx[mine[r]].array \in 1..Len(arrays')
                        /\ ctx[mine[r]].len <= Len(arrays'[ctx[mine[r]].array])
                        /\ ctx[mine[r]].array = Len(arrays')
                             => ctx[mine[r]].len <= len'
                        /\ \A i \in 1..ctx[mine[r]].len :
                             arrays'[ctx[mine[r]].array][i] = history[r].found[i]
      BY <1>0 DEF SnapshotInv, RequestInv
    <3> DEFINE a == ctx[mine[r]].array
               n == ctx[mine[r]].len
    <3>1. /\ a \in 1..Len(arrays) /\ n <= Len(arrays[a])
          /\ a = Len(arrays) => n <= len
          /\ \A i \in 1..n : arrays[a][i] = history[r].found[i]
      BY DEF RequestInv, SnapshotInv
    <3>2. n \in Nat /\ len \in Nat /\ len' \in Nat /\ MaxUse \in Nat
      BY SlotsKept, HandlerAssumption DEF TypeOK, PoolInv, HandlerAssumption
    <3>3. Len(arrays) \in Nat /\ Len(arrays') \in Nat /\ Len(arrays[a]) \in Nat
      BY <3>1, SlotsKept, LenProperties, ElementOfSeq DEF TypeOK
    <3> HIDE DEF a, n
    <3>4. \A i \in 1..n : arrays'[a][i] = arrays[a][i]
      <4>1. /\ \A i \in 1..Len(arrays[a]) :
                 a # Len(arrays) \/ i <= len => arrays'[a][i] = arrays[a][i]
        BY <3>1, SlotsKept
      <4>2. ASSUME NEW i \in 1..n
            PROVE  i \in 1..Len(arrays[a]) /\ (a # Len(arrays) \/ i <= len)
        BY <3>1, <3>2, <3>3, <4>2
      <4> QED
        BY <4>1, <4>2
    <3>5. /\ a \in 1..Len(arrays') /\ n <= Len(arrays'[a])
          /\ a = Len(arrays') => n <= len'
          /\ \A i \in 1..n : arrays'[a][i] = history[r].found[i]
      BY <3>1, <3>2, <3>3, <3>4, SlotsKept
    <3> QED
      BY <3>5 DEF a, n
  <2> QED
    BY <1>0, <2>1 DEF RequestInv, RanInv, FreshInv, IndexInv, OwnInv,
                      OutcomeInv, Forwarded, Held
<1> QED
  BY <1>1, <1>2, <1>3

-----------------------------------------------------------------------------
(* A step of one request is invisible to the others, whose Contexts are    *)
(* their own.                                                              *)
LEMMA OthersKept ==
  ASSUME TypeOK, PoolInv, NEW r \in Requests, RequestStep(r),
         NEW s \in Requests, s # r, RequestInv(s)
  PROVE  RequestInv(s)'
<1> USE DEF TypeOK
<1>1. UNCHANGED <<arrays, len>>
  BY DEF RequestStep, ReadFirst, ReadFirstFails, AcquireContext, StartChain,
         CallNext, HandleReturns, Calling, Abort, SetBackend, handleAborted,
         SendResponseFails, CallForward, ForwardReturns, ReleaseContext
<1>2. /\ pc'[s] = pc[s] /\ mine'[s] = mine[s] /\ stack'[s] = stack[s]
      /\ calls'[s] = calls[s] /\ outcome'[s] = outcome[s]
      /\ history'[s] = history[s]
  BY DEF RequestStep, ReadFirst, ReadFirstFails, AcquireContext, StartChain,
         CallNext, HandleReturns, Calling, Abort, SetBackend, handleAborted,
         SendResponseFails, CallForward, ForwardReturns, ReleaseContext, Round
<1>3. ASSUME pc[s] \in Held PROVE ctx'[mine[s]] = ctx[mine[s]]
  <2>1. /\ mine[s] \in Contexts /\ mine[s] # mine[r] /\ mine[s] \notin pool
    BY <1>3 DEF PoolInv
  <2> QED
    BY <2>1
    DEF RequestStep, ReadFirst, ReadFirstFails, AcquireContext, StartChain,
        CallNext, HandleReturns, Calling, Abort, SetBackend, handleAborted,
        SendResponseFails, CallForward, ForwardReturns, ReleaseContext, Round,
        reset
<1>4. SnapshotInv(s)' /\ RanInv(s)'
  BY <1>1, <1>2, <1>3 DEF RequestInv, SnapshotInv, RanInv
<1>5. FreshInv(s)' /\ IndexInv(s)'
  BY <1>2, <1>3 DEF RequestInv, FreshInv, IndexInv, Held
<1>6. OwnInv(s)' /\ OutcomeInv(s)'
  BY <1>2, <1>3 DEF RequestInv, OwnInv, OutcomeInv, Forwarded
<1> QED
  BY <1>4, <1>5, <1>6 DEF RequestInv

-----------------------------------------------------------------------------
(* A round of Next's loop calls the middleware of the chain that is next,  *)
(* and no other, unless it is at the end or was aborted.                   *)
LEMMA RoundKeeps ==
  ASSUME HandlerInv, NEW r \in Requests, pc[r] \in {"start", "chain"},
         NEW i \in Int, NEW below \in Seq(Slot), i = ctx[mine[r]].index + 1,
         pc'[r] = "chain", UNCHANGED <<arrays, len, mine, outcome>>,
         calls'[r] \in Nat,
         Round(r, i, below),
         \/ pc[r] = "start" /\ below = <<>>
         \/ pc[r] = "chain" /\ calls'[r] = calls[r] + 1 /\ below = stack[r]
                            /\ stack[r] # <<>>
         \/ /\ pc[r] = "chain" /\ calls'[r] = calls[r]
            /\ Len(below) + 1 = Len(stack[r])
  PROVE  /\ ctx' \in [Contexts -> [array : Slot, len : 0..MaxUse, index : Int,
                                   response : Responses \cup {Nil},
                                   backend : Backends \cup {Nil}]]
         /\ stack' \in [Requests -> Seq(Slot)]
         /\ history' \in [Requests ->
                [found : Seq(Slot), ran : Seq(Slot),
                 response : Responses \cup {Nil}, backend : Backends \cup {Nil},
                 aborted : Nat \cup {Nil}]]
         /\ \A c \in Contexts : /\ ctx'[c].response = ctx[c].response
                                /\ ctx'[c].backend = ctx[c].backend
         /\ RequestInv(r)'
<1> DEFINE c == mine[r]
           n == ctx[c].len
           m == arrays[ctx[c].array][i + 1]
           h == history[r]
<1>1. /\ c \in Contexts /\ n \in Nat /\ n <= MaxUse /\ ctx[c].index \in Int
      /\ Len(h.ran) \in Nat /\ Len(h.found) \in Nat /\ h.ran \in Seq(Slot)
      /\ calls[r] \in Nat
      /\ Len(stack[r]) \in Nat /\ Len(below) \in Nat
      /\ stack[r] # <<>> => Len(stack[r]) > 0
      /\ AbortIndex \in Nat /\ AbortIndex > n
  <2>1. MaxUse \in Nat /\ MaxCalls \in Nat /\ AbortIndex \in Nat
        /\ AbortIndex > 2 * MaxUse + MaxCalls
    BY HandlerAssumption DEF HandlerAssumption
  <2>2. mine[r] \in Contexts
    BY DEF HandlerInv, TypeOK, PoolInv, Held
  <2>3. /\ n \in 0..MaxUse /\ ctx[c].index \in Int /\ calls[r] \in 0..MaxCalls
        /\ h.ran \in Seq(Slot) /\ h.found \in Seq(Slot) /\ stack[r] \in Seq(Slot)
    BY <2>2 DEF HandlerInv, TypeOK
  <2> QED
    BY <2>1, <2>2, <2>3, LenProperties, EmptySeq
<1> HIDE DEF c
<1>2. /\ SnapshotInv(r) /\ FreshInv(r) /\ IndexInv(r) /\ RanInv(r)
      /\ OwnInv(r) /\ OutcomeInv(r) /\ pc[r] \in Held
  <2>1. RequestInv(r)
    BY DEF HandlerInv
  <2> QED
    BY <2>1 DEF RequestInv, Held
<1>3. /\ n = Len(h.found)
      /\ n > 0 => /\ ctx[c].array \in 1..Len(arrays)
                  /\ n <= Len(arrays[ctx[c].array])
                  /\ \A j \in 1..n : arrays[ctx[c].array][j] = h.found[j]
  BY <1>2 DEF SnapshotInv, c
<1>4. i >= 0 /\ (i < n => i + 1 \in 1..n /\ Len(h.ran) = i /\ h.aborted = Nil)
  <2>1. CASE pc[r] = "start"
    <3>1. h.ran = <<>> /\ h.aborted = Nil /\ ctx[c].index = -1
      BY <1>2, <2>1 DEF FreshInv, c
    <3>2. i = 0 /\ Len(h.ran) = 0
      BY <3>1, EmptySeq DEF c
    <3> QED
      BY <1>1, <3>1, <3>2
  <2>2. CASE pc[r] = "chain"
    <3>1. /\ h.aborted # Nil => ctx[c].index >= AbortIndex
          /\ h.aborted = Nil => /\ ctx[c].index >= 0
                                /\ Len(h.ran) = IF ctx[c].index < n
                                                THEN ctx[c].index + 1 ELSE n
      BY <1>2, <2>2 DEF IndexInv, c
    <3>2. i = ctx[c].index + 1
      BY DEF c
    <3> QED
      BY <1>1, <3>1, <3>2
  <2> QED
    BY <2>1, <2>2
<1>5. i < n => m \in Slot /\ m = h.found[i + 1]
  <2>1. h.found \in Seq(Slot)
    BY DEF HandlerInv, TypeOK
  <2> HIDE DEF h, n
  <2>2. \A j \in 1..n : h.found[j] \in Slot
    BY <1>3, <2>1, ElementOfSeq
  <2>3. i < n => i + 1 \in 1..n /\ n > 0
    BY <1>1, <1>4
  <2> QED
    BY <1>3, <2>2, <2>3
<1>6. ctx' = [ctx EXCEPT ![c].index = i]
  BY DEF Round, c
<1>7. /\ stack' \in [Requests -> Seq(Slot)]
      /\ history' \in [Requests ->
            [found : Seq(Slot), ran : Seq(Slot),
             response : Responses \cup {Nil}, backend : Backends \cup {Nil},
             aborted : Nat \cup {Nil}]]
      /\ history'[r].found = h.found
      /\ history'[r].response = h.response /\ history'[r].backend = h.backend
      /\ history'[r].aborted = h.aborted
      /\ i < n => /\ Len(stack'[r]) = Len(below) + 1
                  /\ stack'[r] # <<>>
                  /\ Len(history'[r].ran) = i + 1
                  /\ \A j \in 1..(i + 1) : history'[r].ran[j] = h.found[j]
      /\ ~(i < n) => stack'[r] = below /\ history' = history
  <2>1. CASE i < n
    <3>1. /\ stack' = [stack EXCEPT ![r] = Append(below, m)]
          /\ history' = [history EXCEPT ![r].ran = Append(@, m)]
      BY <2>1 DEF Round, c
    <3> DEFINE stack2 == Append(below, m)
               ran2 == Append(h.ran, m)
    <3>2. history' = [history EXCEPT ![r] = [h EXCEPT !.ran = ran2]]
      BY <3>1
    <3>3. /\ m \in Slot /\ m = h.found[i + 1] /\ Len(h.ran) = i
          /\ \A j \in 1..i : h.ran[j] = h.found[j]
      BY <1>2, <1>4, <1>5, <2>1 DEF RanInv
    <3> HIDE DEF m
    <3>4. stack2 \in Seq(Slot) /\ Len(stack2) = Len(below) + 1 /\ stack2 # <<>>
      BY <3>3, AppendProperties
    <3>5. /\ ran2 \in Seq(Slot) /\ Len(ran2) = i + 1
          /\ \A j \in 1..i : ran2[j] = h.ran[j]
          /\ ran2[i + 1] = m
      <4> HIDE DEF h
      <4>1. h.ran \in Seq(Slot) /\ m \in Slot /\ Len(h.ran) = i
        BY <1>1, <3>3
      <4>2. /\ ran2 \in Seq(Slot) /\ Len(ran2) = Len(h.ran) + 1
            /\ \A j \in 1..Len(h.ran) : ran2[j] = h.ran[j]
            /\ ran2[Len(h.ran) + 1] = m
        BY <4>1, AppendProperties
      <4> QED
        BY <4>1, <4>2
    <3> HIDE DEF stack2, ran2
    <3>6. \A j \in 1..(i + 1) : ran2[j] = h.found[j]
      BY <1>4, <3>3, <3>5
    <3>7. stack' \in [Requests -> Seq(Slot)] /\ stack'[r] = stack2
      BY <3>1, <3>4 DEF HandlerInv, TypeOK, stack2
    <3>8. /\ history' \in [Requests ->
                [found : Seq(Slot), ran : Seq(Slot),
                 response : Responses \cup {Nil}, backend : Backends \cup {Nil},
                 aborted : Nat \cup {Nil}]]
          /\ history'[r].ran = ran2 /\ history'[r].found = h.found
          /\ history'[r].response = h.response
          /\ history'[r].backend = h.backend
          /\ history'[r].aborted = h.aborted
      BY <3>2, <3>5 DEF HandlerInv, TypeOK
    <3> QED
      BY <2>1, <3>4, <3>5, <3>6, <3>7, <3>8
  <2>2. CASE ~(i < n)
    BY <2>2 DEF Round, HandlerInv, TypeOK, c
  <2> QED
    BY <2>1, <2>2
<1>8. /\ ctx' \in [Contexts -> [array : Slot, len : 0..MaxUse, index : Int,
                              response : Responses \cup {Nil},
                              backend : Backends \cup {Nil}]]
      /\ \A x \in Contexts : /\ ctx'[x].array = ctx[x].array
                             /\ ctx'[x].len = ctx[x].len
                             /\ ctx'[x].response = ctx[x].response
                             /\ ctx'[x].backend = ctx[x].backend
      /\ ctx'[c].index = i
  BY <1>1, <1>6 DEF HandlerInv, TypeOK
<1> HIDE DEF n, m, h
<1>9. RequestInv(r)'
  <2>1. SnapshotInv(r)'
    BY <1>1, <1>2, <1>7, <1>8 DEF SnapshotInv, c, h
  <2>2. RanInv(r)'
    BY <1>1, <1>2, <1>3, <1>4, <1>7 DEF RanInv, h
  <2>3. FreshInv(r)'
    BY DEF FreshInv
  <2>4. IndexInv(r)'
    <3> DEFINE k == ctx[c].index
    <3>0. /\ n \in Nat /\ k \in Int /\ i = k + 1 /\ AbortIndex \in Nat
          /\ calls[r] \in Nat /\ calls'[r] \in Nat
          /\ Len(h.ran) \in Nat /\ Len(stack[r]) \in Nat /\ Len(below) \in Nat
      BY <1>1 DEF c
    <3> SUFFICES
          /\ h.aborted = Nil =>
               /\ i + Len(stack'[r]) <= calls'[r] + Len(history'[r].ran)
               /\ Len(history'[r].ran) = IF i < n THEN i + 1 ELSE n
          /\ h.aborted # Nil => i >= AbortIndex
      BY <1>1, <1>4, <1>7, <1>8 DEF IndexInv, c, n, h
    <3>1. CASE pc[r] = "start"
      <4>1. /\ h.ran = <<>> /\ h.aborted = Nil /\ k = -1 /\ calls[r] = 0
        BY <1>2, <3>1 DEF FreshInv, c, h
      <4>2. i = 0 /\ Len(h.ran) = 0 /\ below = <<>> /\ Len(below) = 0
        BY <3>1, <4>1, EmptySeq DEF c
      <4> QED
        BY <1>7, <3>0, <4>1, <4>2 DEF h
    <3>2. CASE pc[r] = "chain"
      <4>1. /\ h.aborted # Nil => k >= AbortIndex
            /\ h.aborted = Nil => /\ k + Len(stack[r]) <= calls[r] + Len(h.ran)
                                  /\ k < n => Len(h.ran) = k + 1
                                  /\ k >= n => Len(h.ran) = n
        BY <1>2, <3>0, <3>2 DEF IndexInv, c, h, n
      <4>2. \/ calls'[r] = calls[r] + 1 /\ Len(below) = Len(stack[r])
            \/ calls'[r] = calls[r] /\ Len(below) + 1 = Len(stack[r])
        BY <3>2
      <4> HIDE DEF k
      <4>3. CASE i < n
        <5>1. /\ Len(stack'[r]) = Len(below) + 1 /\ Len(history'[r].ran) = i + 1
          BY <1>7, <4>3
        <5>2. h.aborted # Nil => i >= AbortIndex
          BY <3>0, <4>1
        <5>3. CASE h.aborted = Nil
          <6>1. k < n /\ k + Len(stack[r]) <= calls[r] + k + 1
            BY <3>0, <4>1, <4>3, <5>3
          <6>2. Len(below) <= calls'[r]
            BY <3>0, <4>2, <6>1
          <6> QED
            BY <3>0, <4>3, <5>1, <5>3, <6>2
        <5> QED
          BY <5>2, <5>3
      <4>4. CASE ~(i < n)
        <5>1. Len(stack'[r]) = Len(below) /\ Len(history'[r].ran) = Len(h.ran)
          BY <1>7, <4>4 DEF h
        <5>2. h.aborted # Nil => i >= AbortIndex
          BY <3>0, <4>1
        <5>3. CASE h.aborted = Nil
          <6>1. Len(h.ran) = n /\ k + Len(stack[r]) <= calls[r] + Len(h.ran)
            BY <3>0, <4>1, <4>4, <5>3
          <6>2. i + Len(below) <= calls'[r] + Len(h.ran)
            <7>1. CASE calls'[r] = calls[r] + 1 /\ Len(below) = Len(stack[r])
              BY <3>0, <6>1, <7>1
            <7>2. CASE calls'[r] = calls[r] /\ Len(below) + 1 = Len(stack[r])
              BY <3>0, <6>1, <7>2
            <7> QED
              BY <4>2, <7>1, <7>2
          <6> QED
            BY <3>0, <4>4, <5>1, <5>3, <6>1, <6>2
        <5> QED
          BY <5>2, <5>3
      <4> QED
        BY <4>3, <4>4
    <3> QED
      BY <3>1, <3>2
  <2>5. OwnInv(r)'
    BY <1>1, <1>2, <1>7, <1>8 DEF OwnInv, c, h
  <2>6. OutcomeInv(r)'
    <3>1. outcome'[r] = "none"
      BY <1>2 DEF OutcomeInv, FreshInv
    <3>2. ~Forwarded(r)' /\ outcome'[r] \notin Responses
      BY <3>1, HandlerAssumption
      DEF Forwarded, Responses, Unforwarded, HandlerAssumption
    <3>3. h.aborted # Nil => Len(history'[r].ran) = history'[r].aborted
      BY <1>2, <1>4, <1>7 DEF OutcomeInv, h
    <3> QED
      BY <1>7, <3>1, <3>2, <3>3 DEF OutcomeInv
  <2> QED
    BY <2>1, <2>2, <2>3, <2>4, <2>5, <2>6 DEF RequestInv
<1> QED
  BY <1>7, <1>8, <1>9

-----------------------------------------------------------------------------
(* The steps before the chain.                                             *)
LEMMA ReadKeeps ==
  ASSUME HandlerInv, NEW r \in Requests, ReadFirst(r) \/ ReadFirstFails(r)
  PROVE  TypeOK' /\ PoolInv' /\ RequestInv(r)'
<1>1. /\ pc[r] = "read" /\ pc'[r] \in {"acquire", "done"}
      /\ TypeOK' /\ UNCHANGED <<pool, ctx, mine, history, calls>>
      /\ pc' = [pc EXCEPT ![r] = pc'[r]]
      /\ outcome'[r] = outcome[r] \/ (pc'[r] = "done" /\ outcome'[r] = "unread")
  BY DEF HandlerInv, TypeOK, ReadFirst, ReadFirstFails, Unforwarded
<1>2. PoolInv'
  BY <1>1 DEF HandlerInv, TypeOK, PoolInv, Held
<1>3. /\ history'[r].ran = <<>> /\ history'[r].aborted = Nil
      /\ history'[r].response = Nil /\ history'[r].backend = Nil
      /\ calls'[r] = 0 /\ outcome'[r] \in {"none", "unread"}
      /\ pc'[r] = "acquire" => outcome'[r] = "none"
      /\ Len(history'[r].ran) = 0 /\ Len(history'[r].found) \in Nat
  BY <1>1, EmptySeq, LenProperties DEF HandlerInv, TypeOK, RequestInv, FreshInv
<1>4. ~Forwarded(r)' /\ outcome'[r] \notin Responses
  BY <1>3, HandlerAssumption
  DEF Forwarded, Responses, Unforwarded, HandlerAssumption
<1> QED
  BY <1>1, <1>2, <1>3, <1>4
  DEF RequestInv, SnapshotInv, RanInv, FreshInv, IndexInv, OwnInv, OutcomeInv,
      Held

LEMMA AcquireKeeps ==
  ASSUME HandlerInv, NEW r \in Requests, NEW c \in Contexts,
         AcquireContext(r, c)
  PROVE  TypeOK' /\ PoolInv' /\ RequestInv(r)'
<1> DEFINE last == arrays[Len(arrays)]
           found == IF len = 0 THEN <<>> ELSE SubSeq(last, 1, len)
<1>1. /\ len \in Nat /\ len \in 0..MaxUse /\ Len(arrays) \in Nat /\ MaxUse \in Nat
      /\ len > 0 => /\ Len(arrays) \in 1..Len(arrays) /\ len <= Len(last)
                    /\ Len(last) \in Nat /\ \A i \in 1..len : last[i] \in Slot
  BY HandlerAssumption, ElementOfSeq, LenProperties
  DEF HandlerInv, TypeOK, SliceInv, HandlerAssumption
<1>2. /\ found \in Seq(Slot) /\ Len(found) = len
      /\ \A i \in 1..len : found[i] = last[i]
  <2>1. CASE len = 0
    BY <2>1, EmptySeq
  <2>2. CASE len > 0
    BY <1>1, <2>2, SubSeqProperties
  <2> QED
    BY <1>1, <2>1, <2>2
<1>3. /\ pc[r] = "acquire" /\ c \in pool /\ pool' = pool \ {c}
      /\ mine' = [mine EXCEPT ![r] = c] /\ pc' = [pc EXCEPT ![r] = "start"]
      /\ ctx' = [ctx EXCEPT ![c] = [@ EXCEPT !.array = Len(arrays), !.len = len,
                                             !.index = -1]]
      /\ history' = [history EXCEPT ![r].found = found]
      /\ UNCHANGED <<arrays, len, stack, calls, outcome>>
  BY DEF AcquireContext
<1> HIDE DEF found, last
<1>4. /\ c \in Contexts /\ c # Nil
      /\ mine'[r] = c /\ pc'[r] = "start"
      /\ ctx'[c].array = Len(arrays) /\ ctx'[c].len = len /\ ctx'[c].index = -1
      /\ ctx'[c].response = Nil /\ ctx'[c].backend = Nil
      /\ \A x \in Contexts : x # c => ctx'[x] = ctx[x]
  BY <1>3, HandlerAssumption DEF HandlerInv, TypeOK, PoolInv, HandlerAssumption
<1>5. /\ history'[r].found = found /\ history'[r].ran = history[r].ran
      /\ history'[r].response = history[r].response
      /\ history'[r].backend = history[r].backend
      /\ history'[r].aborted = history[r].aborted
  BY <1>3 DEF HandlerInv, TypeOK
<1>6. ctx' \in [Contexts -> [array : Slot, len : 0..MaxUse, index : Int,
                            response : Responses \cup {Nil},
                            backend : Backends \cup {Nil}]]
  <2> DEFINE new == [ctx[c] EXCEPT !.array = Len(arrays), !.len = len,
                                   !.index = -1]
  <2>1. new \in [array : Slot, len : 0..MaxUse, index : Int,
                 response : Responses \cup {Nil}, backend : Backends \cup {Nil}]
    <3> DEFINE old == ctx[c]
    <3>1. old \in [array : Slot, len : 0..MaxUse, index : Int,
                   response : Responses \cup {Nil}, backend : Backends \cup {Nil}]
      BY DEF HandlerInv, TypeOK
    <3>2. Len(arrays) \in Slot /\ len \in 0..MaxUse /\ -1 \in Int
      BY <1>1 DEF Slot
    <3> HIDE DEF old
    <3>3. new = [old EXCEPT !.array = Len(arrays), !.len = len, !.index = -1]
      BY DEF old
    <3> HIDE DEF new
    <3>4. new = [array |-> Len(arrays), len |-> len, index |-> -1,
                 response |-> old.response, backend |-> old.backend]
      BY <3>1, <3>3
    <3> QED
      BY <3>1, <3>2, <3>4
  <2>2. ctx' = [ctx EXCEPT ![c] = new]
    BY <1>3
  <2> HIDE DEF new
  <2> QED
    BY <2>1, <2>2 DEF HandlerInv, TypeOK
<1>7. TypeOK'
  <2>1. history' \in [Requests -> [found : Seq(Slot), ran : Seq(Slot),
                                  response : Responses \cup {Nil},
                                  backend : Backends \cup {Nil},
                                  aborted : Nat \cup {Nil}]]
    BY <1>2, <1>3 DEF HandlerInv, TypeOK
  <2>2. /\ pool' \subseteq Contexts /\ mine' \in [Requests -> Contexts \cup {Nil}]
        /\ pc' \in [Requests -> {"read", "acquire", "done"} \cup Held]
    BY <1>3 DEF HandlerInv, TypeOK, Held
  <2> QED
    BY <1>3, <1>6, <2>1, <2>2 DEF HandlerInv, TypeOK
<1>8. PoolInv'
  BY <1>3, <1>4 DEF HandlerInv, TypeOK, PoolInv, Held
<1>9. /\ history[r].ran = <<>> /\ Len(history[r].ran) = 0
      /\ history[r].aborted = Nil /\ history[r].response = Nil
      /\ history[r].backend = Nil /\ calls[r] = 0 /\ outcome[r] = "none"
  BY <1>3, EmptySeq DEF HandlerInv, RequestInv, FreshInv
<1>10. SnapshotInv(r)'
  BY <1>1, <1>2, <1>3, <1>4, <1>5 DEF SnapshotInv, last
<1>11. RanInv(r)' /\ FreshInv(r)' /\ IndexInv(r)' /\ OwnInv(r)'
  BY <1>1, <1>2, <1>3, <1>4, <1>5, <1>9 DEF RanInv, FreshInv, IndexInv, OwnInv
<1>12. OutcomeInv(r)'
  <2>1. outcome'[r] = "none"
    BY <1>3, <1>9
  <2>2. ~Forwarded(r)' /\ outcome'[r] \notin Responses
    BY <2>1, HandlerAssumption
    DEF Forwarded, Responses, Unforwarded, HandlerAssumption
  <2> QED
    BY <1>5, <1>9, <2>1, <2>2 DEF OutcomeInv
<1> QED
  BY <1>7, <1>8, <1>10, <1>11, <1>12 DEF RequestInv

-----------------------------------------------------------------------------
(* The steps of the chain.                                                 *)
LEMMA RoundsKeep ==
  ASSUME HandlerInv, NEW r \in Requests,
         StartChain(r) \/ CallNext(r) \/ HandleReturns(r)
  PROVE  TypeOK' /\ PoolInv' /\ RequestInv(r)'
<1> USE DEF HandlerInv
<1>1. /\ ctx[mine[r]].index + 1 \in Int
      /\ stack[r] \in Seq(Slot) /\ <<>> \in Seq(Slot)
      /\ stack[r] # <<>> => Len(stack[r]) \in Nat \ {0}
  <2>1. mine[r] \in Contexts
    BY DEF PoolInv, TypeOK, Held, StartChain, CallNext, HandleReturns, Calling,
           Running
  <2> QED
    BY <2>1, EmptySeq DEF TypeOK
<1>2. /\ pc' \in [Requests -> {"read", "acquire", "done"} \cup Held]
      /\ calls' \in [Requests -> 0..MaxCalls]
      /\ pc[r] \in {"start", "chain"} /\ pc' = [pc EXCEPT ![r] = "chain"]
      /\ pc'[r] = "chain"
      /\ calls'[r] \in Nat
      /\ UNCHANGED <<arrays, len, pool, mine, outcome>>
  <2> USE DEF TypeOK, Held
  <2>1. calls[r] \in 0..MaxCalls /\ MaxCalls \in Nat
    BY HandlerAssumption DEF HandlerAssumption
  <2>2. CASE StartChain(r)
    BY <2>1, <2>2 DEF StartChain
  <2>3. CASE CallNext(r)
    <3>1. /\ calls[r] + 1 \in 0..MaxCalls /\ calls' = [calls EXCEPT ![r] = @ + 1]
      BY <2>1, <2>3 DEF CallNext, Calling
    <3> QED
      BY <2>1, <2>3, <3>1 DEF CallNext, Calling, Running
  <2>4. CASE HandleReturns(r)
    BY <2>1, <2>4 DEF HandleReturns, Running
  <2> QED
    BY <2>2, <2>3, <2>4
<1>3. PICK below \in Seq(Slot) :
        /\ Round(r, ctx[mine[r]].index + 1, below)
        /\ \/ pc[r] = "start" /\ below = <<>>
           \/ pc[r] = "chain" /\ calls'[r] = calls[r] + 1 /\ below = stack[r]
                              /\ stack[r] # <<>>
           \/ /\ pc[r] = "chain" /\ calls'[r] = calls[r]
              /\ Len(below) + 1 = Len(stack[r])
  <2>1. CASE StartChain(r)
    BY <1>1, <2>1 DEF StartChain
  <2>2. CASE CallNext(r)
    BY <1>1, <2>2 DEF CallNext, Calling, Running, TypeOK
  <2>3. CASE HandleReturns(r)
    <3> DEFINE below == SubSeq(stack[r], 1, Len(stack[r]) - 1)
    <3>1. /\ Round(r, ctx[mine[r]].index + 1, below) /\ stack[r] # <<>>
          /\ pc[r] = "chain" /\ calls'[r] = calls[r]
      BY <2>3 DEF HandleReturns, Running
    <3>2. \A i \in 1..(Len(stack[r]) - 1) : stack[r][i] \in Slot
      BY <1>1, <3>1, ElementOfSeq
    <3>3. below \in Seq(Slot) /\ Len(below) = Len(stack[r]) - 1
      BY <1>1, <3>1, <3>2, SubSeqProperties
    <3> HIDE DEF below
    <3>4. Len(below) + 1 = Len(stack[r])
      BY <1>1, <3>1, <3>3
    <3> QED
      BY <3>1, <3>3, <3>4
  <2> QED
    BY <2>1, <2>2, <2>3
<1>4. /\ ctx' \in [Contexts -> [array : Slot, len : 0..MaxUse, index : Int,
                              response : Responses \cup {Nil},
                              backend : Backends \cup {Nil}]]
      /\ stack' \in [Requests -> Seq(Slot)]
      /\ history' \in [Requests ->
             [found : Seq(Slot), ran : Seq(Slot),
              response : Responses \cup {Nil}, backend : Backends \cup {Nil},
              aborted : Nat \cup {Nil}]]
      /\ \A c \in Contexts : /\ ctx'[c].response = ctx[c].response
                             /\ ctx'[c].backend = ctx[c].backend
      /\ RequestInv(r)'
  BY <1>1, <1>2, <1>3, RoundKeeps
<1>5. TypeOK'
  BY <1>2, <1>4 DEF TypeOK
<1>6. PoolInv'
  BY <1>2, <1>4 DEF PoolInv, TypeOK, Held
<1> QED
  BY <1>4, <1>5, <1>6

LEMMA CallsKeep ==
  ASSUME HandlerInv, NEW r \in Requests,
         \/ \E response \in Responses \cup {Nil} : Abort(r, response)
         \/ \E b \in Backends : SetBackend(r, b)
  PROVE  TypeOK' /\ PoolInv' /\ RequestInv(r)'
<1> DEFINE c == mine[r]
           x == ctx[c]
           h == history[r]
<1> USE DEF HandlerInv
<1>1. /\ pc[r] = "chain" /\ stack[r] # <<>> /\ c \in Contexts /\ c \notin pool
      /\ calls' = [calls EXCEPT ![r] = @ + 1] /\ calls[r] < MaxCalls
      /\ UNCHANGED <<arrays, len, pool, pc, mine, outcome, stack>>
  <2>1. pc[r] = "chain" /\ stack[r] # <<>>
    BY DEF Abort, SetBackend, Calling, Running
  <2> QED
    BY <2>1 DEF Abort, SetBackend, Calling, TypeOK, PoolInv, Held
<1>2. calls' \in [Requests -> 0..MaxCalls] /\ calls[r] \in Nat /\ calls'[r] \in Nat
  BY <1>1, HandlerAssumption DEF TypeOK, HandlerAssumption
<1>3. /\ x \in [array : Slot, len : 0..MaxUse, index : Int,
                response : Responses \cup {Nil}, backend : Backends \cup {Nil}]
      /\ h \in [found : Seq(Slot), ran : Seq(Slot),
                response : Responses \cup {Nil}, backend : Backends \cup {Nil},
                aborted : Nat \cup {Nil}]
      /\ Len(h.ran) \in Nat /\ Len(h.found) \in Nat
  BY <1>1, LenProperties DEF TypeOK
<1>4. /\ SnapshotInv(r) /\ RanInv(r) /\ IndexInv(r) /\ OwnInv(r) /\ OutcomeInv(r)
      /\ outcome[r] = "none"
  <2>1. RequestInv(r)
    OBVIOUS
  <2> QED
    BY <1>1, <2>1 DEF RequestInv, OutcomeInv
<1>5. /\ AbortIndex \in Nat /\ x.len < AbortIndex /\ Nil \notin Nat
  BY <1>3, HandlerAssumption DEF HandlerAssumption
<1> DEFINE Result(x2, h2) ==
        /\ ctx' = [ctx EXCEPT ![c] = x2] /\ history' = [history EXCEPT ![r] = h2]
        /\ x2 \in [array : Slot, len : 0..MaxUse, index : Int,
                   response : Responses \cup {Nil}, backend : Backends \cup {Nil}]
        /\ h2 \in [found : Seq(Slot), ran : Seq(Slot),
                   response : Responses \cup {Nil},
                   backend : Backends \cup {Nil}, aborted : Nat \cup {Nil}]
        /\ x2.array = x.array /\ x2.len = x.len
        /\ h2.found = h.found /\ h2.ran = h.ran
        /\ x2.response = h2.response /\ x2.backend = h2.backend
        /\ \/ x2.index = x.index /\ h2.aborted = h.aborted
           \/ /\ x2.index = AbortIndex
              /\ h2.aborted = IF h.aborted = Nil THEN Len(h.ran) ELSE h.aborted
<1>6. \E x2, h2 : Result(x2, h2)
  <2>1. x.response = h.response /\ x.backend = h.backend
    BY <1>1, <1>4 DEF OwnInv, Held
  <2>2. ASSUME NEW response \in Responses \cup {Nil}, Abort(r, response)
        PROVE  \E x2, h2 : Result(x2, h2)
    <3> DEFINE told == IF response = Nil THEN x.response ELSE response
               when == IF h.aborted = Nil THEN Len(h.ran) ELSE h.aborted
               x2 == [x EXCEPT !.index = AbortIndex, !.response = told]
               h2 == [h EXCEPT !.response = told, !.aborted = when]
    <3>1. /\ ctx' = [ctx EXCEPT ![c] = x2] /\ history' = [history EXCEPT ![r] = h2]
      <4>1. ctx' = [ctx EXCEPT ![c] = x2]
        BY <2>2 DEF Abort
      <4>2. history' = [history EXCEPT ![r] =
                [h EXCEPT !.response = IF response = Nil THEN h.response
                                       ELSE response,
                          !.aborted = when]]
        BY <2>2 DEF Abort
      <4>3. told = IF response = Nil THEN h.response ELSE response
        BY <2>1
      <4> QED
        BY <4>1, <4>2, <4>3
    <3>2. told \in Responses \cup {Nil} /\ when \in Nat \cup {Nil}
      BY <1>3
    <3> HIDE DEF x, h, told, when
    <3>3. /\ x2 = [array |-> x.array, len |-> x.len, index |-> AbortIndex,
                   response |-> told, backend |-> x.backend]
          /\ h2 = [found |-> h.found, ran |-> h.ran, response |-> told,
                   backend |-> h.backend, aborted |-> when]
      <4>1. /\ x2 = [x EXCEPT !.index = AbortIndex, !.response = told]
            /\ h2 = [h EXCEPT !.response = told, !.aborted = when]
        OBVIOUS
      <4>2. x \in [array : Slot, len : 0..MaxUse, index : Int,
                   response : Responses \cup {Nil}, backend : Backends \cup {Nil}]
        BY <1>3
      <4>3. h \in [found : Seq(Slot), ran : Seq(Slot),
                   response : Responses \cup {Nil},
                   backend : Backends \cup {Nil}, aborted : Nat \cup {Nil}]
        BY <1>3
      <4> HIDE DEF x2, h2
      <4>4. x2 = [array |-> x.array, len |-> x.len, index |-> AbortIndex,
                  response |-> told, backend |-> x.backend]
        BY <4>1, <4>2
      <4>5. h2 = [found |-> h.found, ran |-> h.ran, response |-> told,
                  backend |-> h.backend, aborted |-> when]
        BY <4>1, <4>3
      <4> QED
        BY <4>4, <4>5
    <3> HIDE DEF x2, h2
    <3>4. /\ x2 \in [array : Slot, len : 0..MaxUse, index : Int,
                     response : Responses \cup {Nil},
                     backend : Backends \cup {Nil}]
          /\ h2 \in [found : Seq(Slot), ran : Seq(Slot),
                     response : Responses \cup {Nil},
                     backend : Backends \cup {Nil}, aborted : Nat \cup {Nil}]
      BY <1>3, <1>5, <3>2, <3>3
    <3>5. Result(x2, h2)
      BY <2>1, <3>1, <3>3, <3>4 DEF when
    <3> QED
      BY <3>5
  <2>3. ASSUME NEW b \in Backends, SetBackend(r, b)
        PROVE  \E x2, h2 : Result(x2, h2)
    <3> DEFINE x2 == [x EXCEPT !.backend = b]
               h2 == [h EXCEPT !.backend = b]
    <3>1. /\ ctx' = [ctx EXCEPT ![c] = x2] /\ history' = [history EXCEPT ![r] = h2]
      BY <2>3 DEF SetBackend
    <3> HIDE DEF x, h
    <3>2. Result(x2, h2)
      BY <1>3, <2>1, <3>1
    <3> QED
      BY <3>2
  <2> QED
    BY <2>2, <2>3
<1>7. PICK x2, h2 : Result(x2, h2)
  BY <1>6
<1>8. TypeOK'
  BY <1>1, <1>2, <1>7 DEF TypeOK
<1>9. PoolInv'
  BY <1>1, <1>7 DEF TypeOK, PoolInv, Held
<1>10. /\ ctx'[c] = x2 /\ history'[r] = h2 /\ mine'[r] = c /\ pc'[r] = "chain"
       /\ stack'[r] # <<>> /\ outcome'[r] = "none"
       /\ calls'[r] >= calls[r] /\ stack'[r] = stack[r]
  BY <1>1, <1>2, <1>4, <1>7 DEF TypeOK
<1>11. SnapshotInv(r)' /\ RanInv(r)' /\ OwnInv(r)' /\ FreshInv(r)'
  <2>1. SnapshotInv(r)'
    BY <1>1, <1>4, <1>7, <1>10 DEF SnapshotInv, Held
  <2>2. RanInv(r)' /\ OwnInv(r)' /\ FreshInv(r)'
    BY <1>4, <1>7, <1>10 DEF RanInv, OwnInv, FreshInv
  <2> QED
    BY <2>1, <2>2
<1>12. IndexInv(r)'
  <2>1. /\ h.aborted = Nil =>
             /\ x.index >= 0
             /\ x.index + Len(stack[r]) <= calls[r] + Len(h.ran)
             /\ Len(h.ran) = IF x.index < x.len THEN x.index + 1 ELSE x.len
        /\ h.aborted # Nil => x.index >= AbortIndex
    BY <1>1, <1>4 DEF IndexInv
  <2>2. Len(stack[r]) \in Nat /\ x.index \in Int /\ x.len \in Nat
    BY <1>3, LenProperties DEF TypeOK
  <2>3. SUFFICES
          /\ h2.aborted = Nil =>
               /\ x2.index >= 0
               /\ x2.index + Len(stack[r]) <= calls'[r] + Len(h2.ran)
               /\ Len(h2.ran) = IF x2.index < x2.len THEN x2.index + 1 ELSE x2.len
          /\ h2.aborted # Nil => x2.index >= AbortIndex
    BY <1>10 DEF IndexInv
  <2> HIDE DEF x, h, c
  <2>4. CASE x2.index = x.index /\ h2.aborted = h.aborted
    <3>1. h2.aborted = Nil => x.index + Len(stack[r]) <= calls'[r] + Len(h.ran)
      BY <1>2, <1>3, <1>10, <2>1, <2>2, <2>4
    <3> QED
      BY <1>7, <2>1, <2>4, <3>1
  <2>5. CASE /\ x2.index = AbortIndex
             /\ h2.aborted = IF h.aborted = Nil THEN Len(h.ran) ELSE h.aborted
    <3>1. h2.aborted # Nil
      BY <1>3, <1>5, <2>5
    <3> QED
      BY <1>5, <2>5, <3>1
  <2> QED
    BY <1>7, <2>4, <2>5
<1>13. OutcomeInv(r)'
  <2>1. ~Forwarded(r)' /\ outcome'[r] \notin Responses
    BY <1>10, HandlerAssumption
    DEF Forwarded, Responses, Unforwarded, HandlerAssumption
  <2> QED
    BY <1>4, <1>7, <1>10, <2>1 DEF OutcomeInv
<1> QED
  BY <1>8, <1>9, <1>11, <1>12, <1>13 DEF RequestInv

-----------------------------------------------------------------------------
(* The end of the request.                                                 *)

(* The handler keeps the Context until it returns, and then resets it.     *)
LEMMA ReleaseKeeps ==
  ASSUME HandlerInv, NEW r \in Requests, pc[r] \in Held, ReleaseContext(r),
         outcome'[r] \in Backends \cup {Default} \cup Responses \cup Unforwarded,
         outcome' = [outcome EXCEPT ![r] = outcome'[r]],
         OutcomeInv(r)'
  PROVE  TypeOK' /\ PoolInv' /\ RequestInv(r)'
<1> USE DEF HandlerInv
<1>1. /\ mine[r] \in Contexts
      /\ ctx' = [ctx EXCEPT ![mine[r]] = Blank] /\ pool' = pool \cup {mine[r]}
      /\ mine' = [mine EXCEPT ![r] = Nil] /\ pc' = [pc EXCEPT ![r] = "done"]
      /\ UNCHANGED <<arrays, len, stack, calls, history>>
  BY DEF ReleaseContext, reset, PoolInv, TypeOK
<1>2. /\ Blank \in [array : Slot, len : 0..MaxUse, index : Int,
                    response : Responses \cup {Nil},
                    backend : Backends \cup {Nil}]
      /\ Blank.response = Nil /\ Blank.backend = Nil
  BY HandlerAssumption DEF Blank, Slot, HandlerAssumption
<1>3. TypeOK'
  BY <1>1, <1>2 DEF TypeOK
<1>4. PoolInv'
  BY <1>1, <1>2, HandlerAssumption DEF TypeOK, PoolInv, Held, HandlerAssumption
<1>5. RequestInv(r)'
  BY <1>1
  DEF TypeOK, RequestInv, SnapshotInv, RanInv, FreshInv, IndexInv, OwnInv, Held
<1> QED
  BY <1>3, <1>4, <1>5

(* handleAborted answers with what is in the Context, which is its own.    *)
LEMMA AbortedKeeps ==
  ASSUME HandlerInv, NEW r \in Requests,
         handleAborted(r) \/ SendResponseFails(r)
  PROVE  TypeOK' /\ PoolInv' /\ RequestInv(r)'
<1> USE DEF HandlerInv
<1>1. /\ pc[r] = "chain" /\ mine[r] \in Contexts
      /\ ReleaseContext(r) /\ UNCHANGED history
  BY DEF handleAborted, SendResponseFails, ChainDone, ReleaseContext, TypeOK,
         PoolInv, Held
<1>2. /\ RequestInv(r)
      /\ ctx[mine[r]].response \in Responses \cup {Nil}
      /\ ctx[mine[r]].response = history[r].response
  BY <1>1 DEF TypeOK, RequestInv, OwnInv, Held
<1>3. /\ outcome'[r] \in Responses \cup {"internal"}
      /\ outcome'[r] \in Responses => outcome'[r] = history[r].response
      /\ outcome' = [outcome EXCEPT ![r] = outcome'[r]]
  BY <1>1, <1>2
  DEF handleAborted, SendResponseFails, TypeOK, Responses
<1>4. ~Forwarded(r)'
  BY <1>3, HandlerAssumption DEF Forwarded, Unforwarded, HandlerAssumption
<1>5. OutcomeInv(r)'
  BY <1>1, <1>2, <1>3, <1>4
  DEF RequestInv, OutcomeInv, ReleaseContext, TypeOK
<1> QED
  BY <1>1, <1>3, <1>5, ReleaseKeeps DEF Held, Unforwarded

(* The chain is at its end when Forward is called.                         *)
LEMMA ForwardKeeps ==
  ASSUME HandlerInv, NEW r \in Requests, CallForward(r)
  PROVE  TypeOK' /\ PoolInv' /\ RequestInv(r)'
<1> DEFINE x == ctx[mine[r]]
           h == history[r]
<1> USE DEF HandlerInv
<1>1. /\ pc[r] = "chain" /\ stack[r] = <<>> /\ mine[r] \in Contexts
      /\ x.index < AbortIndex /\ pc' = [pc EXCEPT ![r] = "forward"]
      /\ outcome' = [outcome EXCEPT ![r] = IF x.backend = Nil THEN Default
                                           ELSE x.backend]
      /\ UNCHANGED <<arrays, len, pool, ctx, mine, stack, calls, history>>
  <2>1. pc[r] = "chain" /\ mine[r] \in Contexts
    BY DEF CallForward, ChainDone, TypeOK, PoolInv, Held
  <2>2. x.index \in Int /\ AbortIndex \in Nat
    BY <2>1, HandlerAssumption DEF TypeOK, HandlerAssumption
  <2> QED
    BY <2>1, <2>2 DEF CallForward, ChainDone, IsAborted
<1>2. RequestInv(r) /\ x.backend \in Backends \cup {Nil}
  BY <1>1 DEF TypeOK
<1>3. TypeOK' /\ PoolInv'
  BY <1>1, <1>2 DEF TypeOK, PoolInv, Held
<1>4. h.aborted = Nil /\ Len(h.ran) = Len(h.found)
  <2>1. x.index \in Int /\ AbortIndex \in Nat /\ x.len \in Nat
    BY <1>1, HandlerAssumption DEF TypeOK, HandlerAssumption
  <2>2. /\ h.aborted = Nil =>
             Len(h.ran) = IF x.index < x.len THEN x.index + 1 ELSE x.len
        /\ h.aborted # Nil => x.index >= AbortIndex
        /\ x.index >= x.len /\ Len(h.found) = x.len
    BY <1>1, <1>2 DEF RequestInv, IndexInv, SnapshotInv, Held
  <2> QED
    BY <1>1, <2>1, <2>2
<1>5. /\ outcome'[r] = IF h.backend = Nil THEN Default ELSE h.backend
      /\ outcome'[r] \in Backends \cup {Default}
  BY <1>1, <1>2 DEF TypeOK, RequestInv, OwnInv, Held
<1>6. OutcomeInv(r)'
  BY <1>1, <1>4, <1>5, HandlerAssumption
  DEF TypeOK, OutcomeInv, HandlerAssumption
<1>7. SnapshotInv(r)' /\ RanInv(r)' /\ FreshInv(r)' /\ IndexInv(r)' /\ OwnInv(r)'
  BY <1>1, <1>2
  DEF TypeOK, RequestInv, SnapshotInv, RanInv, FreshInv, IndexInv, OwnInv, Held
<1> QED
  BY <1>3, <1>6, <1>7 DEF RequestInv

LEMMA ForwardReturnsKeeps ==
  ASSUME HandlerInv, NEW r \in Requests, ForwardReturns(r)
  PROVE  TypeOK' /\ PoolInv' /\ RequestInv(r)'
<1> USE DEF HandlerInv
<1>1. /\ pc[r] = "forward" /\ ReleaseContext(r) /\ UNCHANGED <<outcome, history>>
      /\ pc' = [pc EXCEPT ![r] = "done"]
  BY DEF ForwardReturns, ReleaseContext
<1>2. OutcomeInv(r)'
  BY <1>1 DEF RequestInv, OutcomeInv, Forwarded, TypeOK
<1>3. /\ outcome' = [outcome EXCEPT ![r] = outcome'[r]]
      /\ outcome'[r] \in Backends \cup {Default} \cup Responses \cup Unforwarded
  BY <1>1 DEF TypeOK
<1> QED
  BY <1>1, <1>2, <1>3, ReleaseKeeps DEF Held

-----------------------------------------------------------------------------
(* The invariant and what follows from it.                                 *)

LEMMA HandlerStep ==
  ASSUME HandlerInv, [Next]_vars
  PROVE  HandlerInv'
<1>1. CASE Use
  BY <1>1, UseKeeps
<1>2. ASSUME NEW r \in Requests, RequestStep(r)
      PROVE  HandlerInv'
  <2>1. TypeOK' /\ PoolInv' /\ RequestInv(r)'
    <3>1. ASSUME NEW c \in Contexts, AcquireContext(r, c)
          PROVE  TypeOK' /\ PoolInv' /\ RequestInv(r)'
      BY <3>1, AcquireKeeps
    <3>2. CASE ReadFirst(r) \/ ReadFirstFails(r)
      BY <3>2, ReadKeeps
    <3>3. CASE StartChain(r) \/ CallNext(r) \/ HandleReturns(r)
      BY <3>3, RoundsKeep
    <3>4. CASE \/ \E response \in Responses \cup {Nil} : Abort(r, response)
               \/ \E b \in Backends : SetBackend(r, b)
      BY <3>4, CallsKeep
    <3>5. CASE handleAborted(r) \/ SendResponseFails(r)
      BY <3>5, AbortedKeeps
    <3>6. CASE CallForward(r)
      BY <3>6, ForwardKeeps
    <3>7. CASE ForwardReturns(r)
      BY <3>7, ForwardReturnsKeeps
    <3> QED
      BY <1>2, <3>1, <3>2, <3>3, <3>4, <3>5, <3>6, <3>7 DEF RequestStep
  <2>2. UNCHANGED <<arrays, len>>
    BY <1>2
    DEF RequestStep, ReadFirst, ReadFirstFails, AcquireContext, StartChain,
        CallNext, HandleReturns, Calling, Abort, SetBackend, handleAborted,
        SendResponseFails, CallForward, ForwardReturns, ReleaseContext
  <2>3. SliceInv'
    BY <2>2 DEF HandlerInv, SliceInv
  <2>4. ASSUME NEW s \in Requests, s # r PROVE RequestInv(s)'
    BY <1>2, <2>4, OthersKept DEF HandlerInv
  <2> QED
    BY <2>1, <2>3, <2>4 DEF HandlerInv
<1>3. CASE UNCHANGED vars
  BY <1>3
  DEF vars, HandlerInv, TypeOK, SliceInv, PoolInv, RequestInv, SnapshotInv,
      RanInv, FreshInv, IndexInv, OwnInv, OutcomeInv, Forwarded
<1> QED
  BY <1>1, <1>2, <1>3 DEF Next

LEMMA HandlerInvariant == Spec => []HandlerInv
<1> QED
  BY HandlerInit, HandlerStep, PTL DEF Spec

LEMMA HandlerSafe == HandlerInv => ChainInOrder /\ AbortHolds /\ OwnOutcome
<1> SUFFICES ASSUME HandlerInv PROVE ChainInOrder /\ AbortHolds /\ OwnOutcome
  OBVIOUS
<1>1. ASSUME NEW r \in Requests
      PROVE  /\ history[r].ran = SubSeq(history[r].found, 1, Len(history[r].ran))
             /\ Len(history[r].ran) = Len(history[r].found)
                  => history[r].ran = history[r].found
             /\ OutcomeInv(r)
  BY RanIsPrefix DEF HandlerInv, RequestInv
<1>2. ChainInOrder
  BY <1>1 DEF ChainInOrder
<1>3. AbortHolds
  BY <1>1 DEF AbortHolds, OutcomeInv
<1>4. OwnOutcome
  BY <1>1 DEF OwnOutcome, OutcomeInv
<1> QED
  BY <1>2, <1>3, <1>4

(* Middlewares run in the order of the chain that a request found,         *)
(* whatever Use appends to its array (server.go, snapshotMiddlewares).     *)
THEOREM ChainOrder == Spec => []ChainInOrder
<1> QED
  BY HandlerInvariant, HandlerSafe, PTL

(* A request that was aborted is not forwarded and runs no more of its     *)
(* chain; one that is forwarded has run all of it (context.go, Next).      *)
THEOREM AbortIsFinal == Spec => []AbortHolds
<1> QED
  BY HandlerInvariant, HandlerSafe, PTL

(* A pooled Context hands nothing from one request to the next (pool.go).  *)
THEOREM ContextsIsolated == Spec => []OwnOutcome
<1> QED
  BY HandlerInvariant, HandlerSafe, PTL
=============================================================================

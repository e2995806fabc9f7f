--------------------------- MODULE FrameRefsProofs ---------------------------
(***************************************************************************)
(* RefExact, BytesIntact and NoLeak for any number of buffers and messages *)
(* and any depth of gRPC's write queue.                                    *)
(*                                                                         *)
(* Every step adds one reference, drops one, moves one from a SendMsg to   *)
(* the queue, or leaves all as they are; four lemmas say what each does to *)
(* the counts.  The invariant adds what a Frame may hold at each point of  *)
(* its goroutine, and that no message is queued while it is still to be    *)
(* sent, as the count would otherwise take two references for one.         *)
(***************************************************************************)
EXTENDS FrameRefs, FiniteSetTheorems, TLAPS

TypeOK ==
  /\ refs \in [Bufs -> Int]
  /\ content \in [Bufs -> 0..MaxMsgs]
  /\ count \in 0..MaxMsgs
  /\ pc \in [Frames -> {"idle", "recv", "arrived", "decoded", "have", "chain",
                        "sending", "sent", "failed", "waiting", "exit", "done"}]
  /\ frame \in [Frames -> Slices \cup {Empty}]
  /\ arrived \in [Frames -> Slices \cup {Empty}]
  /\ queue \in [Frames -> SUBSET Slices]

(* Where a Frame and a receiver hold a message, and where they hold none.  *)
FrameInv ==
  \A f \in Frames :
    /\ pc[f] \in {"idle", "recv", "arrived", "done"} => frame[f] = Empty
    /\ pc[f] \in {"have", "sending", "sent", "failed"} => frame[f] # Empty
    /\ arrived[f] # Empty <=> pc[f] \in {"arrived", "decoded"}
    /\ pc[f] = "decoded" => frame[f] = arrived[f]

(* Messages have arrived, and are queued only once they were sent.         *)
QueueInv ==
  \A f \in Frames :
    /\ \A s \in queue[f] \cup {frame[f], arrived[f]} : s.msg <= count
    /\ arrived[f] \notin queue[f]
    /\ pc[f] \in {"have", "chain", "sending"} => frame[f] \notin queue[f]

(* Whoever refers to a buffer finds its own message in it.                 *)
ContentInv ==
  \A role \in Roles, f \in Frames, s \in Slices :
    Refers(role, f, s) => content[s.buf] = s.msg

(* The first message is the handler's, and the pumps start behind it.      *)
FirstInv ==
  /\ pc["first"] = "recv" => count = 0
  /\ pc["first"] \notin {"waiting", "exit", "done"}
       => pc["first"] # "idle" /\ pc["up"] = "idle" /\ pc["down"] = "idle"
  /\ arrived["first"] # Empty => arrived["first"].msg = 1
  /\ frame["first"] # Empty => frame["first"].msg = 1
  /\ payload # Empty => payload = [buf |-> Nil, msg |-> 1]

FrameRefsInv ==
  TypeOK /\ RefExact /\ FrameInv /\ QueueInv /\ ContentInv /\ FirstInv

-----------------------------------------------------------------------------
(* References and their number.                                            *)

LEMMA OwnersFinite == \A b : IsFiniteSet(Owners(b))
<1>1. IsFiniteSet(Roles) /\ IsFiniteSet(Frames)
  <2>1. Roles = ((({} \cup {"arrived"}) \cup {"frame"}) \cup {"sending"}) \cup {"queue"}
    BY DEF Roles
  <2>2. Frames = (({} \cup {"first"}) \cup {"up"}) \cup {"down"}
    BY DEF Frames
  <2> QED
    BY <2>1, <2>2, FS_EmptySet, FS_AddElement
<1>2. IsFiniteSet(1..MaxMsgs)
  BY FS_Interval, FrameAssumption DEF FrameAssumption
<1>3. IsFiniteSet((Roles \X Frames) \X (1..MaxMsgs))
  BY <1>1, <1>2, FS_Product
<1>4. \A b : Owners(b) \subseteq (Roles \X Frames) \X (1..MaxMsgs)
  BY DEF Owners
<1> QED
  BY <1>3, <1>4, FS_Subset

(* A slice and the reference to it, as an element of Owners.               *)
LEMMA OwnerOf ==
  ASSUME NEW role \in Roles, NEW f \in Frames, NEW s \in Slices
  PROVE  /\ s.buf \in Bufs /\ s.msg \in 1..MaxMsgs
         /\ s = [buf |-> s.buf, msg |-> s.msg]
         /\ <<<<role, f>>, s.msg>> \in Owners(s.buf) <=> Refers(role, f, s)
<1>1. s.buf \in Bufs /\ s.msg \in 1..MaxMsgs /\ s = [buf |-> s.buf, msg |-> s.msg]
  BY DEF Slices
<1>2. <<<<role, f>>, s.msg>> \in Owners(s.buf)
        <=> Refers(role, f, [buf |-> s.buf, msg |-> s.msg])
  BY <1>1 DEF Owners
<1> QED
  BY <1>1, <1>2, Zenon

LEMMA SameOwners ==
  ASSUME NEW b \in Bufs,
         \A q \in Roles, g \in Frames, m \in 1..MaxMsgs :
           Refers(q, g, [buf |-> b, msg |-> m])' <=> Refers(q, g, [buf |-> b, msg |-> m])
  PROVE  Owners(b)' = Owners(b)
BY DEF Owners

(* One more reference ...                                                  *)
LEMMA RefAdded ==
  ASSUME TypeOK, RefExact,
         NEW role \in Roles, NEW f \in Frames, NEW s \in Slices,
         ~Refers(role, f, s), refs' = Ref(refs, s),
         \A q \in Roles, g \in Frames, t \in Slices :
           Refers(q, g, t)' <=> Refers(q, g, t) \/ (q = role /\ g = f /\ t = s)
  PROVE  RefExact' /\ refs' \in [Bufs -> Int]
<1> DEFINE o == <<<<role, f>>, s.msg>>
<1>1. /\ s.buf \in Bufs /\ s.msg \in 1..MaxMsgs
      /\ s = [buf |-> s.buf, msg |-> s.msg] /\ s # Empty
  BY OwnerOf, FrameAssumption DEF Empty, FrameAssumption
<1>2. refs' = [refs EXCEPT ![s.buf] = @ + 1]
  BY <1>1 DEF Ref
<1>3. Owners(s.buf)' = Owners(s.buf) \cup {o} /\ o \notin Owners(s.buf)
  <2>1. o \notin Owners(s.buf)
    BY OwnerOf
  <2>2. \A q \in Roles, g \in Frames, m \in 1..MaxMsgs :
          Refers(q, g, [buf |-> s.buf, msg |-> m])'
            <=> \/ Refers(q, g, [buf |-> s.buf, msg |-> m])
                \/ q = role /\ g = f /\ m = s.msg
    <3>1. TAKE q \in Roles, g \in Frames, m \in 1..MaxMsgs
    <3>2. [buf |-> s.buf, msg |-> m] \in Slices
      BY <1>1 DEF Slices
    <3>3. [buf |-> s.buf, msg |-> m] = s <=> m = s.msg
      BY <1>1
    <3> QED
      BY <3>2, <3>3
  <2> QED
    BY <1>1, <2>1, <2>2 DEF Owners
<1>4. \A b \in Bufs : b # s.buf => Owners(b)' = Owners(b)
  <2>1. SUFFICES ASSUME NEW b \in Bufs, b # s.buf,
                        NEW q \in Roles, NEW g \in Frames, NEW m \in 1..MaxMsgs
                 PROVE  Refers(q, g, [buf |-> b, msg |-> m])'
                          <=> Refers(q, g, [buf |-> b, msg |-> m])
    BY SameOwners
  <2>2. [buf |-> b, msg |-> m] \in Slices /\ [buf |-> b, msg |-> m] # s
    BY <2>1 DEF Slices
  <2> QED
    BY <2>2
<1>5. Cardinality(Owners(s.buf)') = Cardinality(Owners(s.buf)) + 1
  BY <1>3, OwnersFinite, FS_AddElement
<1> QED
  BY <1>1, <1>2, <1>4, <1>5 DEF RefExact, TypeOK

(* ... one less ...                                                        *)
LEMMA RefDropped ==
  ASSUME TypeOK, RefExact,
         NEW role \in Roles, NEW f \in Frames, NEW s \in Slices,
         Refers(role, f, s), refs' = Free(refs, s),
         \A q \in Roles, g \in Frames, t \in Slices :
           Refers(q, g, t)' <=> Refers(q, g, t) /\ ~(q = role /\ g = f /\ t = s)
  PROVE  RefExact' /\ refs' \in [Bufs -> Int]
<1> DEFINE o == <<<<role, f>>, s.msg>>
<1>1. /\ s.buf \in Bufs /\ s.msg \in 1..MaxMsgs
      /\ s = [buf |-> s.buf, msg |-> s.msg] /\ s # Empty
  BY OwnerOf, FrameAssumption DEF Empty, FrameAssumption
<1>2. refs' = [refs EXCEPT ![s.buf] = @ - 1]
  BY <1>1 DEF Free
<1>3. Owners(s.buf)' = Owners(s.buf) \ {o} /\ o \in Owners(s.buf)
  <2>1. o \in Owners(s.buf)
    BY OwnerOf
  <2>2. \A q \in Roles, g \in Frames, m \in 1..MaxMsgs :
          Refers(q, g, [buf |-> s.buf, msg |-> m])'
            <=> /\ Refers(q, g, [buf |-> s.buf, msg |-> m])
                /\ ~(q = role /\ g = f /\ m = s.msg)
    <3>1. TAKE q \in Roles, g \in Frames, m \in 1..MaxMsgs
    <3>2. [buf |-> s.buf, msg |-> m] \in Slices
      BY <1>1 DEF Slices
    <3>3. [buf |-> s.buf, msg |-> m] = s <=> m = s.msg
      BY <1>1
    <3> QED
      BY <3>2, <3>3
  <2> QED
    BY <1>1, <2>1, <2>2 DEF Owners
<1>4. \A b \in Bufs : b # s.buf => Owners(b)' = Owners(b)
  <2>1. SUFFICES ASSUME NEW b \in Bufs, b # s.buf,
                        NEW q \in Roles, NEW g \in Frames, NEW m \in 1..MaxMsgs
                 PROVE  Refers(q, g, [buf |-> b, msg |-> m])'
                          <=> Refers(q, g, [buf |-> b, msg |-> m])
    BY SameOwners
  <2>2. [buf |-> b, msg |-> m] \in Slices /\ [buf |-> b, msg |-> m] # s
    BY <2>1 DEF Slices
  <2> QED
    BY <2>2
<1> HIDE DEF o
<1>5. Cardinality(Owners(s.buf)') = Cardinality(Owners(s.buf)) - 1
  <2>1. IsFiniteSet(Owners(s.buf)) /\ Cardinality(Owners(s.buf)) \in Nat
    BY OwnersFinite, FS_CardinalityType
  <2>2. /\ IsFiniteSet(Owners(s.buf) \ {o})
        /\ Cardinality(Owners(s.buf) \ {o}) = Cardinality(Owners(s.buf)) - 1
    BY <1>3, <2>1, FS_RemoveElement
  <2> QED
    BY <1>3, <2>2
<1> QED
  BY <1>1, <1>2, <1>4, <1>5 DEF RefExact, TypeOK

(* ... the same number ...                                                 *)
LEMMA RefsKept ==
  ASSUME TypeOK, RefExact, refs' = refs,
         \A q \in Roles, g \in Frames, t \in Slices :
           Refers(q, g, t)' <=> Refers(q, g, t)
  PROVE  RefExact' /\ refs' \in [Bufs -> Int]
<1>1. SUFFICES ASSUME NEW b \in Bufs,
                      NEW q \in Roles, NEW g \in Frames, NEW m \in 1..MaxMsgs
               PROVE  Refers(q, g, [buf |-> b, msg |-> m])'
                        <=> Refers(q, g, [buf |-> b, msg |-> m])
  BY SameOwners DEF RefExact, TypeOK
<1>2. [buf |-> b, msg |-> m] \in Slices
  BY <1>1 DEF Slices
<1> QED
  BY <1>2

(* ... and one that passes from SendMsg to the queue.                      *)
LEMMA RefMoved ==
  ASSUME TypeOK, RefExact, refs' = refs,
         NEW f \in Frames, NEW s \in Slices,
         Refers("sending", f, s), ~Refers("queue", f, s),
         \A q \in Roles, g \in Frames, t \in Slices :
           Refers(q, g, t)'
             <=> \/ q = "queue" /\ g = f /\ t = s
                 \/ Refers(q, g, t) /\ ~(q = "sending" /\ g = f /\ t = s)
  PROVE  RefExact' /\ refs' \in [Bufs -> Int]
<1> DEFINE o == <<<<"sending", f>>, s.msg>>
           p == <<<<"queue", f>>, s.msg>>
<1>1. /\ s.buf \in Bufs /\ s.msg \in 1..MaxMsgs
      /\ s = [buf |-> s.buf, msg |-> s.msg]
      /\ "sending" \in Roles /\ "queue" \in Roles
  BY OwnerOf DEF Roles
<1>2. /\ Owners(s.buf)' = (Owners(s.buf) \ {o}) \cup {p}
      /\ o \in Owners(s.buf) /\ p \notin Owners(s.buf)
  <2>1. o \in Owners(s.buf) /\ p \notin Owners(s.buf)
    BY <1>1, OwnerOf
  <2>2. \A q \in Roles, g \in Frames, m \in 1..MaxMsgs :
          Refers(q, g, [buf |-> s.buf, msg |-> m])'
            <=> \/ q = "queue" /\ g = f /\ m = s.msg
                \/ /\ Refers(q, g, [buf |-> s.buf, msg |-> m])
                   /\ ~(q = "sending" /\ g = f /\ m = s.msg)
    <3>1. TAKE q \in Roles, g \in Frames, m \in 1..MaxMsgs
    <3>2. [buf |-> s.buf, msg |-> m] \in Slices
      BY <1>1 DEF Slices
    <3>3. [buf |-> s.buf, msg |-> m] = s <=> m = s.msg
      BY <1>1
    <3> QED
      BY <3>2, <3>3
  <2> QED
    BY <1>1, <2>1, <2>2 DEF Owners
<1>3. \A b \in Bufs : b # s.buf => Owners(b)' = Owners(b)
  <2>1. SUFFICES ASSUME NEW b \in Bufs, b # s.buf,
                        NEW q \in Roles, NEW g \in Frames, NEW m \in 1..MaxMsgs
                 PROVE  Refers(q, g, [buf |-> b, msg |-> m])'
                          <=> Refers(q, g, [buf |-> b, msg |-> m])
    BY SameOwners
  <2>2. [buf |-> b, msg |-> m] \in Slices /\ [buf |-> b, msg |-> m] # s
    BY <2>1 DEF Slices
  <2> QED
    BY <2>2
<1>4. Cardinality(Owners(s.buf)') = Cardinality(Owners(s.buf))
  <2>1. IsFiniteSet(Owners(s.buf)) /\ Cardinality(Owners(s.buf)) \in Nat
    BY OwnersFinite, FS_CardinalityType
  <2>2. /\ IsFiniteSet(Owners(s.buf) \ {o})
        /\ Cardinality(Owners(s.buf) \ {o}) = Cardinality(Owners(s.buf)) - 1
    BY <1>2, <2>1, FS_RemoveElement
  <2>3. Cardinality((Owners(s.buf) \ {o}) \cup {p})
          = Cardinality(Owners(s.buf) \ {o}) + 1
    BY <1>2, <2>2, FS_AddElement
  <2> QED
    BY <1>2, <2>1, <2>2, <2>3
<1> QED
  BY <1>3, <1>4 DEF RefExact, TypeOK

(* A buffer that nobody refers to has a count of zero, and the other way   *)
(* round: gRPC never takes a buffer in use from the pool.                  *)
LEMMA FreeMeansUnused ==
  ASSUME RefExact, NEW b \in Bufs
  PROVE  refs[b] = 0 <=>
           \A role \in Roles, f \in Frames, s \in Slices :
             Refers(role, f, s) => s.buf # b
<1>1. refs[b] = 0 <=> Owners(b) = {}
  BY OwnersFinite, FS_EmptySet DEF RefExact
<1>2. ASSUME Owners(b) = {}, NEW role \in Roles, NEW f \in Frames,
             NEW s \in Slices, Refers(role, f, s)
      PROVE  s.buf # b
  BY <1>2, OwnerOf
<1>3. ASSUME NEW o \in Owners(b)
      PROVE  \E role \in Roles, f \in Frames, s \in Slices :
               Refers(role, f, s) /\ s.buf = b
  <2>1. /\ o[1][1] \in Roles /\ o[1][2] \in Frames /\ o[2] \in 1..MaxMsgs
        /\ Refers(o[1][1], o[1][2], [buf |-> b, msg |-> o[2]])
    BY DEF Owners
  <2>2. /\ [buf |-> b, msg |-> o[2]] \in Slices
        /\ [buf |-> b, msg |-> o[2]].buf = b
    BY <2>1 DEF Slices
  <2> QED
    BY <2>1, <2>2, Zenon
<1> QED
  BY <1>1, <1>2, <1>3

-----------------------------------------------------------------------------
LEMMA EmptyIsNoSlice == Empty \notin Slices
BY FrameAssumption DEF FrameAssumption, Empty, Slices

LEMMA InitInv == Init => FrameRefsInv
<1>1. SUFFICES ASSUME Init PROVE FrameRefsInv
  OBVIOUS
<1> USE FrameAssumption DEF FrameAssumption
<1>2. \A f \in Frames : frame[f] = Empty /\ arrived[f] = Empty /\ queue[f] = {}
  BY <1>1 DEF Init
<1>3. TypeOK /\ FrameInv /\ QueueInv /\ FirstInv
  BY <1>1, <1>2, EmptyIsNoSlice
  DEF Init, TypeOK, FrameInv, QueueInv, FirstInv, Frames, Empty
<1>4. \A role \in Roles, f \in Frames, s \in Slices : ~Refers(role, f, s)
  BY <1>1, <1>2, EmptyIsNoSlice DEF Refers
<1>5. RefExact
  <2>1. \A b \in Bufs : Owners(b) = {}
    <3>1. SUFFICES ASSUME NEW b \in Bufs, NEW o \in Owners(b) PROVE FALSE
      OBVIOUS
    <3>2. /\ o[1][1] \in Roles /\ o[1][2] \in Frames /\ o[2] \in 1..MaxMsgs
          /\ Refers(o[1][1], o[1][2], [buf |-> b, msg |-> o[2]])
      BY DEF Owners
    <3>3. [buf |-> b, msg |-> o[2]] \in Slices
      BY <3>2 DEF Slices
    <3> QED
      BY <1>4, <3>2, <3>3
  <2> QED
    BY <1>1, <2>1, FS_EmptySet DEF Init, RefExact
<1>6. ContentInv
  BY <1>4 DEF ContentInv
<1> QED
  BY <1>3, <1>5, <1>6 DEF FrameRefsInv

(* What a step that neither receives a message nor reuses a buffer does to *)
(* contents: nothing, if nobody gets a slice that nobody had.              *)
LEMMA ContentKept ==
  ASSUME ContentInv, content' = content,
         \A role \in Roles, f \in Frames, s \in Slices :
           Refers(role, f, s)' => \E q \in Roles : Refers(q, f, s)
  PROVE  ContentInv'
BY DEF ContentInv

LEMMA ArriveInv ==
  ASSUME FrameRefsInv, NEW f \in Frames, NEW b \in Bufs, Arrive(f, b)
  PROVE  FrameRefsInv'
<1> USE FrameAssumption DEF FrameAssumption, FrameRefsInv
<1> DEFINE s == [buf |-> b, msg |-> count + 1]
<1>1. /\ pc[f] = "recv" /\ refs[b] = 0 /\ count < MaxMsgs /\ count' = count + 1
      /\ refs' = [refs EXCEPT ![b] = 1] /\ content' = [content EXCEPT ![b] = count + 1]
      /\ arrived' = [arrived EXCEPT ![f] = s] /\ pc' = [pc EXCEPT ![f] = "arrived"]
      /\ UNCHANGED <<frame, queue, payload>>
  BY DEF Arrive, Goto
<1>2. s \in Slices /\ s # Empty /\ s.buf = b /\ s.msg = count + 1
  BY <1>1, EmptyIsNoSlice DEF TypeOK, Slices
<1>3. arrived[f] = Empty /\ frame[f] = Empty
  BY <1>1 DEF FrameInv
<1> HIDE DEF s
<1>4. TypeOK'
  BY <1>1, <1>2 DEF TypeOK
<1>5. "arrived" \in Roles /\ refs' = Ref(refs, s)
  BY <1>1, <1>2 DEF Roles, Ref, TypeOK
<1>6. \A q \in Roles, g \in Frames, t \in Slices :
        Refers(q, g, t)' <=> Refers(q, g, t) \/ (q = "arrived" /\ g = f /\ t = s)
  BY <1>1, <1>3, EmptyIsNoSlice DEF Refers, Roles, TypeOK
<1>7. \A q \in Roles, g \in Frames, t \in Slices : Refers(q, g, t) => t.buf # b
  BY <1>1, FreeMeansUnused
<1>8. RefExact'
  <2>1. ~Refers("arrived", f, s)
    BY <1>2, <1>5, <1>7
  <2> QED
    BY <1>2, <1>5, <1>6, <2>1, RefAdded
<1>9. ContentInv'
  <2>1. SUFFICES ASSUME NEW q \in Roles, NEW g \in Frames, NEW t \in Slices,
                        Refers(q, g, t)'
                 PROVE  content'[t.buf] = t.msg
    BY DEF ContentInv
  <2>2. t.buf \in Bufs
    BY DEF Slices
  <2>3. CASE Refers(q, g, t)
    BY <1>1, <1>7, <2>2, <2>3 DEF ContentInv, TypeOK
  <2>4. CASE t = s
    BY <1>1, <1>2, <2>4 DEF TypeOK
  <2> QED
    BY <1>6, <2>1, <2>3, <2>4
<1>10. FrameInv'
  BY <1>1, <1>2, <1>3 DEF FrameInv, TypeOK
<1>11. QueueInv'
  <2>1. s \notin queue[f]
    <3>1. "queue" \in Roles
      BY DEF Roles
    <3> QED
      BY <1>2, <1>7, <3>1 DEF Refers
  <2>2. \A t \in Slices \cup {Empty} : t.msg \in Int
    BY DEF Slices, Empty
  <2> QED
    BY <1>1, <1>2, <2>1, <2>2 DEF QueueInv, TypeOK
<1>12. FirstInv'
  BY <1>1, <1>2 DEF FirstInv, TypeOK, Frames
<1> QED
  BY <1>4, <1>8, <1>9, <1>10, <1>11, <1>12

(* The Frame takes a reference of its own, and gRPC's goes later.          *)
LEMMA UnmarshalInv ==
  ASSUME FrameRefsInv, NEW f \in Frames, Unmarshal(f)
  PROVE  FrameRefsInv'
<1> USE DEF FrameRefsInv
<1>1. PICK s \in Slices : s = arrived[f]
  BY DEF Unmarshal, FrameInv, TypeOK
<1>2. /\ pc[f] = "arrived" /\ pc' = [pc EXCEPT ![f] = "decoded"]
      /\ frame[f] = Empty /\ frame' = [frame EXCEPT ![f] = s]
      /\ refs' = Ref(refs, s)
      /\ UNCHANGED <<content, count, arrived, queue, payload>>
  BY <1>1 DEF Unmarshal, Goto, FrameInv, Free
<1>3. s # Empty /\ "frame" \in Roles /\ "arrived" \in Roles
  BY EmptyIsNoSlice DEF Roles
<1>4. \A q \in Roles, g \in Frames, t \in Slices :
        Refers(q, g, t)' <=> Refers(q, g, t) \/ (q = "frame" /\ g = f /\ t = s)
  BY <1>2, EmptyIsNoSlice DEF Refers, Roles, TypeOK
<1>5. ~Refers("frame", f, s) /\ Refers("arrived", f, s)
  BY <1>1, <1>2, <1>3 DEF Refers
<1>6. RefExact' /\ refs' \in [Bufs -> Int]
  BY <1>2, <1>3, <1>4, <1>5, RefAdded
<1>7. ContentInv'
  BY <1>2, <1>3, <1>4, <1>5, ContentKept
<1>8. TypeOK' /\ FrameInv'
  BY <1>1, <1>2, <1>3, <1>6 DEF TypeOK, FrameInv
<1>9. QueueInv' /\ FirstInv'
  BY <1>1, <1>2, <1>3 DEF TypeOK, QueueInv, FirstInv, Frames
<1> QED
  BY <1>6, <1>7, <1>8, <1>9

LEMMA RecvReturnsInv ==
  ASSUME FrameRefsInv, NEW f \in Frames, RecvReturns(f)
  PROVE  FrameRefsInv'
<1> USE DEF FrameRefsInv
<1>1. PICK s \in Slices : s = arrived[f]
  BY DEF RecvReturns, FrameInv, TypeOK
<1>2. PICK where \in {"have", "exit"} : pc' = [pc EXCEPT ![f] = where]
  BY DEF RecvReturns, Goto
<1>3. /\ pc[f] = "decoded" /\ frame[f] = s /\ refs' = Free(refs, s)
      /\ arrived' = [arrived EXCEPT ![f] = Empty]
      /\ UNCHANGED <<content, count, frame, queue, payload>>
  BY <1>1 DEF RecvReturns, FrameInv
<1>4. s # Empty /\ "arrived" \in Roles
  BY EmptyIsNoSlice DEF Roles
<1>5. \A q \in Roles, g \in Frames, t \in Slices :
        Refers(q, g, t)' <=> Refers(q, g, t) /\ ~(q = "arrived" /\ g = f /\ t = s)
  BY <1>1, <1>2, <1>3, EmptyIsNoSlice DEF Refers, Roles, TypeOK
<1>6. RefExact' /\ refs' \in [Bufs -> Int]
  <2>1. Refers("arrived", f, s)
    BY <1>1 DEF Refers
  <2> QED
    BY <1>3, <1>4, <1>5, <2>1, RefDropped
<1>7. ContentInv'
  BY <1>3, <1>5, ContentKept
<1>8. TypeOK' /\ FrameInv'
  BY <1>2, <1>3, <1>4, <1>6 DEF TypeOK, FrameInv
<1>9. QueueInv'
  <2>1. Empty.msg <= count
    BY FrameAssumption DEF FrameAssumption, TypeOK, Empty
  <2> QED
    BY <1>1, <1>2, <1>3, <2>1, EmptyIsNoSlice DEF TypeOK, QueueInv
<1>10. FirstInv'
  BY <1>2, <1>3 DEF TypeOK, FirstInv, Frames
<1> QED
  BY <1>6, <1>7, <1>8, <1>9, <1>10

(* gRPC gets a reference for the message it is given ...                   *)
LEMMA MarshalInv ==
  ASSUME FrameRefsInv, NEW f \in Frames, Marshal(f)
  PROVE  FrameRefsInv'
<1> USE DEF FrameRefsInv
<1>1. PICK s \in Slices : s = frame[f]
  BY DEF Marshal, TypeOK
<1>2. /\ pc[f] \in {"chain", "have"} /\ pc' = [pc EXCEPT ![f] = "sending"]
      /\ f = "first" => pc[f] = "chain"
      /\ refs' = Ref(refs, s)
      /\ UNCHANGED <<content, count, frame, arrived, queue, payload>>
  BY <1>1 DEF Marshal, CanSend, Goto
<1>3. s # Empty /\ "frame" \in Roles /\ "sending" \in Roles
  BY EmptyIsNoSlice DEF Roles
<1>4. \A q \in Roles, g \in Frames, t \in Slices :
        Refers(q, g, t)' <=> Refers(q, g, t) \/ (q = "sending" /\ g = f /\ t = s)
  BY <1>1, <1>2 DEF Refers, Roles, TypeOK
<1>5. ~Refers("sending", f, s) /\ Refers("frame", f, s)
  BY <1>1, <1>2 DEF Refers
<1>6. RefExact' /\ refs' \in [Bufs -> Int]
  BY <1>2, <1>3, <1>4, <1>5, RefAdded
<1>7. ContentInv'
  BY <1>2, <1>3, <1>4, <1>5, ContentKept
<1>8. TypeOK' /\ FrameInv'
  BY <1>1, <1>2, <1>3, <1>6 DEF TypeOK, FrameInv
<1>9. QueueInv' /\ FirstInv'
  BY <1>2 DEF TypeOK, QueueInv, FirstInv, Frames
<1> QED
  BY <1>6, <1>7, <1>8, <1>9

(* ... which goes with it to the queue ...                                 *)
LEMMA SendQueuedInv ==
  ASSUME FrameRefsInv, NEW f \in Frames, SendQueued(f)
  PROVE  FrameRefsInv'
<1> USE DEF FrameRefsInv
<1>1. PICK s \in Slices : s = frame[f]
  BY DEF SendQueued, FrameInv, TypeOK
<1>2. /\ pc[f] = "sending" /\ pc' = [pc EXCEPT ![f] = "sent"]
      /\ queue' = [queue EXCEPT ![f] = @ \cup {s}] /\ s \notin queue[f]
      /\ UNCHANGED <<refs, content, count, frame, arrived, payload>>
  BY <1>1 DEF SendQueued, Goto, QueueInv
<1>3. "frame" \in Roles /\ arrived[f] = Empty /\ s # Empty
  BY <1>2, EmptyIsNoSlice DEF Roles, FrameInv
<1>4. \A q \in Roles, g \in Frames, t \in Slices :
        Refers(q, g, t)'
          <=> \/ q = "queue" /\ g = f /\ t = s
              \/ Refers(q, g, t) /\ ~(q = "sending" /\ g = f /\ t = s)
  BY <1>1, <1>2 DEF Refers, Roles, TypeOK
<1>5. /\ ~Refers("queue", f, s) /\ Refers("sending", f, s)
      /\ Refers("frame", f, s)
  BY <1>1, <1>2 DEF Refers
<1>6. RefExact' /\ refs' \in [Bufs -> Int]
  BY <1>2, <1>4, <1>5, RefMoved
<1>7. ContentInv'
  BY <1>2, <1>3, <1>4, <1>5, ContentKept
<1>8. TypeOK' /\ FrameInv'
  BY <1>2, <1>6 DEF TypeOK, FrameInv
<1>9. QueueInv'
  BY <1>1, <1>2, <1>3 DEF TypeOK, QueueInv
<1>10. FirstInv'
  BY <1>2 DEF TypeOK, FirstInv, Frames
<1> QED
  BY <1>6, <1>7, <1>8, <1>9, <1>10

(* ... or is dropped as SendMsg fails.                                     *)
LEMMA SendFailsInv ==
  ASSUME FrameRefsInv, NEW f \in Frames, SendFails(f)
  PROVE  FrameRefsInv'
<1> USE DEF FrameRefsInv
<1>1. PICK s \in Slices : s = frame[f]
  BY DEF SendFails, FrameInv, TypeOK
<1>2. /\ pc[f] = "sending" /\ pc' = [pc EXCEPT ![f] = "failed"]
      /\ refs' = Free(refs, s) /\ "sending" \in Roles
      /\ UNCHANGED <<content, count, frame, arrived, queue, payload>>
  BY <1>1 DEF SendFails, Goto, Roles
<1>3. \A q \in Roles, g \in Frames, t \in Slices :
        Refers(q, g, t)' <=> Refers(q, g, t) /\ ~(q = "sending" /\ g = f /\ t = s)
  BY <1>1, <1>2 DEF Refers, Roles, TypeOK
<1>4. RefExact' /\ refs' \in [Bufs -> Int]
  <2>1. Refers("sending", f, s)
    BY <1>1, <1>2 DEF Refers
  <2> QED
    BY <1>2, <1>3, <2>1, RefDropped
<1>5. ContentInv'
  BY <1>2, <1>3, ContentKept
<1>6. TypeOK' /\ FrameInv'
  BY <1>2, <1>4 DEF TypeOK, FrameInv
<1>7. QueueInv' /\ FirstInv'
  BY <1>2 DEF TypeOK, QueueInv, FirstInv, Frames
<1> QED
  BY <1>4, <1>5, <1>6, <1>7

LEMMA DrainInv ==
  ASSUME FrameRefsInv, NEW f \in Frames, Drain(f)
  PROVE  FrameRefsInv'
<1> USE DEF FrameRefsInv
<1>1. PICK s \in queue[f] :
        /\ refs' = Free(refs, s) /\ queue' = [queue EXCEPT ![f] = @ \ {s}]
        /\ UNCHANGED <<content, count, pc, frame, arrived, payload>>
  BY DEF Drain
<1>2. s \in Slices /\ "queue" \in Roles
  BY <1>1 DEF TypeOK, Roles
<1>3. \A q \in Roles, g \in Frames, t \in Slices :
        Refers(q, g, t)' <=> Refers(q, g, t) /\ ~(q = "queue" /\ g = f /\ t = s)
  BY <1>1 DEF Refers, Roles, TypeOK
<1>4. RefExact' /\ refs' \in [Bufs -> Int]
  <2>1. Refers("queue", f, s)
    BY <1>1 DEF Refers
  <2> QED
    BY <1>1, <1>2, <1>3, <2>1, RefDropped
<1>5. ContentInv'
  BY <1>1, <1>3, ContentKept
<1>6. TypeOK' /\ FrameInv'
  BY <1>1, <1>4 DEF TypeOK, FrameInv
<1>7. QueueInv' /\ FirstInv'
  BY <1>1 DEF TypeOK, QueueInv, FirstInv
<1> QED
  BY <1>4, <1>5, <1>6, <1>7

-----------------------------------------------------------------------------
(* A Frame is freed behind its SendMsg, or by a deferred call.             *)
LEMMA FrameFreedInv ==
  ASSUME FrameRefsInv, NEW f \in Frames,
         (f # "first" /\ PumpFrees(f)) \/ DeferredFree(f)
  PROVE  FrameRefsInv'
<1> USE DEF FrameRefsInv
<1>1. PICK where \in {"recv", "exit", "done"} :
        /\ pc' = [pc EXCEPT ![f] = where]
        /\ where = "recv" => f # "first"
  BY DEF PumpFrees, DeferredFree, Goto
<1>2. /\ pc[f] \in {"sent", "failed", "exit"} /\ refs' = Free(refs, frame[f])
      /\ frame' = [frame EXCEPT ![f] = Empty]
      /\ UNCHANGED <<content, count, arrived, queue, payload>>
  BY DEF PumpFrees, DeferredFree
<1>3. "frame" \in Roles /\ frame[f] \in Slices \cup {Empty}
      /\ arrived[f] = Empty
  BY <1>2 DEF Roles, TypeOK, FrameInv
<1>4. \A q \in Roles, g \in Frames, t \in Slices :
        Refers(q, g, t)'
          <=> Refers(q, g, t) /\ ~(q = "frame" /\ g = f /\ t = frame[f])
  BY <1>1, <1>2, EmptyIsNoSlice DEF Refers, Roles, TypeOK
<1>5. RefExact' /\ refs' \in [Bufs -> Int]
  <2>1. CASE frame[f] = Empty
    <3>1. refs' = refs
      BY <1>2, <2>1 DEF Free
    <3>2. \A q \in Roles, g \in Frames, t \in Slices :
            Refers(q, g, t)' <=> Refers(q, g, t)
      BY <1>4, <2>1, EmptyIsNoSlice
    <3> QED
      BY <3>1, <3>2, RefsKept
  <2>2. CASE frame[f] \in Slices
    <3>1. Refers("frame", f, frame[f])
      BY DEF Refers
    <3> QED
      BY <1>2, <1>3, <1>4, <2>2, <3>1, RefDropped
  <2> QED
    BY <1>3, <2>1, <2>2
<1>6. ContentInv'
  BY <1>2, <1>4, ContentKept
<1>7. TypeOK' /\ FrameInv'
  BY <1>1, <1>2, <1>3, <1>5 DEF TypeOK, FrameInv
<1>8. QueueInv'
  <2>1. Empty.msg <= count
    BY FrameAssumption DEF FrameAssumption, TypeOK, Empty
  <2> QED
    BY <1>1, <1>2, <2>1 DEF TypeOK, QueueInv
<1>9. FirstInv'
  BY <1>1, <1>2 DEF TypeOK, FirstInv, Frames
<1> QED
  BY <1>5, <1>6, <1>7, <1>8, <1>9

(* The other steps of the goroutines pass no reference on.                 *)
LEMMA GotoInv ==
  ASSUME FrameRefsInv,
         \/ \E f \in Frames : RecvFails(f)
         \/ Data \/ ChainAborts \/ StartPumps \/ ForwardReturns
  PROVE  FrameRefsInv'
<1> USE DEF FrameRefsInv
<1>1. UNCHANGED <<refs, content, count, frame, arrived, queue>>
  BY DEF RecvFails, Data, ChainAborts, StartPumps, ForwardReturns
<1>2. /\ pc' \in [Frames -> {"idle", "recv", "arrived", "decoded", "have",
                            "chain", "sending", "sent", "failed", "waiting",
                            "exit", "done"}]
      /\ \A f \in Frames :
           \/ pc'[f] = pc[f]
           \/ pc[f] = "recv" /\ pc'[f] \in {"exit", "chain"}
           \/ pc[f] = "have" /\ pc'[f] = "chain"
           \/ /\ pc[f] \in {"chain", "sent", "failed", "waiting"}
              /\ pc'[f] \in {"exit", "waiting"}
           \/ /\ pc[f] = "idle" /\ pc'[f] = "recv"
              /\ f # "first" /\ pc'["first"] = "waiting"
  <2>1. CASE \E f \in Frames : RecvFails(f)
    BY <2>1 DEF RecvFails, Goto, TypeOK
  <2>2. CASE Data \/ ChainAborts \/ ForwardReturns
    BY <2>2 DEF Data, ChainAborts, ForwardReturns, Goto, TypeOK
  <2>3. CASE StartPumps
    BY <2>3 DEF StartPumps, TypeOK, Frames, FirstInv
  <2> QED
    BY <2>1, <2>2, <2>3
<1>3. \A q \in Roles, g \in Frames, t \in Slices :
        Refers(q, g, t)' <=> Refers(q, g, t)
  BY <1>1, <1>2 DEF Refers
<1>4. RefExact'
  BY <1>1, <1>3, RefsKept
<1>5. ContentInv'
  BY <1>1, <1>3, ContentKept
<1>6. TypeOK' /\ FrameInv' /\ QueueInv'
  BY <1>1, <1>2 DEF TypeOK, FrameInv, QueueInv
<1>7. payload' = payload \/ payload' = [buf |-> Nil, msg |-> 1]
  <2>1. CASE Data
    <3>1. /\ payload' = [buf |-> Nil, msg |-> content[frame["first"].buf]]
          /\ frame["first"] # Empty
      BY <2>1 DEF Data, FrameInv, Frames
    <3>2. frame["first"] \in Slices /\ Refers("frame", "first", frame["first"])
      BY <3>1 DEF TypeOK, Frames, Refers
    <3>3. content[frame["first"].buf] = 1
      BY <3>1, <3>2 DEF ContentInv, FirstInv, Roles, Frames
    <3> QED
      BY <3>1, <3>3
  <2>2. CASE ~Data
    BY <2>2 DEF RecvFails, ChainAborts, StartPumps, ForwardReturns
  <2> QED
    BY <2>1, <2>2
<1>8. FirstInv'
  BY <1>1, <1>2, <1>7 DEF FirstInv, TypeOK, Frames
<1> QED
  BY <1>4, <1>5, <1>6, <1>8

(* Somebody else writes to a buffer of the pool.                           *)
LEMMA ReuseInv ==
  ASSUME FrameRefsInv, NEW b \in Bufs, Reuse(b)
  PROVE  FrameRefsInv'
<1> USE DEF FrameRefsInv
<1>1. /\ refs[b] = 0 /\ content' = [content EXCEPT ![b] = 0]
      /\ UNCHANGED <<refs, count, pc, frame, arrived, queue, payload>>
  BY DEF Reuse
<1>2. \A q \in Roles, g \in Frames, t \in Slices :
        Refers(q, g, t)' <=> Refers(q, g, t)
  BY <1>1 DEF Refers
<1>3. \A q \in Roles, g \in Frames, t \in Slices : Refers(q, g, t) => t.buf # b
  BY <1>1, FreeMeansUnused
<1>4. RefExact'
  BY <1>1, <1>2, RefsKept
<1>5. ContentInv'
  <2>1. \A t \in Slices : t.buf \in Bufs
    BY DEF Slices
  <2> QED
    BY <1>1, <1>2, <1>3, <2>1 DEF ContentInv, TypeOK
<1>6. TypeOK' /\ FrameInv' /\ QueueInv' /\ FirstInv'
  BY <1>1, FrameAssumption
  DEF FrameAssumption, TypeOK, FrameInv, QueueInv, FirstInv
<1> QED
  BY <1>4, <1>5, <1>6

LEMMA NextInv == FrameRefsInv /\ [Next]_vars => FrameRefsInv'
<1>1. SUFFICES ASSUME FrameRefsInv, [Next]_vars PROVE FrameRefsInv'
  OBVIOUS
<1>2. CASE \E f \in Frames :
             \/ \E b \in Bufs : Arrive(f, b)
             \/ Unmarshal(f) \/ RecvReturns(f)
             \/ Marshal(f) \/ SendQueued(f) \/ SendFails(f) \/ Drain(f)
  BY <1>1, <1>2, ArriveInv, UnmarshalInv, RecvReturnsInv, MarshalInv,
     SendQueuedInv, SendFailsInv, DrainInv
<1>3. CASE (\E f \in Frames : DeferredFree(f)) \/ \E f \in Pumps : PumpFrees(f)
  <2>1. \A f \in Pumps : f \in Frames /\ f # "first"
    BY DEF Pumps, Frames
  <2> QED
    BY <1>1, <1>3, <2>1, FrameFreedInv
<1>4. CASE (\E f \in Frames : RecvFails(f)) \/ Data \/ ChainAborts
             \/ StartPumps \/ ForwardReturns
  BY <1>1, <1>4, GotoInv
<1>5. CASE \E b \in Bufs : Reuse(b)
  BY <1>1, <1>5, ReuseInv
<1>6. CASE UNCHANGED vars
  <2>1. \A q \in Roles, g \in Frames, t \in Slices :
          Refers(q, g, t)' <=> Refers(q, g, t)
    BY <1>6 DEF vars, Refers
  <2> QED
    BY <1>1, <1>6, <2>1, RefsKept
    DEF vars, FrameRefsInv, TypeOK, FrameInv, QueueInv, ContentInv, FirstInv
<1> QED
  BY <1>1, <1>2, <1>3, <1>4, <1>5, <1>6 DEF Next

-----------------------------------------------------------------------------
LEMMA InvImpliesBytesIntact == FrameRefsInv => BytesIntact
<1>1. SUFFICES ASSUME FrameRefsInv PROVE BytesIntact
  OBVIOUS
<1> USE <1>1 DEF FrameRefsInv
<1>2. ASSUME NEW f \in Frames, frame[f] # Empty
      PROVE  content[frame[f].buf] = frame[f].msg
  <2>1. "frame" \in Roles /\ frame[f] \in Slices /\ Refers("frame", f, frame[f])
    BY <1>2 DEF TypeOK, Roles, Refers
  <2> QED
    BY <2>1 DEF ContentInv
<1>3. ASSUME NEW f \in Frames, NEW s \in queue[f]
      PROVE  content[s.buf] = s.msg
  <2>1. "queue" \in Roles /\ s \in Slices /\ Refers("queue", f, s)
    BY DEF TypeOK, Roles, Refers
  <2> QED
    BY <2>1 DEF ContentInv
<1>4. payload # Empty => PayloadBytes = 1
  BY DEF FirstInv, PayloadBytes
<1> QED
  BY <1>2, <1>3, <1>4 DEF BytesIntact

LEMMA InvImpliesNoLeak == FrameRefsInv => NoLeak
<1>1. SUFFICES ASSUME FrameRefsInv PROVE NoLeak
  OBVIOUS
<1> USE <1>1 DEF FrameRefsInv
<1>2. \A f \in Pumps : pc[f] = "recv" => frame[f] = Empty
  BY DEF FrameInv, Pumps, Frames
<1>3. ASSUME \A f \in Frames : pc[f] \in {"idle", "done"} /\ queue[f] = {},
             NEW b \in Bufs
      PROVE  refs[b] = 0
  <2>1. \A f \in Frames : frame[f] = Empty /\ arrived[f] = Empty /\ queue[f] = {}
    BY <1>3 DEF FrameInv
  <2>2. \A role \in Roles, f \in Frames, s \in Slices : ~Refers(role, f, s)
    BY <2>1, EmptyIsNoSlice DEF Refers
  <2> QED
    BY <2>2, FreeMeansUnused
<1> QED
  BY <1>2, <1>3 DEF NoLeak

(* The counts kept by Unmarshal, Marshal and Free are exact.               *)
THEOREM CountsExact == Spec => []RefExact
<1>1. Spec => []FrameRefsInv
  BY InitInv, NextInv, PTL DEF Spec
<1>2. FrameRefsInv => RefExact
  BY DEF FrameRefsInv
<1> QED
  BY <1>1, <1>2, PTL

(* No buffer is used after it went back to gRPC's pool.                    *)
THEOREM NoUseAfterFree == Spec => []BytesIntact
<1>1. Spec => []FrameRefsInv
  BY InitInv, NextInv, PTL DEF Spec
<1> QED
  BY <1>1, InvImpliesBytesIntact, PTL

(* None stays out, neither behind a call nor beside a silent stream.       *)
THEOREM NothingLeaks == Spec => []NoLeak
<1>1. Spec => []FrameRefsInv
  BY InitInv, NextInv, PTL DEF Spec
<1> QED
  BY <1>1, InvImpliesNoLeak, PTL
=============================================================================

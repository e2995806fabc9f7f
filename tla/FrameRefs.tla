------------------------------ MODULE FrameRefs ------------------------------
(***************************************************************************)
(* Who owns the buffers of a message: proxy/codec.go and its uses.         *)
(*                                                                         *)
(* gRPC takes a buffer from a pool for every message it receives, counts   *)
(* the references to it, and puts it back when the count is zero, after    *)
(* which any goroutine of the process may overwrite it.  The proxy passes  *)
(* the buffers on without copying them, through three Frames: the first    *)
(* message of the RPC, read by the handler, and one Frame for each pump.   *)
(* A message is a number and one buffer; 0 is what somebody else wrote.    *)
(***************************************************************************)
EXTENDS Naturals, FiniteSets

CONSTANTS
  Bufs,      (* Buffers of the pool.                                       *)
  Nil,       (* No buffer.                                                 *)
  MaxMsgs,   (* Bounds the messages received.                              *)
  MaxQueue   (* Messages a transport queues before SendMsg blocks.         *)

ASSUME FrameAssumption ==
  /\ Nil \notin Bufs /\ MaxMsgs \in Nat /\ MaxQueue \in Nat \ {0}

Frames == {"first", "up", "down"}
Pumps  == {"up", "down"}

VARIABLES
  refs,     (* Reference count of each buffer; 0 is in the pool.           *)
  content,  (* The message whose bytes each buffer holds.                  *)
  count,    (* Messages received so far.                                   *)
  pc,       (* Where the goroutine is that owns each Frame.                *)
  frame,    (* Frame.data, with the message that was received into it.     *)
  arrived,  (* The slice gRPC is about to pass to Unmarshal, or has passed.*)
  queue,    (* Marshalled messages of each Frame, not yet written.         *)
  payload   (* RequestInfo.FirstPayload, which a middleware may keep.      *)

vars == <<refs, content, count, pc, frame, arrived, queue, payload>>

Slices == [buf : Bufs, msg : 1..MaxMsgs]
Empty  == [buf |-> Nil, msg |-> 0]

-----------------------------------------------------------------------------
(* Reference counts r after s.Ref() and after s.Free().                    *)
Ref(r, s)  == IF s = Empty THEN r ELSE [r EXCEPT ![s.buf] = @ + 1]
Free(r, s) == IF s = Empty THEN r ELSE [r EXCEPT ![s.buf] = @ - 1]

Goto(f, where) == pc' = [pc EXCEPT ![f] = where]

Init ==
  /\ refs = [b \in Bufs |-> 0] /\ content = [b \in Bufs |-> 0] /\ count = 0
  /\ pc = [f \in Frames |-> IF f = "first" THEN "recv" ELSE "idle"]
  /\ frame = [f \in Frames |-> Empty]
  /\ arrived = [f \in Frames |-> Empty]
  /\ queue = [f \in Frames |-> {}]
  /\ payload = Empty

-----------------------------------------------------------------------------
(* RecvMsg.                                                                *)

(* gRPC reads a message into a buffer of the pool.                         *)
Arrive(f, b) ==
  /\ pc[f] = "recv" /\ refs[b] = 0 /\ count < MaxMsgs
  /\ count' = count + 1
  /\ refs' = [refs EXCEPT ![b] = 1]
  /\ content' = [content EXCEPT ![b] = count']
  /\ arrived' = [arrived EXCEPT ![f] = [buf |-> b, msg |-> count']]
  /\ Goto(f, "arrived")
  /\ UNCHANGED <<frame, queue, payload>>

(* Mutant: the Frame takes the slice without a reference of its own.       *)
UnmarshalUncounted(f) ==
  /\ pc[f] = "arrived"
  /\ refs' = Free(refs, frame[f])
  /\ frame' = [frame EXCEPT ![f] = arrived[f]]
  /\ Goto(f, "decoded")
  /\ UNCHANGED <<content, count, arrived, queue, payload>>

(* What the Frame held is freed, the new slice is referenced and kept.     *)
Unmarshal(f) ==
  /\ pc[f] = "arrived"
  /\ refs' = Ref(Free(refs, frame[f]), arrived[f])
  /\ frame' = [frame EXCEPT ![f] = arrived[f]]
  /\ Goto(f, "decoded")
  /\ UNCHANGED <<content, count, arrived, queue, payload>>

(* gRPC drops its own reference, and RecvMsg returns: with the message, or *)
(* with an error although it has unmarshalled one.                         *)
RecvReturns(f) ==
  /\ pc[f] = "decoded"
  /\ refs' = Free(refs, arrived[f])
  /\ arrived' = [arrived EXCEPT ![f] = Empty]
  /\ \E where \in {"have", "exit"} : Goto(f, where)
  /\ UNCHANGED <<content, count, frame, queue, payload>>

(* RecvMsg fails, or ends with io.EOF, and no message came. For the first  *)
(* frame io.EOF means that Forward runs without one.                       *)
RecvFails(f) ==
  /\ pc[f] = "recv"
  /\ \E where \in {"exit"} \cup (IF f = "first" THEN {"chain"} ELSE {}) :
       Goto(f, where)
  /\ UNCHANGED <<refs, content, count, frame, arrived, queue, payload>>

-----------------------------------------------------------------------------
(* Mutant: the middleware gets the bytes of the buffer itself.             *)
DataAliased ==
  /\ pc["first"] = "have"
  /\ payload' = frame["first"]
  /\ Goto("first", "chain")
  /\ UNCHANGED <<refs, content, count, frame, arrived, queue>>

(* Frame.Data: the middleware gets a copy of the bytes.                    *)
Data ==
  /\ pc["first"] = "have"
  /\ payload' = [buf |-> Nil, msg |-> content[frame["first"].buf]]
  /\ Goto("first", "chain")
  /\ UNCHANGED <<refs, content, count, frame, arrived, queue>>

(* The bytes a middleware sees when it looks at the payload.               *)
PayloadBytes == IF payload.buf = Nil THEN payload.msg ELSE content[payload.buf]

(* A middleware aborts: the handler returns and Forward is not called.     *)
ChainAborts ==
  /\ pc["first"] = "chain" /\ Goto("first", "exit")
  /\ UNCHANGED <<refs, content, count, frame, arrived, queue, payload>>

-----------------------------------------------------------------------------
(* SendMsg.                                                                *)

CanSend(f) == pc[f] = IF f = "first" THEN "chain" ELSE "have"

(* Mutant: the slice goes to gRPC without a reference for it.              *)
MarshalUncounted(f) ==
  /\ CanSend(f) /\ frame[f] # Empty
  /\ Goto(f, "sending")
  /\ UNCHANGED <<refs, content, count, frame, arrived, queue, payload>>

(* The slice goes to gRPC with a reference of its own.                     *)
Marshal(f) ==
  /\ CanSend(f) /\ frame[f] # Empty
  /\ refs' = Ref(refs, frame[f])
  /\ Goto(f, "sending")
  /\ UNCHANGED <<content, count, frame, arrived, queue, payload>>

(* The write is queued and SendMsg returns.                                *)
SendQueued(f) ==
  /\ pc[f] = "sending" /\ Cardinality(queue[f]) < MaxQueue
  /\ queue' = [queue EXCEPT ![f] = @ \cup {frame[f]}]
  /\ Goto(f, "sent")
  /\ UNCHANGED <<refs, content, count, frame, arrived, payload>>

(* Nothing is queued; gRPC drops the reference and SendMsg fails.          *)
SendFails(f) ==
  /\ pc[f] = "sending"
  /\ refs' = Free(refs, frame[f])
  /\ Goto(f, "failed")
  /\ UNCHANGED <<content, count, frame, arrived, queue, payload>>

(* The transport writes a queued message, or drops it when the stream has  *)
(* ended, and then its reference.                                          *)
Drain(f) ==
  \E s \in queue[f] :
    /\ refs' = Free(refs, s)
    /\ queue' = [queue EXCEPT ![f] = @ \ {s}]
    /\ UNCHANGED <<content, count, pc, frame, arrived, payload>>

-----------------------------------------------------------------------------
(* After SendMsg.                                                          *)

(* Forward starts the pumps: the first frame was sent, there was none, or  *)
(* SendMsg gave io.EOF, the sign that the backend has ended the stream.    *)
StartPumps ==
  /\ \/ pc["first"] \in {"sent", "failed"}
     \/ pc["first"] = "chain" /\ frame["first"] = Empty
  /\ pc' = [f \in Frames |-> IF f = "first" THEN "waiting" ELSE "recv"]
  /\ UNCHANGED <<refs, content, count, frame, arrived, queue, payload>>

(* Forward returns: after the pumps have started, whatever they are doing, *)
(* or because the stream could not be opened or the first frame not sent.  *)
ForwardReturns ==
  /\ pc["first"] \in {"chain", "failed", "waiting"}
  /\ Goto("first", "exit")
  /\ UNCHANGED <<refs, content, count, frame, arrived, queue, payload>>

(* Mutant: the frame is left to the next Unmarshal to free.                *)
PumpFreesKept(f) ==
  /\ pc[f] \in {"sent", "failed"}
  /\ Goto(f, IF pc[f] = "sent" THEN "recv" ELSE "exit")
  /\ UNCHANGED <<refs, content, count, frame, arrived, queue, payload>>

(* A pump frees the frame as soon as SendMsg returns, and goes on or ends. *)
PumpFrees(f) ==
  /\ pc[f] \in {"sent", "failed"}
  /\ refs' = Free(refs, frame[f])
  /\ frame' = [frame EXCEPT ![f] = Empty]
  /\ Goto(f, IF pc[f] = "sent" THEN "recv" ELSE "exit")
  /\ UNCHANGED <<content, count, arrived, queue, payload>>

(* Mutant: no deferred Free.                                               *)
DeferredFreeSkipped(f) ==
  /\ pc[f] = "exit" /\ Goto(f, "done")
  /\ UNCHANGED <<refs, content, count, frame, arrived, queue, payload>>

(* defer frame.Free() of the handler and of each pump.                     *)
DeferredFree(f) ==
  /\ pc[f] = "exit"
  /\ refs' = Free(refs, frame[f])
  /\ frame' = [frame EXCEPT ![f] = Empty]
  /\ Goto(f, "done")
  /\ UNCHANGED <<content, count, arrived, queue, payload>>

(* Somebody else takes a buffer from the pool, writes to it and returns it.*)
Reuse(b) ==
  /\ refs[b] = 0
  /\ content' = [content EXCEPT ![b] = 0]
  /\ UNCHANGED <<refs, count, pc, frame, arrived, queue, payload>>

-----------------------------------------------------------------------------
Next ==
  \/ \E f \in Frames :
       \/ \E b \in Bufs : Arrive(f, b)
       \/ Unmarshal(f) \/ RecvReturns(f) \/ RecvFails(f)
       \/ Marshal(f) \/ SendQueued(f) \/ SendFails(f) \/ Drain(f)
       \/ DeferredFree(f)
  \/ \E f \in Pumps : PumpFrees(f)
  \/ Data \/ ChainAborts \/ StartPumps \/ ForwardReturns
  \/ \E b \in Bufs : Reuse(b)

Spec == Init /\ [][Next]_vars

-----------------------------------------------------------------------------
(* The references to a buffer: of gRPC's receiver, of a Frame, of a SendMsg*)
(* under way, and of each queued write.                                    *)
Roles == {"arrived", "frame", "sending", "queue"}

Refers(role, f, s) ==
  \/ role = "arrived" /\ arrived[f] = s
  \/ role = "frame" /\ frame[f] = s
  \/ role = "sending" /\ frame[f] = s /\ pc[f] = "sending"
  \/ role = "queue" /\ s \in queue[f]

Owners(b) ==
  {o \in (Roles \X Frames) \X (1..MaxMsgs) :
     Refers(o[1][1], o[1][2], [buf |-> b, msg |-> o[2]])}

(* The counts kept by hand in Unmarshal, Marshal and Free agree with who   *)
(* really refers to the buffer: one too few and a buffer in use goes back  *)
(* to the pool, one too many and it never does.                            *)
RefExact == \A b \in Bufs : refs[b] = Cardinality(Owners(b))

(* No use after free: whoever refers to a buffer finds in it the message   *)
(* that was received into it, whoever frees its own reference meanwhile.   *)
(* So each message is written to the other leg as it came. And the payload *)
(* of RequestInfo keeps its bytes after the frame's buffers have gone back,*)
(* as its comment promises to middleware.                                  *)
BytesIntact ==
  /\ \A f \in Frames :
       /\ frame[f] # Empty => content[frame[f].buf] = frame[f].msg
       /\ \A s \in queue[f] : content[s.buf] = s.msg
  /\ payload # Empty => PayloadBytes = 1

(* A pump that waits for the next message holds no buffer, however long    *)
(* the stream stays silent. And when the handler and both pumps have ended *)
(* and the transports have written what they will write, every buffer is   *)
(* back in the pool.                                                       *)
NoLeak ==
  /\ \A f \in Pumps : pc[f] = "recv" => frame[f] = Empty
  /\ pc["first"] = "done" /\ (\A f \in Frames : pc[f] \in {"idle", "done"}
                                                /\ queue[f] = {})
       => \A b \in Bufs : refs[b] = 0
=============================================================================

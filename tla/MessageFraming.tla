---------------------------- MODULE MessageFraming ----------------------------
(***************************************************************************)
(* The five-byte message header of gRPC (parser/packet.go): decoding one   *)
(* message from a slice, decoding the messages of a stream one by one, and *)
(* encoding.  A byte has Base values; all lengths and shifts are those of  *)
(* the code, so that with Base = 256 the operators are its functions.      *)
(***************************************************************************)
EXTENDS Integers, SequencesExt

CONSTANTS
  Base,            (* Values of a byte.                                    *)
  MaxMessageSize,  (* The reader's limit on a payload.                     *)
  MaxInput         (* Bounds the bytes of the stream.                      *)

ASSUME FramingAssumption ==
  Base \in Nat /\ Base >= 2 /\ MaxMessageSize \in Nat /\ MaxInput \in Nat

Byte == 0..(Base - 1)
Size32 == Base * (Base * (Base * Base))

Message(compressed, payload) ==
  [ok |-> TRUE, compressed |-> compressed, payload |-> payload]

Error == [ok |-> FALSE, compressed |-> FALSE, payload |-> <<>>]

(* binary.BigEndian.                                                       *)
Uint32(d) == ((d[1] * Base + d[2]) * Base + d[3]) * Base + d[4]

PutUint32(n) ==
  LET a == n \div Base
      b == a \div Base
      c == b \div Base
  IN  <<c % Base, b % Base, a % Base, n % Base>>

(* Mutants: the end of the message is computed in 32 bits; the flag is not *)
(* counted.                                                                *)
EndIn32Bits(length) == (5 + length) % Size32
EndShort(length) == 4 + length

(* Where a message with this payload length ends, in 64 bits.              *)
End(length) == 5 + length

ParseGRPCMessage(data) ==
  IF Len(data) < 5 THEN Error
  ELSE LET end == End(Uint32(SubSeq(data, 2, 5)))
       IN  IF Len(data) < end THEN Error
           ELSE Message(data[1] = 1, SubSeq(data, 6, end))

(* Mutant: the length written is that of the whole message.                *)
EncodeWhole(msg) ==
  <<IF msg.compressed THEN 1 ELSE 0>>
    \o PutUint32(5 + Len(msg.payload)) \o msg.payload

(* The length is truncated to 32 bits, as uint32(len(msg.Payload)) is.     *)
EncodeGRPCMessage(msg) ==
  <<IF msg.compressed THEN 1 ELSE 0>>
    \o PutUint32(Len(msg.payload)) \o msg.payload

-----------------------------------------------------------------------------
(* ParseGRPCMessageFromReader, called until it fails.                      *)

VARIABLES
  sent,    (* All bytes of the stream.                                     *)
  rest,    (* Those not yet read.                                          *)
  frame,   (* Those not yet read when the current call began.              *)
  header,  (* The header the call has read, or None.                       *)
  read,    (* The messages that were returned.                             *)
  status   (* "reading", or why the last call failed.                      *)

vars == <<sent, rest, frame, header, read, status>>

None == [compressed |-> FALSE, length |-> -1]

Drop(s, n) == SubSeq(s, n + 1, Len(s))

Init ==
  /\ sent \in UNION {[1..n -> Byte] : n \in 0..MaxInput}
  /\ rest = sent /\ frame = sent
  /\ header = None /\ read = <<>> /\ status = "reading"

(* io.ReadFull of the header, and the limit. A stream that ends before the *)
(* first byte gives io.EOF, one that ends inside an unexpected EOF.        *)
ReadHeader ==
  /\ status = "reading" /\ header = None /\ Len(rest) >= 5
  /\ LET length == Uint32(SubSeq(rest, 2, 5))
     IN  IF length > MaxMessageSize
         THEN status' = "too large" /\ UNCHANGED header
         ELSE /\ header' = [compressed |-> rest[1] = 1, length |-> length]
              /\ UNCHANGED status
  /\ rest' = Drop(rest, 5)
  /\ UNCHANGED <<sent, frame, read>>

HeaderEnds ==
  /\ status = "reading" /\ header = None /\ Len(rest) < 5
  /\ status' = IF rest = <<>> THEN "eof" ELSE "truncated"
  /\ rest' = <<>>
  /\ UNCHANGED <<sent, frame, header, read>>

(* Mutant: the next call starts one byte too far.                          *)
ReadPayloadSkips ==
  /\ header # None /\ Len(rest) > header.length
  /\ read' = Append(read, Message(header.compressed,
                                  SubSeq(rest, 1, header.length)))
  /\ rest' = Drop(rest, header.length + 1) /\ frame' = rest'
  /\ header' = None
  /\ UNCHANGED <<sent, status>>

(* io.ReadFull of the payload.                                             *)
ReadPayload ==
  /\ header # None /\ Len(rest) >= header.length
  /\ read' = Append(read, Message(header.compressed,
                                  SubSeq(rest, 1, header.length)))
  /\ rest' = Drop(rest, header.length) /\ frame' = rest'
  /\ header' = None
  /\ UNCHANGED <<sent, status>>

(* A stream cut right behind a header ends like one cut before it: io.EOF. *)
PayloadEnds ==
  /\ header # None /\ Len(rest) < header.length
  /\ status' = IF rest = <<>> THEN "eof" ELSE "truncated"
  /\ rest' = <<>> /\ header' = None
  /\ UNCHANGED <<sent, frame, read>>

Next == ReadHeader \/ HeaderEnds \/ ReadPayload \/ PayloadEnds

Spec == Init /\ [][Next]_vars

-----------------------------------------------------------------------------
(* A message taken from a slice lies inside the slice and has the length   *)
(* its header declares, also when that is near the largest 32-bit number.  *)
ParseInBounds ==
  LET msg == ParseGRPCMessage(frame)
  IN  msg # Error => /\ Len(msg.payload) = Uint32(SubSeq(frame, 2, 5))
                     /\ 5 + Len(msg.payload) <= Len(frame)

(* The two decoders agree: on the bytes at which a call on the reader      *)
(* begins, the slice decoder finds the message that the call will return,  *)
(* or fails as the call will.                                              *)
DecodersAgree ==
  header # None =>
    ParseGRPCMessage(frame) =
      IF Len(rest) < header.length THEN Error
      ELSE Message(header.compressed, SubSeq(rest, 1, header.length))

(* Reading message after message never loses its place: the messages read, *)
(* encoded again, are the bytes consumed, but for a flag that was neither  *)
(* 0 nor 1.                                                                *)
StaysInStep ==
  LET again == FlattenSeq([i \in DOMAIN read |-> EncodeGRPCMessage(read[i])])
  IN  status = "reading" =>
        /\ Len(again) + Len(frame) = Len(sent)
        /\ \A k \in DOMAIN again : \/ again[k] = sent[k]
                                   \/ again[k] = 0 /\ sent[k] > 1

(* What was encoded is decoded again, whatever follows it.                 *)
RoundTrip ==
  \A i \in DOMAIN read :
    ParseGRPCMessage(EncodeGRPCMessage(read[i]) \o rest) = read[i]
=============================================================================

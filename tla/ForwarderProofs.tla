--------------------------- MODULE ForwarderProofs ---------------------------
(***************************************************************************)
(* Theorems about Forwarder for every number of messages and every window: *)
(* what the handler may rely on about its pumps, its context and its pin   *)
(* when it returns without waiting, that both directions keep every        *)
(* message in its place, that the client is told the true outcome, and     *)
(* that the whole is a TransparentPipe.                                    *)
(***************************************************************************)
EXTENDS ForwarderRefinement, SequenceTheorems, TLAPS

BeforePumps == {"acquire", "open", "first", "start"}
Returned    == {"cancel", "release", "done"}

(* The connection is pinned from acquire to the last deferred call, and    *)
(* the stream is cancelled by the one before it. A first message is sent   *)
(* only where there is one.                                                *)
PinInv ==
  /\ hPc \notin {"acquire", "release", "done"} => pinned
  /\ hPc \in {"release", "done"} /\ created => cancelled
  /\ created => hPc \notin {"acquire", "open"}
  /\ hPc = "first" => first # Nil

(* A pump that has reported is gone, and none runs before StartPumps.      *)
PumpInv ==
  /\ s2cCh # Nil => s2cPc = "exited"
  /\ hPc \in BeforePumps => s2cPc = "idle" /\ c2sPc = "idle"

(* An error of the client direction comes with the end of serverStream,    *)
(* which is final, or it is the backend leg's, which is final as well.     *)
CauseInv ==
  /\ c2sCh \in {Nil, "EOF", "canceled", "local"}
  /\ c2sCh = "canceled" => ServerDone
  /\ c2sCh = "local" => ServerDone \/ ended = "local"
  /\ hPc \in {"ctx", "drain"} =>
       ServerDone \/ (result = "local" /\ ended = "local")

(* The status of the stream is final once RecvMsg has failed.              *)
EndInv ==
  /\ bStatus \in {"running", "ok", "backend"}
  /\ s2cCh # Nil /\ s2cCh.backendDone => ended # "open"

Inv ==
  /\ PinInv /\ PumpInv /\ CauseInv /\ EndInv
  /\ LateWriterHasCause /\ TrailerReadable

-----------------------------------------------------------------------------
(* The messages and the status.                                            *)

(* s holds the numbers that follow n.                                      *)
Run(s, n) == \A i \in 1..Len(s) : s[i] = n + i

FirstHeld == first # Nil /\ hPc \in {"acquire", "open", "first"}

ClientInHand == IF c2sPc = "send" \/ FirstHeld THEN 1 ELSE 0

(* No message of the client is lost or out of place while the backend      *)
(* stream is open and the pump lives: each is with the backend, in the     *)
(* window, in the hand of the proxy or still in front of it.               *)
ClientLane ==
  /\ cSent \in Nat
  /\ inbox \in Seq(Nat) /\ toB \in Seq(Nat) /\ bGot \in Seq(Nat)
  /\ Run(bGot, 0) /\ Run(toB, Len(bGot))
  /\ Len(inbox) <= cSent /\ Run(inbox, cSent - Len(inbox))
  /\ c2sPc = "send" => c2sFrame = cSent - Len(inbox)
  /\ FirstHeld => first = 1 /\ cSent - Len(inbox) = 1
  /\ ~StreamOver /\ (hPc \in BeforePumps \/ c2sPc \in {"recv", "send"}) =>
       Len(bGot) + Len(toB) + ClientInHand = cSent - Len(inbox)

(* io.EOF means all of it, or a stream that is over.                       *)
HalfCloseInv ==
  /\ c2sCh = "EOF" =>
       StreamOver \/ (cClosed /\ Len(bGot) + Len(toB) = cSent)
  /\ halfClose = "live" => cClosed /\ Len(bGot) + Len(toB) = cSent
  /\ c2sCh # Nil \/ halfClose # "none" => c2sPc = "exited"
  /\ halfClose # "none" => hPc \notin BeforePumps

ServerLane ==
  /\ bSent \in Nat
  /\ fromB \in Seq(Nat) /\ outbox \in Seq(Nat) /\ cGot \in Seq(Nat)
  /\ Run(cGot, 0) /\ Run(outbox, Len(cGot))
  /\ Len(fromB) <= bSent /\ Run(fromB, bSent - Len(fromB))
  /\ s2cPc = "send" => s2cFrame = bSent - Len(fromB)
  /\ s2cPc # "exited" =>
       Len(cGot) + Len(outbox) + (IF s2cPc = "send" THEN 1 ELSE 0)
         = bSent - Len(fromB)

Errors == {"canceled", "write", "local"}

(* Headers are written before messages, if the call is still on.           *)
HeaderInv ==
  s2cPc \in {"recv", "send"} =>
    \/ cHeader \/ cGone \/ Finished \/ cancelled \/ ended # "open"
    \/ bStatus # "running" /\ ~bHeader

(* A report of the backend's status comes behind the whole response, if    *)
(* nobody has cancelled the stream.                                        *)
ReportInv ==
  s2cCh # Nil =>
    /\ s2cCh.err \in {"EOF", "backend"} \cup Errors
    /\ s2cCh.err \in {"EOF", "backend"} =>
         /\ bStatus = IF s2cCh.err = "EOF" THEN "ok" ELSE "backend"
         /\ s2cCh.backendDone /\ ended # "open"
         /\ ~cancelled => /\ Len(cGot) + Len(outbox) = bSent
                          /\ bHeader => cHeader \/ cGone \/ Finished
    /\ s2cCh.err \in {"canceled", "write"} => ServerDone \/ cancelled

(* What Forward returns has its cause, and an end that the backend has     *)
(* chosen is final.                                                        *)
ResultInv ==
  /\ hPc \in BeforePumps \cup {"select"} => result = "none" /\ ~cancelled
  /\ result \in {"none", "ok", "backend", "unavailable"} \cup Errors
  /\ result \in {"ok", "backend"} =>
       /\ bStatus = result /\ ended # "open" /\ trailer /\ s2cPc = "exited"
       /\ Len(cGot) + Len(outbox) = bSent
       /\ bHeader => cHeader \/ cGone \/ told \in Errors
  /\ result \in {"canceled", "write"} => ServerDone
  /\ result = "unavailable" => ~created /\ hPc \in Returned

(* The client is told an error of its own leg, or what Forward returned.   *)
ToldInv ==
  /\ told \in {"none"} \cup Errors \/ (hPc = "done" /\ told = result)
  /\ told \in {"canceled", "write"} => cGone

StatusInv == HeaderInv /\ ReportInv /\ ResultInv /\ ToldInv

-----------------------------------------------------------------------------
(* Sets of program counters, tuples of variables and helpers that only     *)
(* abbreviate are always expanded.                                         *)
USE DEF BeforePumps, Returned, clientVars, backendVars, handlerVars, s2cVars,
        c2sVars, Finished, ServerDone, CallDone, StreamOver, Return, Tell,
        ReportS2C, ReportC2S

(* No report is Nil.                                                       *)
LEMMA NilIsNoReport == Nil # "EOF" /\ Nil # "canceled" /\ Nil # "local"
BY ForwarderAssumption DEF ForwarderAssumption

LEMMA InitInv == Init => Inv
BY NilIsNoReport
DEF Init, Inv, PinInv, PumpInv, CauseInv, EndInv, LateWriterHasCause,
    TrailerReadable

(* The peers change nothing the proxy knows, except that the client's      *)
(* context may end.                                                        *)
LEMMA PeersKeep ==
  ASSUME Inv, ClientStep \/ BackendStep
  PROVE  Inv'
<1>1. CASE ClientStep
  BY <1>1 DEF ClientStep, ClientSend, ClientHalfClose, ClientRead, ClientGone,
              Inv, PinInv, PumpInv, CauseInv, EndInv, LateWriterHasCause,
              TrailerReadable
<1>2. CASE BackendStep
  BY <1>2 DEF BackendStep, BackendHeader, BackendSend, BackendRead,
              BackendFinish, Inv, PinInv, PumpInv, CauseInv, EndInv,
              LateWriterHasCause, TrailerReadable
<1> QED
  BY <1>1, <1>2

LEMMA HandlerKeepsPin ==
  ASSUME PinInv, HandlerStep \/ FinishServerStream
  PROVE  PinInv'
BY DEF HandlerStep, Acquire, AcquireFails, OpenStream, OpenStreamFails,
       SendFirst, SendFirstFails, StartPumps, TakeWriteFailure,
       TakeBackendEnd, TakeClientError, TakeClientEOF, CheckContext, Drain,
       DeferCancel, DeferRelease, FinishServerStream, PinInv

LEMMA HandlerKeepsPumps ==
  ASSUME PumpInv, HandlerStep \/ FinishServerStream
  PROVE  PumpInv'
BY DEF HandlerStep, Acquire, AcquireFails, OpenStream, OpenStreamFails,
       SendFirst, SendFirstFails, StartPumps, TakeWriteFailure,
       TakeBackendEnd, TakeClientError, TakeClientEOF, CheckContext, Drain,
       DeferCancel, DeferRelease, FinishServerStream, PumpInv

(* The check of the context: the handler goes on without the other pump    *)
(* only after an error of the backend leg.                                 *)
LEMMA HandlerKeepsCause ==
  ASSUME PinInv, PumpInv, CauseInv, LateWriterHasCause,
         HandlerStep \/ FinishServerStream
  PROVE  CauseInv' /\ LateWriterHasCause'
<1>1. CASE TakeClientError \/ CheckContext \/ Drain
  BY <1>1, NilIsNoReport
  DEF TakeClientError, CheckContext, Drain, PinInv, PumpInv, CauseInv,
      LateWriterHasCause
<1>2. CASE TakeWriteFailure \/ TakeBackendEnd \/ TakeClientEOF
  BY <1>2, NilIsNoReport
  DEF TakeWriteFailure, TakeBackendEnd, TakeClientEOF, PumpInv, CauseInv,
      LateWriterHasCause
<1>3. CASE \/ Acquire \/ AcquireFails \/ OpenStream \/ OpenStreamFails
           \/ SendFirst \/ SendFirstFails \/ StartPumps
  BY <1>3
  DEF Acquire, AcquireFails, OpenStream, OpenStreamFails, SendFirst,
      SendFirstFails, SendToBackend, SendSeesEnd, SendFails, StartPumps,
      PumpInv, CauseInv, LateWriterHasCause
<1>4. CASE DeferCancel \/ DeferRelease \/ FinishServerStream
  BY <1>4 DEF DeferCancel, DeferRelease, FinishServerStream, CauseInv,
              LateWriterHasCause
<1> QED
  BY <1>1, <1>2, <1>3, <1>4 DEF HandlerStep

(* Trailers are copied from a report whose backendDone is set.             *)
LEMMA HandlerKeepsEnd ==
  ASSUME EndInv, TrailerReadable, HandlerStep \/ FinishServerStream
  PROVE  EndInv' /\ TrailerReadable'
<1>1. CASE TakeWriteFailure \/ TakeBackendEnd \/ Drain
  BY <1>1 DEF TakeWriteFailure, TakeBackendEnd, Drain, EndInv, TrailerReadable
<1>2. CASE SendFirst \/ SendFirstFails
  BY <1>2 DEF SendFirst, SendFirstFails, SendToBackend, SendSeesEnd, SendFails,
              EndInv, TrailerReadable
<1>3. CASE /\ UNCHANGED <<bStatus, s2cCh, ended, trailer>>
  BY <1>3 DEF EndInv, TrailerReadable
<1> QED
  BY <1>1, <1>2, <1>3
  DEF HandlerStep, Acquire, AcquireFails, OpenStream, OpenStreamFails,
      StartPumps, TakeClientError, TakeClientEOF, CheckContext, DeferCancel,
      DeferRelease, FinishServerStream

(* forwardBackendToClient, size limits included.                           *)
LEMMA S2CKeeps ==
  ASSUME Inv, S2CStep \/ RecvTooBig \/ SendToClientTooBig
  PROVE  Inv'
<1>1. PinInv'
  BY DEF S2CStep, HeaderArrives, HeaderMissing, SendHeader, SendHeaderFails,
         RecvFromBackend, RecvStatus, RecvSeesEnd, SendToClient,
         SendToClientFails, RecvTooBig, SendToClientTooBig, Inv, PinInv
<1>2. PumpInv'
  BY DEF S2CStep, HeaderArrives, HeaderMissing, SendHeader, SendHeaderFails,
         RecvFromBackend, RecvStatus, RecvSeesEnd, SendToClient,
         SendToClientFails, RecvTooBig, SendToClientTooBig, Inv, PumpInv
<1>3. CauseInv' /\ LateWriterHasCause'
  BY DEF S2CStep, HeaderArrives, HeaderMissing, SendHeader, SendHeaderFails,
         RecvFromBackend, RecvStatus, RecvSeesEnd, SendToClient,
         SendToClientFails, RecvTooBig, SendToClientTooBig, Inv, CauseInv,
         LateWriterHasCause
<1>4. EndInv' /\ TrailerReadable'
  BY DEF S2CStep, HeaderArrives, HeaderMissing, SendHeader, SendHeaderFails,
         RecvFromBackend, RecvStatus, RecvSeesEnd, SendToClient,
         SendToClientFails, RecvTooBig, SendToClientTooBig, Inv, EndInv,
         TrailerReadable
<1> QED
  BY <1>1, <1>2, <1>3, <1>4 DEF Inv

(* forwardClientToBackend, size limits included.                           *)
LEMMA C2SKeeps ==
  ASSUME Inv, C2SStep \/ RecvFromClientTooBig \/ SendOnFails
  PROVE  Inv'
<1>1. PinInv'
  BY DEF C2SStep, RecvFromClient, RecvClientEOF, RecvFromClientFails, SendOn,
         SendOnSeesEnd, RecvFromClientTooBig, SendOnFails, SendToBackend,
         SendSeesEnd, SendFails, Inv, PinInv
<1>2. PumpInv'
  BY DEF C2SStep, RecvFromClient, RecvClientEOF, RecvFromClientFails, SendOn,
         SendOnSeesEnd, RecvFromClientTooBig, SendOnFails, SendToBackend,
         SendSeesEnd, SendFails, Inv, PumpInv
<1>3. CauseInv' /\ LateWriterHasCause'
  BY NilIsNoReport
  DEF C2SStep, RecvFromClient, RecvClientEOF, RecvFromClientFails, SendOn,
         SendOnSeesEnd, RecvFromClientTooBig, SendOnFails, SendToBackend,
         SendSeesEnd, SendFails, Inv, CauseInv, LateWriterHasCause
<1>4. EndInv' /\ TrailerReadable'
  BY DEF C2SStep, RecvFromClient, RecvClientEOF, RecvFromClientFails, SendOn,
         SendOnSeesEnd, RecvFromClientTooBig, SendOnFails, SendToBackend,
         SendSeesEnd, SendFails, Inv, EndInv, TrailerReadable
<1> QED
  BY <1>1, <1>2, <1>3, <1>4 DEF Inv

LEMMA NextInv == Inv /\ [Next]_vars => Inv'
<1> SUFFICES ASSUME Inv, [Next]_vars
             PROVE  Inv'
  OBVIOUS
<1>1. CASE HandlerStep \/ FinishServerStream
  BY <1>1, HandlerKeepsPin, HandlerKeepsPumps, HandlerKeepsCause,
     HandlerKeepsEnd
  DEF Inv
<1>2. CASE UNCHANGED vars
  BY <1>2 DEF vars, Inv, PinInv, PumpInv, CauseInv, EndInv,
              LateWriterHasCause, TrailerReadable
<1> QED
  BY <1>1, <1>2, PeersKeep, S2CKeeps, C2SKeeps DEF Next, SizeLimit

LEMMA Invariance == Spec => []Inv
BY InitInv, NextInv, PTL DEF Spec

-----------------------------------------------------------------------------
(* Buffers that hold consecutive numbers.                                  *)

LEMMA RunAppend ==
  ASSUME NEW S, NEW s \in Seq(S), NEW n \in Int, Run(s, n),
         NEW m \in S, m = n + Len(s) + 1
  PROVE  /\ Append(s, m) \in Seq(S) /\ Len(Append(s, m)) = Len(s) + 1
         /\ Len(s) \in Nat /\ Run(Append(s, m), n)
<1>1. /\ Append(s, m) \in Seq(S) /\ Len(Append(s, m)) = Len(s) + 1
      /\ Len(s) \in Nat
      /\ \A i \in 1..Len(s) : Append(s, m)[i] = s[i]
      /\ Append(s, m)[Len(s) + 1] = m
  BY AppendProperties, LenProperties
<1>2. ASSUME NEW i \in 1..(Len(s) + 1) PROVE Append(s, m)[i] = n + i
  <2>1. CASE i = Len(s) + 1
    BY <1>1, <2>1
  <2>2. CASE i # Len(s) + 1
    <3>1. i \in 1..Len(s)
      BY <1>1, <2>2
    <3> QED
      BY <1>1, <3>1 DEF Run
  <2> QED
    BY <2>1, <2>2
<1> QED
  BY <1>1, <1>2 DEF Run

LEMMA RunTail ==
  ASSUME NEW S, NEW s \in Seq(S), NEW n \in Int, Run(s, n), s # <<>>
  PROVE  /\ Tail(s) \in Seq(S) /\ Len(Tail(s)) = Len(s) - 1
         /\ Len(s) \in Nat /\ Len(s) > 0
         /\ Head(s) \in S /\ Head(s) = n + 1
         /\ Run(Tail(s), n + 1)
<1>1. /\ Tail(s) \in Seq(S) /\ Len(Tail(s)) = Len(s) - 1 /\ Head(s) \in S
      /\ \A i \in 1..Len(Tail(s)) : Tail(s)[i] = s[i + 1]
      /\ Len(s) \in Nat \ {0} /\ Head(s) = s[1]
  BY HeadTailProperties, EmptySeq
<1>2. Head(s) = n + 1
  BY <1>1 DEF Run
<1>3. ASSUME NEW i \in 1..Len(Tail(s)) PROVE Tail(s)[i] = (n + 1) + i
  <2>1. i + 1 \in 1..Len(s) /\ i \in Int
    BY <1>1
  <2>2. s[i + 1] = n + (i + 1)
    BY <2>1 DEF Run
  <2> QED
    BY <1>1, <2>1, <2>2
<1> QED
  BY <1>1, <1>2, <1>3 DEF Run

(* What was read and what is in the window, one behind the other.          *)
LEMMA RunJoin ==
  ASSUME NEW S, NEW s \in Seq(S), NEW t \in Seq(S), Run(s, 0), Run(t, Len(s))
  PROVE  s \o t = Numbered(Len(s) + Len(t))
<1> DEFINE n == Len(s) + Len(t)
<1>1. Len(s) \in Nat /\ Len(t) \in Nat /\ n \in Nat
  BY LenProperties
<1>2. /\ s \o t \in Seq(S) /\ Len(s \o t) = n
      /\ \A i \in 1..n : (s \o t)[i] = IF i <= Len(s) THEN s[i]
                                       ELSE t[i - Len(s)]
  BY ConcatProperties
<1>3. ASSUME NEW i \in 1..n PROVE (s \o t)[i] = i
  <2>1. CASE i <= Len(s)
    BY <1>1, <1>2, <2>1 DEF Run
  <2>2. CASE ~(i <= Len(s))
    <3>1. i - Len(s) \in 1..Len(t)
      BY <1>1, <2>2
    <3>2. t[i - Len(s)] = Len(s) + (i - Len(s))
      BY <3>1 DEF Run
    <3> QED
      BY <1>1, <1>2, <2>2, <3>2
  <2> QED
    BY <2>1, <2>2
<1>4. s \o t \in [1..n -> S]
  BY <1>2, LenProperties
<1>5. s \o t = [i \in 1..n |-> (s \o t)[i]]
  BY <1>4
<1> QED
  BY <1>3, <1>5 DEF Numbered

-----------------------------------------------------------------------------
(* The messages of the client.                                             *)

clientLane == <<cSent, inbox, toB, bGot>>

LEMMA ClientLens ==
  ASSUME ClientLane
  PROVE  /\ Len(inbox) \in Nat /\ Len(toB) \in Nat /\ Len(bGot) \in Nat
         /\ cSent \in Nat /\ cSent - Len(inbox) \in Nat
         /\ ClientInHand \in {0, 1}
BY LenProperties DEF ClientLane, ClientInHand

LEMMA ClientSendKeeps ==
  ASSUME ClientLane, HalfCloseInv, ClientSend
  PROVE  ClientLane' /\ HalfCloseInv'
<1>1. /\ ~cClosed /\ cSent' = cSent + 1 /\ inbox' = Append(inbox, cSent + 1)
      /\ UNCHANGED <<cClosed, backendVars, handlerVars, ended, c2sVars>>
  BY DEF ClientSend
<1>2. /\ inbox' \in Seq(Nat) /\ Len(inbox') = Len(inbox) + 1
      /\ Run(inbox', cSent - Len(inbox))
  <2>1. cSent + 1 = (cSent - Len(inbox)) + Len(inbox) + 1
    BY ClientLens
  <2> QED
    BY <1>1, <2>1, ClientLens, RunAppend DEF ClientLane
<1>3. cSent' - Len(inbox') = cSent - Len(inbox) /\ Len(inbox') <= cSent'
      /\ cSent' \in Nat
  BY <1>1, <1>2, ClientLens DEF ClientLane
<1>4. ClientLane'
  BY <1>1, <1>2, <1>3 DEF ClientLane, FirstHeld, ClientInHand
<1>5. HalfCloseInv'
  BY <1>1 DEF HalfCloseInv
<1> QED
  BY <1>4, <1>5

LEMMA BackendReadKeeps ==
  ASSUME ClientLane, HalfCloseInv, BackendRead
  PROVE  ClientLane' /\ HalfCloseInv'
<1>1. /\ toB # <<>> /\ toB' = Tail(toB) /\ bGot' = Append(bGot, Head(toB))
      /\ UNCHANGED <<clientVars, bStatus, handlerVars, ended, c2sVars>>
  BY DEF BackendRead
<1>2. /\ Len(bGot) \in Nat /\ 0 \in Int
      /\ toB' \in Seq(Nat) /\ Len(toB') = Len(toB) - 1
      /\ Head(toB) \in Nat /\ Head(toB) = Len(bGot) + 1
      /\ Run(toB', Len(bGot) + 1)
  BY <1>1, ClientLens, RunTail DEF ClientLane
<1>3. bGot' \in Seq(Nat) /\ Len(bGot') = Len(bGot) + 1 /\ Run(bGot', 0)
  <2>1. Head(toB) = 0 + Len(bGot) + 1
    BY <1>2
  <2> QED
    BY <1>1, <1>2, <2>1, RunAppend DEF ClientLane
<1>4. Len(bGot') + Len(toB') = Len(bGot) + Len(toB)
  BY <1>2, <1>3, ClientLens
<1>5. ClientLane'
  BY <1>1, <1>2, <1>3, <1>4 DEF ClientLane, FirstHeld, ClientInHand
<1>6. HalfCloseInv'
  BY <1>1, <1>4 DEF HalfCloseInv
<1> QED
  BY <1>5, <1>6

(* SendMsg on the backend stream puts the message in hand behind those     *)
(* that were sent.                                                         *)
LEMMA WriteToBackend ==
  ASSUME ClientLane, NEW m, SendToBackend(m), m = Len(bGot) + Len(toB) + 1,
         UNCHANGED <<cSent, inbox, bGot>>
  PROVE  /\ toB' \in Seq(Nat) /\ Len(toB') = Len(toB) + 1
         /\ Run(toB', Len(bGot)) /\ UNCHANGED ended
<1>1. toB' = Append(toB, m) /\ UNCHANGED ended
  BY DEF SendToBackend
<1>2. m \in Nat /\ Len(bGot) \in Int
  BY ClientLens
<1> QED
  BY <1>1, <1>2, RunAppend DEF ClientLane

LEMMA SendFirstKeeps ==
  ASSUME ClientLane, HalfCloseInv, PumpInv, SendFirst \/ SendFirstFails,
         first # Nil
  PROVE  ClientLane' /\ HalfCloseInv'
<1>1. /\ hPc = "first" /\ FirstHeld /\ c2sPc = "idle" /\ ClientInHand = 1
      /\ c2sCh = Nil /\ halfClose = "none" /\ first = 1
      /\ hPc' \in {"start", "cancel"}
      /\ UNCHANGED <<clientVars, bStatus, bGot, first, halfClose, c2sVars>>
      /\ ~FirstHeld' /\ ClientInHand' = 0
  BY DEF SendFirst, SendFirstFails, PumpInv, FirstHeld, ClientInHand,
         HalfCloseInv, ClientLane
<1>2. HalfCloseInv'
  BY <1>1, NilIsNoReport DEF HalfCloseInv
<1>3. CASE SendFirst /\ SendToBackend(first)
  <2>1. ~StreamOver /\ Len(bGot) + Len(toB) + 1 = cSent - Len(inbox)
    BY <1>1, <1>3 DEF SendToBackend, ClientLane
  <2>2. first = Len(bGot) + Len(toB) + 1
    BY <1>1, <2>1 DEF ClientLane
  <2>3. /\ toB' \in Seq(Nat) /\ Len(toB') = Len(toB) + 1
        /\ Run(toB', Len(bGot)) /\ UNCHANGED ended
    BY <1>1, <1>3, <2>2, WriteToBackend
  <2>4. Len(bGot) + Len(toB') + 0 = cSent - Len(inbox)
    BY <2>1, <2>3, ClientLens
  <2> QED
    BY <1>1, <1>2, <2>3, <2>4 DEF ClientLane
<1>4. CASE StreamOver' /\ UNCHANGED toB
  BY <1>1, <1>2, <1>4 DEF ClientLane
<1> QED
  BY <1>3, <1>4, <1>1
  DEF SendFirst, SendFirstFails, SendSeesEnd, SendFails

(* The pump from the client.                                               *)
LEMMA C2SKeepsLane ==
  ASSUME ClientLane, HalfCloseInv, PumpInv,
         C2SStep \/ RecvFromClientTooBig \/ SendOnFails
  PROVE  ClientLane' /\ HalfCloseInv'
<1>1. /\ c2sPc \in {"recv", "send"} /\ hPc \notin BeforePumps
      /\ ~FirstHeld /\ ~FirstHeld' /\ halfClose = "none" /\ c2sCh = Nil
      /\ UNCHANGED <<cSent, cClosed, bStatus, bGot, first, halfClose, hPc>>
  BY NilIsNoReport
  DEF C2SStep, RecvFromClient, RecvClientEOF, RecvFromClientFails, SendOn,
      SendOnSeesEnd, RecvFromClientTooBig, SendOnFails, PumpInv, FirstHeld,
      HalfCloseInv
<1>2. ClientInHand = IF c2sPc = "send" THEN 1 ELSE 0
  BY <1>1 DEF ClientInHand
<1>3. ClientInHand' = IF c2sPc' = "send" THEN 1 ELSE 0
  BY <1>1 DEF ClientInHand
<1>4. CASE RecvFromClient
  <2>1. /\ inbox # <<>> /\ c2sFrame' = Head(inbox) /\ inbox' = Tail(inbox)
        /\ c2sPc = "recv" /\ c2sPc' = "send" /\ UNCHANGED <<toB, ended, c2sCh>>
    BY <1>4 DEF RecvFromClient
  <2>2. /\ inbox' \in Seq(Nat) /\ Len(inbox') = Len(inbox) - 1 /\ Len(inbox) > 0
        /\ c2sFrame' = cSent - Len(inbox) + 1
        /\ Run(inbox', cSent - Len(inbox) + 1)
    BY <2>1, ClientLens, RunTail DEF ClientLane
  <2>3. cSent' - Len(inbox') = cSent - Len(inbox) + 1 /\ Len(inbox') <= cSent'
    BY <1>1, <2>2, ClientLens DEF ClientLane
  <2>4. ~StreamOver => Len(bGot) + Len(toB) + 0 = cSent - Len(inbox)
    BY <1>2, <2>1 DEF ClientLane
  <2>5. ~StreamOver' => Len(bGot') + Len(toB') + 1 = cSent' - Len(inbox')
    BY <1>1, <2>1, <2>3, <2>4, ClientLens
  <2>6. ClientLane'
    BY <1>1, <1>3, <2>1, <2>2, <2>3, <2>5 DEF ClientLane
  <2> QED
    BY <1>1, <2>1, <2>6, NilIsNoReport DEF HalfCloseInv
<1>5. CASE SendOn
  <2>1. /\ SendToBackend(c2sFrame) /\ c2sPc = "send" /\ c2sPc' = "recv"
        /\ ~StreamOver /\ UNCHANGED <<inbox, c2sCh>>
    BY <1>5 DEF SendOn, SendToBackend
  <2>2. /\ Len(bGot) + Len(toB) + 1 = cSent - Len(inbox)
        /\ c2sFrame = cSent - Len(inbox)
    BY <1>2, <2>1 DEF ClientLane
  <2>3. /\ toB' \in Seq(Nat) /\ Len(toB') = Len(toB) + 1
        /\ Run(toB', Len(bGot)) /\ UNCHANGED ended
    BY <1>1, <2>1, <2>2, WriteToBackend
  <2>4. Len(bGot') + Len(toB') + 0 = cSent' - Len(inbox')
    BY <1>1, <2>1, <2>2, <2>3, ClientLens
  <2>5. ClientLane'
    BY <1>1, <1>3, <2>1, <2>3, <2>4 DEF ClientLane
  <2> QED
    BY <1>1, <2>1, <2>5, NilIsNoReport DEF HalfCloseInv
<1>6. CASE RecvClientEOF
  <2>1. /\ c2sPc = "recv" /\ inbox = <<>> /\ cClosed /\ c2sPc' = "exited"
        /\ UNCHANGED <<inbox, toB, ended>>
    BY <1>6 DEF RecvClientEOF
  <2>2. Len(inbox) = 0
    BY <2>1, EmptySeq
  <2>3. ~StreamOver => Len(bGot) + Len(toB) + 0 = cSent - 0
    BY <1>2, <2>1, <2>2 DEF ClientLane
  <2>4. ~StreamOver => Len(bGot) + Len(toB) = cSent
    BY <2>3, ClientLens
  <2>5. ClientLane'
    BY <1>1, <2>1 DEF ClientLane
  <2> QED
    BY <1>1, <2>1, <2>4, <2>5 DEF HalfCloseInv
<1>7. CASE \/ RecvFromClientFails \/ SendOnSeesEnd \/ RecvFromClientTooBig
           \/ SendOnFails
  <2>1. /\ c2sPc' = "exited" /\ UNCHANGED <<inbox, toB>>
        /\ c2sCh' = "EOF" => StreamOver'
    BY <1>7
    DEF RecvFromClientFails, SendOnSeesEnd, SendSeesEnd, RecvFromClientTooBig,
        SendOnFails, SendFails
  <2>2. ClientLane'
    BY <1>1, <2>1 DEF ClientLane
  <2> QED
    BY <1>1, <2>1, <2>2 DEF HalfCloseInv
<1> QED
  BY <1>4, <1>5, <1>6, <1>7 DEF C2SStep

(* Every other step leaves the messages of the client where they are; the  *)
(* handler goes on, and the backend stream, once over, stays so.           *)
LEMMA OthersKeepClientLane ==
  ASSUME ClientLane, HalfCloseInv, PumpInv,
         UNCHANGED <<cSent, inbox, toB, bGot, first, c2sFrame>>,
         cClosed => cClosed', StreamOver => StreamOver',
         \/ UNCHANGED <<hPc, c2sPc, c2sCh, halfClose>>
         \/ /\ hPc \in {"acquire", "open"}
            /\ hPc' \in {"open", "first", "start"} \cup Returned
            /\ hPc' = "start" => first = Nil
            /\ UNCHANGED <<c2sPc, c2sCh, halfClose>>
         \/ /\ hPc = "start" /\ hPc' = "select" /\ c2sPc' = "recv"
            /\ UNCHANGED <<c2sCh, halfClose>>
         \/ /\ hPc \notin BeforePumps /\ hPc' \notin BeforePumps
            /\ c2sPc' = c2sPc
            /\ c2sCh' \in {c2sCh, Nil} /\ UNCHANGED halfClose
         \/ /\ hPc \notin BeforePumps /\ hPc' \notin BeforePumps
            /\ c2sPc' = c2sPc
            /\ c2sCh = "EOF" /\ c2sCh' = Nil
            /\ halfClose' = IF StreamOver THEN "over" ELSE "live"
  PROVE  ClientLane' /\ HalfCloseInv'
<1>1. HalfCloseInv'
  BY NilIsNoReport DEF HalfCloseInv, PumpInv
<1>2. ClientInHand' = ClientInHand \/ ~(hPc' \in BeforePumps \/ c2sPc' \in {"recv", "send"})
  BY DEF ClientInHand, FirstHeld, PumpInv
<1>3. (FirstHeld' => FirstHeld) /\ (c2sPc' = "send" => c2sPc = "send")
  BY DEF FirstHeld
<1>4. hPc' \in BeforePumps \/ c2sPc' \in {"recv", "send"}
        => hPc \in BeforePumps \/ c2sPc \in {"recv", "send"}
  OBVIOUS
<1> QED
  BY <1>1, <1>2, <1>3, <1>4 DEF ClientLane

-----------------------------------------------------------------------------
(* The messages of the backend.                                            *)

LEMMA ServerLens ==
  ASSUME ServerLane
  PROVE  /\ Len(fromB) \in Nat /\ Len(outbox) \in Nat /\ Len(cGot) \in Nat
         /\ bSent \in Nat /\ bSent - Len(fromB) \in Nat
BY LenProperties DEF ServerLane

LEMMA BackendSendKeeps ==
  ASSUME ServerLane, BackendSend
  PROVE  ServerLane'
<1>1. /\ bSent' = bSent + 1 /\ fromB' = Append(fromB, bSent + 1)
      /\ UNCHANGED <<clientVars, s2cVars>>
  BY DEF BackendSend
<1>2. /\ fromB' \in Seq(Nat) /\ Len(fromB') = Len(fromB) + 1
      /\ Run(fromB', bSent - Len(fromB))
  <2>1. bSent + 1 = (bSent - Len(fromB)) + Len(fromB) + 1
    BY ServerLens
  <2> QED
    BY <1>1, <2>1, ServerLens, RunAppend DEF ServerLane
<1>3. bSent' - Len(fromB') = bSent - Len(fromB) /\ Len(fromB') <= bSent'
      /\ bSent' \in Nat
  BY <1>1, <1>2, ServerLens DEF ServerLane
<1> QED
  BY <1>1, <1>2, <1>3 DEF ServerLane

LEMMA ClientReadKeeps ==
  ASSUME ServerLane, ClientRead
  PROVE  /\ ServerLane'
         /\ Len(cGot') + Len(outbox') = Len(cGot) + Len(outbox)
<1>1. /\ outbox # <<>> /\ outbox' = Tail(outbox)
      /\ cGot' = Append(cGot, Head(outbox))
      /\ UNCHANGED <<backendVars, s2cVars>>
  BY DEF ClientRead
<1>2. /\ Len(cGot) \in Nat /\ 0 \in Int
      /\ outbox' \in Seq(Nat) /\ Len(outbox') = Len(outbox) - 1
      /\ Head(outbox) \in Nat /\ Head(outbox) = Len(cGot) + 1
      /\ Run(outbox', Len(cGot) + 1)
  BY <1>1, ServerLens, RunTail DEF ServerLane
<1>3. cGot' \in Seq(Nat) /\ Len(cGot') = Len(cGot) + 1 /\ Run(cGot', 0)
  <2>1. Head(outbox) = 0 + Len(cGot) + 1
    BY <1>2
  <2> QED
    BY <1>1, <1>2, <2>1, RunAppend DEF ServerLane
<1>4. Len(cGot') + Len(outbox') = Len(cGot) + Len(outbox)
  BY <1>2, <1>3, ServerLens
<1> QED
  BY <1>1, <1>2, <1>3, <1>4 DEF ServerLane

(* The pump from the backend. A status comes behind the last message.      *)
LEMMA S2CKeepsLane ==
  ASSUME ServerLane, S2CStep \/ RecvTooBig \/ SendToClientTooBig
  PROVE  /\ ServerLane'
         /\ RecvStatus => Len(cGot) + Len(outbox) = bSent
<1>1. UNCHANGED <<bSent, cGot>> /\ s2cPc \notin {"idle", "exited"}
  BY DEF S2CStep, HeaderArrives, HeaderMissing, SendHeader, SendHeaderFails,
         RecvFromBackend, RecvStatus, RecvSeesEnd, SendToClient,
         SendToClientFails, RecvTooBig, SendToClientTooBig
<1>2. CASE RecvFromBackend
  <2>1. /\ fromB # <<>> /\ s2cFrame' = Head(fromB) /\ fromB' = Tail(fromB)
        /\ s2cPc = "recv" /\ s2cPc' = "send" /\ UNCHANGED outbox
    BY <1>2 DEF RecvFromBackend
  <2>2. /\ fromB' \in Seq(Nat) /\ Len(fromB') = Len(fromB) - 1 /\ Len(fromB) > 0
        /\ s2cFrame' = bSent - Len(fromB) + 1
        /\ Run(fromB', bSent - Len(fromB) + 1)
    BY <2>1, ServerLens, RunTail DEF ServerLane
  <2>3. bSent' - Len(fromB') = bSent - Len(fromB) + 1 /\ Len(fromB') <= bSent'
    BY <1>1, <2>2, ServerLens DEF ServerLane
  <2>4. Len(cGot) + Len(outbox) + 0 = bSent - Len(fromB)
    BY <2>1 DEF ServerLane
  <2>5. Len(cGot') + Len(outbox') + 1 = bSent' - Len(fromB')
    BY <1>1, <2>1, <2>3, <2>4, ServerLens
  <2>6. ~RecvStatus
    BY <2>1 DEF RecvStatus
  <2> QED
    BY <1>1, <2>1, <2>2, <2>3, <2>5, <2>6 DEF ServerLane
<1>3. CASE SendToClient
  <2>1. /\ outbox' = Append(outbox, s2cFrame) /\ s2cPc = "send" /\ s2cPc' = "recv"
        /\ UNCHANGED fromB
    BY <1>3 DEF SendToClient
  <2>2. /\ Len(cGot) + Len(outbox) + 1 = bSent - Len(fromB)
        /\ s2cFrame = bSent - Len(fromB)
    BY <2>1 DEF ServerLane
  <2>3. s2cFrame = Len(cGot) + Len(outbox) + 1 /\ s2cFrame \in Nat
    BY <2>2, ServerLens
  <2>4. /\ outbox' \in Seq(Nat) /\ Len(outbox') = Len(outbox) + 1
        /\ Run(outbox', Len(cGot))
    BY <2>1, <2>3, ServerLens, RunAppend DEF ServerLane
  <2>5. Len(cGot') + Len(outbox') + 0 = bSent' - Len(fromB')
    BY <1>1, <2>1, <2>2, <2>4, ServerLens
  <2>6. ~RecvStatus
    BY <2>1 DEF RecvStatus
  <2> QED
    BY <1>1, <2>1, <2>4, <2>5, <2>6 DEF ServerLane
<1>4. CASE RecvStatus
  <2>1. /\ fromB = <<>> /\ s2cPc = "recv" /\ s2cPc' = "exited"
        /\ UNCHANGED <<fromB, outbox>>
    BY <1>4 DEF RecvStatus
  <2>2. Len(fromB) = 0 /\ Len(cGot) + Len(outbox) + 0 = bSent - Len(fromB)
    BY <2>1, EmptySeq DEF ServerLane
  <2>3. Len(cGot) + Len(outbox) = bSent
    BY <2>2, ServerLens
  <2> QED
    BY <1>1, <2>1, <2>3 DEF ServerLane
<1>5. CASE \/ HeaderArrives \/ HeaderMissing \/ SendHeader \/ SendHeaderFails
           \/ RecvSeesEnd \/ SendToClientFails \/ RecvTooBig
           \/ SendToClientTooBig
  <2>1. /\ s2cPc' # "send"
        /\ s2cPc' # "exited" => s2cPc \in {"header", "sendHeader"}
        /\ UNCHANGED <<fromB, outbox>>
    BY <1>5 DEF HeaderArrives, HeaderMissing, SendHeader, SendHeaderFails,
                RecvSeesEnd, SendToClientFails, RecvTooBig, SendToClientTooBig
  <2>2. ServerLane'
    BY <1>1, <2>1 DEF ServerLane
  <2> QED
    BY <1>4, <2>2
<1> QED
  BY <1>2, <1>3, <1>4, <1>5 DEF S2CStep

LEMMA OthersKeepServerLane ==
  ASSUME ServerLane, UNCHANGED <<bSent, fromB, outbox, cGot, s2cFrame>>,
         s2cPc' = s2cPc \/ (s2cPc # "exited" /\ s2cPc # "send" /\ s2cPc' = "header")
  PROVE  ServerLane'
BY DEF ServerLane

-----------------------------------------------------------------------------
(* The status.                                                             *)

(* A client or a backend.                                                  *)
LEMMA PeersKeepStatus ==
  ASSUME StatusInv, ServerLane, ClientStep \/ BackendStep
  PROVE  StatusInv'
<1> USE DEF StatusInv, HeaderInv, ReportInv, ResultInv, ToldInv, Errors
<1>1. CASE ClientSend \/ ClientHalfClose \/ ClientGone
  BY <1>1 DEF ClientSend, ClientHalfClose, ClientGone
<1>2. CASE ClientRead
  <2>1. /\ UNCHANGED <<cGone, cHeader, backendVars, handlerVars, ended, s2cVars>>
        /\ Len(cGot') + Len(outbox') = Len(cGot) + Len(outbox)
    BY <1>2, ClientReadKeeps DEF ClientRead
  <2> QED
    BY <2>1
<1>3. CASE BackendHeader
  BY <1>3 DEF BackendHeader, BackendLive
<1>4. CASE BackendSend
  BY <1>4 DEF BackendSend, BackendLive
<1>5. CASE BackendRead
  BY <1>5 DEF BackendRead
<1>6. CASE \E st \in {"ok", "backend"} : BackendFinish(st)
  BY <1>6 DEF BackendFinish, BackendLive
<1> QED
  BY <1>1, <1>2, <1>3, <1>4, <1>5, <1>6 DEF ClientStep, BackendStep

LEMMA S2CKeepsStatus ==
  ASSUME StatusInv, ServerLane, PumpInv,
         bStatus \in {"running", "ok", "backend"},
         S2CStep \/ RecvTooBig \/ SendToClientTooBig
  PROVE  StatusInv'
<1> USE DEF StatusInv, Errors
<1>1. /\ s2cPc # "exited" /\ result \notin {"ok", "backend"}
      /\ UNCHANGED <<hPc, result, cancelled, trailer, created, bStatus, bHeader,
                     bSent, cGone, cGot>>
      /\ ended # "open" => ended' # "open"
  BY DEF S2CStep, HeaderArrives, HeaderMissing, SendHeader, SendHeaderFails,
         RecvFromBackend, RecvStatus, RecvSeesEnd, SendToClient,
         SendToClientFails, RecvTooBig, SendToClientTooBig, ResultInv
<1>2. told' = told \/ (~Finished /\ told' \in {"write", "local"} /\ (told' = "write" => cGone))
  BY DEF S2CStep, HeaderArrives, HeaderMissing, SendHeader, SendHeaderFails,
         RecvFromBackend, RecvStatus, RecvSeesEnd, SendToClient,
         SendToClientFails, RecvTooBig, SendToClientTooBig
<1>3. ResultInv' /\ ToldInv'
  BY <1>1, <1>2 DEF ResultInv, ToldInv
<1>4. HeaderInv'
  BY <1>1, <1>2
  DEF S2CStep, HeaderArrives, HeaderMissing, SendHeader, SendHeaderFails,
      RecvFromBackend, RecvStatus, RecvSeesEnd, SendToClient,
      SendToClientFails, RecvTooBig, SendToClientTooBig, HeaderInv
<1>5. ReportInv'
  <2>1. CASE RecvStatus
    <3>1. /\ s2cPc = "recv" /\ ended = "open" /\ bStatus \in {"ok", "backend"}
          /\ ended' = bStatus
          /\ s2cCh' = [err |-> IF bStatus = "ok" THEN "EOF" ELSE bStatus,
                      backendDone |-> TRUE]
          /\ UNCHANGED <<clientVars, backendVars, handlerVars>>
      BY <2>1 DEF RecvStatus
    <3>2. Len(cGot) + Len(outbox) = bSent
      BY <2>1, S2CKeepsLane
    <3>3. bHeader => cHeader \/ cGone \/ Finished \/ cancelled
      BY <3>1 DEF HeaderInv
    <3> QED
      BY <3>1, <3>2, <3>3 DEF ReportInv
  <2>2. CASE RecvSeesEnd
    BY <2>2 DEF RecvSeesEnd, ReportInv
  <2>3. CASE SendHeaderFails \/ SendToClientFails
    BY <2>3 DEF SendHeaderFails, SendToClientFails, ReportInv
  <2>4. CASE RecvTooBig \/ SendToClientTooBig
    BY <2>4 DEF RecvTooBig, SendToClientTooBig, ReportInv
  <2>5. CASE HeaderArrives \/ HeaderMissing \/ SendHeader \/ RecvFromBackend
    BY <2>5 DEF HeaderArrives, HeaderMissing, SendHeader, RecvFromBackend,
                ReportInv
  <2>6. CASE SendToClient
    BY <2>6, <1>1 DEF SendToClient, ReportInv, PumpInv
  <2> QED
    BY <2>1, <2>2, <2>3, <2>4, <2>5, <2>6 DEF S2CStep
<1> QED
  BY <1>3, <1>4, <1>5

LEMMA C2SKeepsStatus ==
  ASSUME StatusInv, C2SStep \/ RecvFromClientTooBig \/ SendOnFails
  PROVE  StatusInv'
<1> USE DEF StatusInv, Errors
<1>1. /\ UNCHANGED <<hPc, result, cancelled, trailer, created, bStatus, bHeader,
                     bSent, cGone, cGot, outbox, cHeader, s2cPc, s2cCh>>
      /\ ended # "open" => ended' # "open"
  BY DEF C2SStep, RecvFromClient, RecvClientEOF, RecvFromClientFails, SendOn,
         SendOnSeesEnd, RecvFromClientTooBig, SendOnFails, SendToBackend,
         SendSeesEnd, SendFails
<1>2. told' = told \/ (~Finished /\ told' \in {"canceled", "local"} /\ (told' = "canceled" => cGone))
  BY DEF C2SStep, RecvFromClient, RecvClientEOF, RecvFromClientFails, SendOn,
         SendOnSeesEnd, RecvFromClientTooBig, SendOnFails
<1> QED
  BY <1>1, <1>2 DEF HeaderInv, ReportInv, ResultInv, ToldInv

LEMMA HandlerKeepsStatus ==
  ASSUME StatusInv, PumpInv, CauseInv, PinInv,
         HandlerStep \/ FinishServerStream
  PROVE  StatusInv'
<1> USE DEF StatusInv, Errors
<1>1. CASE TakeBackendEnd
  <2>1. /\ hPc = "select" /\ hPc' = "cancel" /\ s2cCh # Nil /\ s2cCh.backendDone
        /\ s2cCh' = Nil /\ s2cPc = "exited" /\ trailer'
        /\ result' = IF s2cCh.err = "EOF" THEN "ok" ELSE s2cCh.err
        /\ s2cCh.err # "EOF" => cancelled'
        /\ UNCHANGED <<clientVars, backendVars, created, told, ended, s2cPc>>
    BY <1>1 DEF TakeBackendEnd, PumpInv
  <2>2. ~cancelled /\ result = "none"
    BY <2>1 DEF ResultInv
  <2>3. told \in {"none"} \cup Errors
    BY <2>1 DEF ToldInv
  <2>4. ResultInv'
    BY <2>1, <2>2, <2>3 DEF ReportInv, ResultInv
  <2> QED
    BY <2>1, <2>2, <2>3, <2>4 DEF HeaderInv, ReportInv, ToldInv
<1>2. CASE TakeWriteFailure
  <2>1. /\ hPc = "select" /\ hPc' = "cancel" /\ s2cCh # Nil /\ ~s2cCh.backendDone
        /\ s2cCh' = Nil /\ result' = s2cCh.err /\ cancelled'
        /\ UNCHANGED <<clientVars, backendVars, created, told, ended, trailer,
                       s2cPc>>
    BY <1>2 DEF TakeWriteFailure
  <2> QED
    BY <2>1 DEF HeaderInv, ReportInv, ResultInv, ToldInv
<1>3. CASE TakeClientError
  <2>1. /\ hPc = "select" /\ hPc' = "ctx" /\ result' = c2sCh /\ cancelled'
        /\ c2sCh \in {"canceled", "local"} /\ (c2sCh = "canceled" => ServerDone)
        /\ UNCHANGED <<clientVars, backendVars, created, told, ended, trailer,
                       s2cPc, s2cCh>>
    BY <1>3 DEF TakeClientError, CauseInv
  <2> QED
    BY <2>1 DEF HeaderInv, ReportInv, ResultInv, ToldInv
<1>4. CASE SendFirst \/ SendFirstFails
  <2>1. /\ hPc = "first" /\ s2cPc = "idle" /\ s2cCh = Nil
        /\ \/ hPc' = "start" /\ result' = result
           \/ hPc' = "cancel" /\ result' = "local"
        /\ UNCHANGED <<clientVars, bStatus, bHeader, bSent, created, told,
                       cancelled, trailer, s2cPc, s2cCh>>
        /\ ended # "open" => ended' # "open"
    BY <1>4 DEF SendFirst, SendFirstFails, SendToBackend, SendSeesEnd,
                SendFails, PumpInv
  <2> QED
    BY <2>1 DEF HeaderInv, ReportInv, ResultInv, ToldInv
<1>5. CASE \/ Acquire \/ AcquireFails \/ OpenStream \/ OpenStreamFails
           \/ StartPumps
  BY <1>5 DEF Acquire, AcquireFails, OpenStream, OpenStreamFails, StartPumps,
              PinInv, PumpInv, HeaderInv, ReportInv, ResultInv, ToldInv
<1>6. CASE TakeClientEOF \/ CheckContext \/ Drain \/ DeferCancel \/ DeferRelease
  BY <1>6 DEF TakeClientEOF, CheckContext, Drain, DeferCancel, DeferRelease,
              HeaderInv, ReportInv, ResultInv, ToldInv
<1>7. CASE FinishServerStream
  BY <1>7 DEF FinishServerStream, HeaderInv, ReportInv, ResultInv, ToldInv
<1> QED
  BY <1>1, <1>2, <1>3, <1>4, <1>5, <1>6, <1>7 DEF HandlerStep

-----------------------------------------------------------------------------
(* All together.                                                           *)

AllInv == Inv /\ ClientLane /\ HalfCloseInv /\ ServerLane /\ StatusInv

LEMMA InitAll == Init => AllInv
<1> SUFFICES ASSUME Init PROVE AllInv
  OBVIOUS
<1>1. /\ Len(<<>>) = 0 /\ <<>> \in Seq(Nat) /\ \A n : Run(<<>>, n)
  BY EmptySeq DEF Run
<1>2. Inv
  BY InitInv
<1>3. ClientLane
  BY <1>1, ForwarderAssumption
  DEF Init, ClientLane, ClientInHand, FirstHeld, ForwarderAssumption
<1>4. HalfCloseInv
  BY NilIsNoReport DEF Init, HalfCloseInv
<1>5. ServerLane
  <2>1. /\ fromB = <<>> /\ outbox = <<>> /\ cGot = <<>> /\ bSent = 0
        /\ s2cPc = "idle"
    BY DEF Init
  <2>2. /\ bSent \in Nat
        /\ fromB \in Seq(Nat) /\ outbox \in Seq(Nat) /\ cGot \in Seq(Nat)
    BY <1>1, <2>1
  <2>3. Len(fromB) = 0 /\ Len(outbox) = 0 /\ Len(cGot) = 0
    BY <1>1, <2>1
  <2>4. /\ Run(cGot, 0) /\ Run(outbox, Len(cGot))
        /\ Run(fromB, bSent - Len(fromB))
    BY <1>1, <2>1
  <2>5. /\ Len(fromB) <= bSent
        /\ Len(cGot) + Len(outbox) + 0 = bSent - Len(fromB)
    <3>1. bSent = 0
      BY <2>1
    <3> QED
      BY <3>1, <2>3
  <2>6. (IF s2cPc = "send" THEN 1 ELSE 0) = 0
    BY <2>1
  <2> QED
    BY <2>1, <2>2, <2>4, <2>5, <2>6 DEF ServerLane
<1>6. StatusInv
  BY DEF Init, StatusInv, HeaderInv, ReportInv, ResultInv, ToldInv, Errors
<1> QED
  BY <1>2, <1>3, <1>4, <1>5, <1>6 DEF AllInv

LEMMA PeersKeepAll ==
  ASSUME AllInv, ClientStep \/ BackendStep
  PROVE  ClientLane' /\ HalfCloseInv' /\ ServerLane' /\ StatusInv'
<1> USE DEF AllInv
<1>1. StatusInv'
  BY PeersKeepStatus
<1>2. ServerLane'
  <2>1. CASE UNCHANGED <<bSent, fromB, outbox, cGot, s2cVars>>
    BY <2>1, OthersKeepServerLane
  <2> QED
    BY <2>1, BackendSendKeeps, ClientReadKeeps
    DEF ClientStep, ClientSend, ClientHalfClose, ClientGone, BackendStep,
        BackendHeader, BackendRead, BackendFinish
<1>3. ClientLane' /\ HalfCloseInv'
  <2>1. CASE /\ UNCHANGED <<cSent, inbox, toB, bGot, handlerVars, c2sVars>>
             /\ cClosed => cClosed'
             /\ StreamOver => StreamOver'
    BY <2>1, OthersKeepClientLane DEF Inv
  <2>2. CASE ClientSend \/ BackendRead
    BY <2>2, ClientSendKeeps, BackendReadKeeps
  <2>3. CASE \/ ClientHalfClose \/ ClientRead \/ ClientGone \/ BackendHeader
             \/ BackendSend \/ \E st \in {"ok", "backend"} : BackendFinish(st)
    BY <2>1, <2>3
    DEF ClientHalfClose, ClientRead, ClientGone, BackendHeader, BackendSend,
        BackendFinish
  <2> QED
    BY <2>2, <2>3 DEF ClientStep, BackendStep
<1> QED
  BY <1>1, <1>2, <1>3

LEMMA HandlerKeepsAll ==
  ASSUME AllInv, HandlerStep \/ FinishServerStream
  PROVE  ClientLane' /\ HalfCloseInv' /\ ServerLane' /\ StatusInv'
<1> USE DEF AllInv
<1>1. StatusInv'
  BY HandlerKeepsStatus DEF Inv, EndInv
<1>2. ServerLane'
  BY OthersKeepServerLane
  DEF Inv, PumpInv, HandlerStep, Acquire, AcquireFails, OpenStream,
      OpenStreamFails, SendFirst, SendFirstFails, StartPumps,
      TakeWriteFailure, TakeBackendEnd, TakeClientError, TakeClientEOF,
      CheckContext, Drain, DeferCancel, DeferRelease, FinishServerStream
<1>3. ClientLane' /\ HalfCloseInv'
  <2>1. CASE SendFirst \/ SendFirstFails
    <3>1. first # Nil
      BY <2>1 DEF Inv, PinInv, SendFirst, SendFirstFails
    <3> QED
      BY <2>1, <3>1, SendFirstKeeps DEF Inv
  <2>2. CASE Acquire \/ AcquireFails \/ OpenStream \/ OpenStreamFails
    BY <2>2, OthersKeepClientLane
    DEF Inv, Acquire, AcquireFails, OpenStream, OpenStreamFails
  <2>3. CASE StartPumps
    BY <2>3, OthersKeepClientLane DEF Inv, StartPumps
  <2>4. CASE \/ TakeWriteFailure \/ TakeBackendEnd \/ TakeClientError
             \/ TakeClientEOF \/ CheckContext \/ Drain \/ DeferCancel
             \/ DeferRelease \/ FinishServerStream
    BY <2>4, OthersKeepClientLane
    DEF Inv, TakeWriteFailure, TakeBackendEnd, TakeClientError, TakeClientEOF,
        CheckContext, Drain, DeferCancel, DeferRelease, FinishServerStream
  <2> QED
    BY <2>1, <2>2, <2>3, <2>4 DEF HandlerStep
<1> QED
  BY <1>1, <1>2, <1>3

LEMMA PumpsKeepAll ==
  ASSUME AllInv, S2CStep \/ C2SStep \/ SizeLimit
  PROVE  ClientLane' /\ HalfCloseInv' /\ ServerLane' /\ StatusInv'
<1> USE DEF AllInv
<1>1. CASE S2CStep \/ RecvTooBig \/ SendToClientTooBig
  <2>1. StatusInv' /\ ServerLane'
    BY <1>1, S2CKeepsStatus, S2CKeepsLane DEF Inv, EndInv
  <2>2. /\ UNCHANGED <<cSent, cClosed, inbox, toB, bGot, first, hPc, halfClose,
                       c2sVars>>
        /\ StreamOver => StreamOver'
    BY <1>1
    DEF S2CStep, HeaderArrives, HeaderMissing, SendHeader, SendHeaderFails,
        RecvFromBackend, RecvStatus, RecvSeesEnd, SendToClient,
        SendToClientFails, RecvTooBig, SendToClientTooBig
  <2>3. ClientLane' /\ HalfCloseInv'
    BY <2>2, OthersKeepClientLane DEF Inv
  <2> QED
    BY <2>1, <2>3
<1>2. CASE C2SStep \/ RecvFromClientTooBig \/ SendOnFails
  <2>1. StatusInv' /\ ClientLane' /\ HalfCloseInv'
    BY <1>2, C2SKeepsStatus, C2SKeepsLane DEF Inv
  <2>2. UNCHANGED <<bSent, fromB, outbox, cGot, s2cVars>>
    BY <1>2
    DEF C2SStep, RecvFromClient, RecvClientEOF, RecvFromClientFails, SendOn,
        SendOnSeesEnd, RecvFromClientTooBig, SendOnFails
  <2> QED
    BY <2>1, <2>2, OthersKeepServerLane
<1> QED
  BY <1>1, <1>2 DEF SizeLimit

LEMMA NextAll == AllInv /\ [Next]_vars => AllInv'
<1> SUFFICES ASSUME AllInv, [Next]_vars
             PROVE  AllInv'
  OBVIOUS
<1>1. Inv'
  BY NextInv DEF AllInv
<1>2. ClientLane' /\ HalfCloseInv' /\ ServerLane' /\ StatusInv'
  <2>1. CASE UNCHANGED vars
    BY <2>1
    DEF vars, AllInv, ClientLane, HalfCloseInv, ServerLane, StatusInv,
        ClientInHand, FirstHeld, HeaderInv, ReportInv, ResultInv, ToldInv
  <2> QED
    BY <2>1, PeersKeepAll, HandlerKeepsAll, PumpsKeepAll DEF Next
<1> QED
  BY <1>1, <1>2 DEF AllInv

LEMMA AllInvariant == Spec => []AllInv
BY InitAll, NextAll, PTL DEF Spec

-----------------------------------------------------------------------------
(* Forward implements TransparentPipe.                                     *)

(* No error of gRPC in the proxy without a size limit in force.            *)
LimitInv ==
  ~LocalFaults =>
    /\ "local" \notin {c2sCh, ended, result, told}
    /\ s2cCh # Nil => s2cCh.err # "local"

(* Nothing moves before the stream is there, or without it.                *)
QuietInv ==
  /\ hPc \in BeforePumps => cGot = <<>> /\ outbox = <<>>
  /\ hPc \in {"acquire", "open"} => bGot = <<>> /\ toB = <<>>
  /\ result = "unavailable" =>
       /\ hPc \in Returned /\ ~created /\ s2cPc = "idle" /\ c2sPc = "idle"
       /\ bGot = <<>> /\ toB = <<>> /\ cGot = <<>> /\ outbox = <<>>

(* CloseSend runs once.                                                    *)
OnceInv == halfClose # "none" => c2sCh = Nil /\ c2sPc = "exited"

PipeInv == AllInv /\ LimitInv /\ QuietInv /\ OnceInv

LEMMA PipeInvInit == Init => PipeInv
<1> SUFFICES ASSUME Init PROVE PipeInv
  OBVIOUS
<1>1. AllInv
  BY InitAll
<1>2. LimitInv
  BY NilIsNoReport DEF Init, LimitInv
<1>3. QuietInv /\ OnceInv
  BY DEF Init, QuietInv, OnceInv
<1> QED
  BY <1>1, <1>2, <1>3 DEF PipeInv

LEMMA LimitKept ==
  ASSUME PipeInv, Next
  PROVE  LimitInv'
<1> USE DEF PipeInv, LimitInv
<1>1. CASE ClientStep \/ BackendStep
  BY <1>1
  DEF ClientStep, ClientSend, ClientHalfClose, ClientRead, ClientGone,
      BackendStep, BackendHeader, BackendSend, BackendRead, BackendFinish
<1>2. CASE HandlerStep \/ FinishServerStream
  <2>1. CASE \/ Acquire \/ AcquireFails \/ OpenStream \/ OpenStreamFails
             \/ StartPumps \/ CheckContext \/ DeferCancel \/ DeferRelease
             \/ FinishServerStream
    BY <2>1
    DEF Acquire, AcquireFails, OpenStream, OpenStreamFails, StartPumps,
        CheckContext, DeferCancel, DeferRelease, FinishServerStream
  <2>2. CASE SendFirst \/ SendFirstFails
    BY <2>2
    DEF SendFirst, SendFirstFails, SendToBackend, SendSeesEnd, SendFails
  <2>3. CASE TakeWriteFailure \/ TakeBackendEnd \/ Drain
    BY <2>3, NilIsNoReport DEF TakeWriteFailure, TakeBackendEnd, Drain
  <2>4. CASE TakeClientError \/ TakeClientEOF
    BY <2>4, NilIsNoReport DEF TakeClientError, TakeClientEOF
  <2> QED
    BY <1>2, <2>1, <2>2, <2>3, <2>4 DEF HandlerStep
<1>3. CASE S2CStep \/ C2SStep
  <2>1. bStatus # "local"
    BY DEF AllInv, Inv, EndInv
  <2>2. CASE S2CStep
    BY <2>1, <2>2
    DEF S2CStep, HeaderArrives, HeaderMissing, SendHeader, SendHeaderFails,
        RecvFromBackend, RecvStatus, RecvSeesEnd, SendToClient,
        SendToClientFails
  <2>3. CASE C2SStep
    BY <2>3
    DEF C2SStep, RecvFromClient, RecvClientEOF, RecvFromClientFails, SendOn,
        SendOnSeesEnd, SendToBackend, SendSeesEnd
  <2> QED
    BY <1>3, <2>2, <2>3
<1>4. CASE SizeLimit
  BY <1>4
  DEF SizeLimit, RecvTooBig, SendToClientTooBig, RecvFromClientTooBig,
      SendOnFails, SendFails
<1> QED
  BY <1>1, <1>2, <1>3, <1>4 DEF Next

LEMMA OnceKept ==
  ASSUME PipeInv, Next
  PROVE  OnceInv'
<1> USE DEF PipeInv, OnceInv
<1>1. CASE ClientStep \/ BackendStep
  BY <1>1
  DEF ClientStep, ClientSend, ClientHalfClose, ClientRead, ClientGone,
      BackendStep, BackendHeader, BackendSend, BackendRead, BackendFinish
<1>2. CASE HandlerStep \/ FinishServerStream
  BY <1>2, NilIsNoReport
  DEF AllInv, HalfCloseInv, HandlerStep, Acquire, AcquireFails, OpenStream,
      OpenStreamFails, SendFirst, SendFirstFails, StartPumps,
      TakeWriteFailure, TakeBackendEnd, TakeClientError, TakeClientEOF,
      CheckContext, Drain, DeferCancel, DeferRelease, FinishServerStream
<1>3. CASE S2CStep \/ C2SStep \/ SizeLimit
  BY <1>3
  DEF S2CStep, HeaderArrives, HeaderMissing, SendHeader, SendHeaderFails,
      RecvFromBackend, RecvStatus, RecvSeesEnd, SendToClient,
      SendToClientFails, C2SStep, RecvFromClient, RecvClientEOF,
      RecvFromClientFails, SendOn, SendOnSeesEnd, SizeLimit, RecvTooBig,
      SendToClientTooBig, RecvFromClientTooBig, SendOnFails
<1> QED
  BY <1>1, <1>2, <1>3 DEF Next

LEMMA QuietKept ==
  ASSUME PipeInv, Next
  PROVE  QuietInv'
<1> USE DEF PipeInv, QuietInv
<1> DEFINE Silent == UNCHANGED <<outbox, cGot, toB, bGot>>
<1>1. CASE ClientStep
  BY <1>1 DEF ClientStep, ClientSend, ClientHalfClose, ClientRead, ClientGone
<1>2. CASE BackendStep
  BY <1>2
  DEF AllInv, Inv, PinInv, BackendStep, BackendLive, BackendHeader,
      BackendSend, BackendRead, BackendFinish
<1>3. CASE HandlerStep \/ FinishServerStream
  <2>1. CASE Acquire \/ AcquireFails \/ OpenStream \/ OpenStreamFails
    BY <2>1
    DEF AllInv, Inv, PinInv, PumpInv, StatusInv, ResultInv, Acquire,
        AcquireFails, OpenStream, OpenStreamFails
  <2>2. CASE SendFirst \/ SendFirstFails \/ StartPumps
    BY <2>2
    DEF AllInv, StatusInv, ResultInv, SendFirst, SendFirstFails, StartPumps
  <2>3. CASE TakeWriteFailure \/ TakeBackendEnd
    BY <2>3
    DEF AllInv, StatusInv, ReportInv, Errors, TakeWriteFailure,
        TakeBackendEnd
  <2>4. CASE TakeClientError \/ TakeClientEOF
    BY <2>4, NilIsNoReport
    DEF AllInv, Inv, CauseInv, TakeClientError, TakeClientEOF
  <2>5. CASE \/ CheckContext \/ Drain \/ DeferCancel \/ DeferRelease
             \/ FinishServerStream
    BY <2>5
    DEF CheckContext, Drain, DeferCancel, DeferRelease, FinishServerStream
  <2> QED
    BY <1>3, <2>1, <2>2, <2>3, <2>4, <2>5 DEF HandlerStep
<1>4. CASE S2CStep \/ RecvTooBig \/ SendToClientTooBig
  BY <1>4
  DEF AllInv, Inv, PumpInv, S2CStep, HeaderArrives, HeaderMissing, SendHeader,
      SendHeaderFails, RecvFromBackend, RecvStatus, RecvSeesEnd,
      SendToClient, SendToClientFails, RecvTooBig, SendToClientTooBig
<1>5. CASE C2SStep \/ RecvFromClientTooBig \/ SendOnFails
  BY <1>5
  DEF AllInv, Inv, PumpInv, C2SStep, RecvFromClient, RecvClientEOF,
      RecvFromClientFails, SendOn, SendOnSeesEnd, SendToBackend, SendSeesEnd,
      SendFails, RecvFromClientTooBig, SendOnFails
<1> QED
  BY <1>1, <1>2, <1>3, <1>4, <1>5 DEF Next, SizeLimit

LEMMA PipeInvariant == Spec => []PipeInv
<1>1. ASSUME PipeInv, [Next]_vars PROVE PipeInv'
  <2>1. AllInv'
    BY <1>1, NextAll DEF PipeInv
  <2>2. CASE Next
    BY <1>1, <2>1, <2>2, LimitKept, OnceKept, QuietKept DEF PipeInv
  <2>3. CASE UNCHANGED vars
    BY <1>1, <2>1, <2>3 DEF vars, PipeInv, LimitInv, OnceInv, QuietInv
  <2> QED
    BY <1>1, <2>2, <2>3
<1> QED
  BY <1>1, PipeInvInit, PTL DEF Spec

LEMMA NumberedAppend ==
  ASSUME NEW n \in Nat
  PROVE  Append(Numbered(n), n + 1) = Numbered(n + 1)
<1>1. Numbered(n) \in Seq(Nat) /\ Len(Numbered(n)) = n
  BY LenProperties DEF Numbered
<1>2. Run(Numbered(n), 0)
  BY <1>1 DEF Run, Numbered
<1>3. /\ Append(Numbered(n), n + 1) \in Seq(Nat)
      /\ Len(Append(Numbered(n), n + 1)) = n + 1
      /\ Run(Append(Numbered(n), n + 1), 0)
  BY <1>1, <1>2, RunAppend
<1>4. DOMAIN Append(Numbered(n), n + 1) = 1..(n + 1)
  BY <1>3, LenProperties
<1> QED
  BY <1>3, <1>4 DEF Run, Numbered

(* The lanes of the pipe, as their lengths.                                *)
LEMMA LanesNumbered ==
  ASSUME ClientLane, ServerLane
  PROVE  /\ WrittenToBackend = Numbered(Len(bGot) + Len(toB))
         /\ WrittenToClient = Numbered(Len(cGot) + Len(outbox))
         /\ Len(WrittenToBackend) = Len(bGot) + Len(toB)
         /\ Len(WrittenToClient) = Len(cGot) + Len(outbox)
<1>1. /\ WrittenToBackend = Numbered(Len(bGot) + Len(toB))
      /\ WrittenToClient = Numbered(Len(cGot) + Len(outbox))
  BY RunJoin
  DEF ClientLane, ServerLane, WrittenToBackend, WrittenToClient
<1>2. \A n \in Nat : Len(Numbered(n)) = n
  BY LenProperties DEF Numbered
<1> QED
  BY <1>1, <1>2, ClientLens, ServerLens

LEMMA Hidden ==
  ASSUME UNCHANGED <<cSent, cClosed, cGone, halfClose, bSent, bStatus, told>>,
         UNCHANGED <<WrittenToBackend, WrittenToClient>>
  PROVE  UNCHANGED Pipe!vars
BY DEF Pipe!vars, Outcome

LEMMA PipeInit == Init => Pipe!Init
<1> SUFFICES ASSUME Init PROVE Pipe!Init
  OBVIOUS
<1>1. WrittenToBackend = <<>> /\ WrittenToClient = <<>>
  BY DEF Init, WrittenToBackend, WrittenToClient
<1>2. (cGone \/ LocalFaults) \in BOOLEAN
  OBVIOUS
<1> QED
  BY <1>1, <1>2 DEF Init, Pipe!Init, Outcome

LEMMA PeersImplement ==
  ASSUME PipeInv, PipeInv', ClientStep \/ BackendStep
  PROVE  [Pipe!Next]_(Pipe!vars)
<1> DEFINE Lanes == <<WrittenToBackend, WrittenToClient>>
<1>1. CASE ClientSend
  <2>1. Pipe!ClientSends
    BY <1>1
    DEF ClientSend, Pipe!ClientSends, WrittenToBackend, WrittenToClient,
        Outcome
  <2> QED
    BY <2>1 DEF Pipe!Next
<1>2. CASE ClientHalfClose
  <2>1. Pipe!ClientCloses
    BY <1>2
    DEF ClientHalfClose, Pipe!ClientCloses, WrittenToBackend,
        WrittenToClient, Outcome
  <2> QED
    BY <2>1 DEF Pipe!Next
<1>3. CASE ClientRead
  <2>1. Len(cGot') + Len(outbox') = Len(cGot) + Len(outbox)
    <3>1. /\ outbox \in Seq(Nat) /\ cGot \in Seq(Nat) /\ outbox # <<>>
          /\ Run(outbox, Len(cGot)) /\ outbox' = Tail(outbox)
          /\ cGot' = Append(cGot, Head(outbox))
      BY <1>3 DEF ClientRead, PipeInv, AllInv, ServerLane
    <3>2. Len(outbox') = Len(outbox) - 1 /\ Head(outbox) \in Nat
          /\ Len(outbox) \in Nat /\ Len(cGot) \in Nat
      BY <3>1, RunTail, LenProperties
    <3>3. Len(cGot') = Len(cGot) + 1
      BY <3>1, <3>2, AppendProperties
    <3> QED
      BY <3>2, <3>3
  <2>2. UNCHANGED Lanes
    <3>1. WrittenToClient' = Numbered(Len(cGot') + Len(outbox'))
      BY RunJoin DEF PipeInv, AllInv, ServerLane, WrittenToClient
    <3>2. WrittenToClient = Numbered(Len(cGot) + Len(outbox))
      BY LanesNumbered DEF PipeInv, AllInv
    <3> QED
      BY <1>3, <2>1, <3>1, <3>2 DEF ClientRead, WrittenToBackend
  <2> QED
    BY <1>3, <2>2, Hidden DEF ClientRead
<1>4. CASE ClientGone
  <2>1. UNCHANGED Lanes /\ UNCHANGED Outcome
    BY <1>4 DEF ClientGone, WrittenToBackend, WrittenToClient, Outcome
  <2>2. CASE LocalFaults
    BY <1>4, <2>1, <2>2 DEF ClientGone, ClientLive, Pipe!vars
  <2>3. CASE ~LocalFaults
    <3>1. Pipe!Trouble
      BY <1>4, <2>1, <2>3 DEF ClientGone, ClientLive, Pipe!Trouble
    <3> QED
      BY <3>1 DEF Pipe!Next
  <2> QED
    BY <2>2, <2>3
<1>5. CASE BackendHeader
  BY <1>5, Hidden DEF BackendHeader, WrittenToBackend, WrittenToClient
<1>6. CASE BackendSend
  <2>1. Pipe!BackendSends
    BY <1>6
    DEF BackendSend, BackendLive, Pipe!BackendSends, WrittenToBackend,
        WrittenToClient, Outcome
  <2> QED
    BY <2>1 DEF Pipe!Next
<1>7. CASE BackendRead
  <2>1. Len(bGot') + Len(toB') = Len(bGot) + Len(toB)
    <3>1. /\ toB \in Seq(Nat) /\ bGot \in Seq(Nat) /\ toB # <<>>
          /\ Run(toB, Len(bGot)) /\ toB' = Tail(toB)
          /\ bGot' = Append(bGot, Head(toB))
      BY <1>7 DEF BackendRead, PipeInv, AllInv, ClientLane
    <3>2. Len(toB') = Len(toB) - 1 /\ Head(toB) \in Nat
          /\ Len(toB) \in Nat /\ Len(bGot) \in Nat
      BY <3>1, RunTail, LenProperties
    <3>3. Len(bGot') = Len(bGot) + 1
      BY <3>1, <3>2, AppendProperties
    <3> QED
      BY <3>2, <3>3
  <2>2. UNCHANGED Lanes
    <3>1. WrittenToBackend' = Numbered(Len(bGot') + Len(toB'))
      BY RunJoin DEF PipeInv, AllInv, ClientLane, WrittenToBackend
    <3>2. WrittenToBackend = Numbered(Len(bGot) + Len(toB))
      BY LanesNumbered DEF PipeInv, AllInv
    <3> QED
      BY <1>7, <2>1, <3>1, <3>2 DEF BackendRead, WrittenToClient
  <2> QED
    BY <1>7, <2>2, Hidden DEF BackendRead
<1>8. ASSUME NEW st \in {"ok", "backend"}, BackendFinish(st)
      PROVE  Pipe!BackendEnds
  BY <1>8
  DEF BackendFinish, BackendLive, Pipe!BackendEnds, WrittenToBackend,
      WrittenToClient, Outcome
<1> QED
  BY <1>1, <1>2, <1>3, <1>4, <1>5, <1>6, <1>7, <1>8
  DEF ClientStep, BackendStep, Pipe!Next

(* The one change of the lane to the backend, for both callers of SendMsg. *)
LEMMA SendImplements ==
  ASSUME PipeInv, NEW m, SendToBackend(m),
         m = Len(bGot) + Len(toB) + 1, m <= cSent, halfClose # "live",
         UNCHANGED <<clientVars, bSent, bStatus, bGot, halfClose, told>>,
         ClientLane', ServerLane'
  PROVE  Pipe!CarryToBackend
<1>1. /\ toB \in Seq(Nat) /\ toB' = Append(toB, m) /\ m \in Nat
      /\ Len(toB) \in Nat /\ Len(bGot) \in Nat
  BY ClientLens DEF SendToBackend, PipeInv, AllInv, ClientLane
<1>2. Len(toB') = Len(toB) + 1
  BY <1>1, AppendProperties
<1>3. /\ WrittenToBackend = Numbered(m - 1) /\ Len(WrittenToBackend) = m - 1
      /\ m - 1 \in Nat
  BY <1>1, LanesNumbered DEF PipeInv, AllInv
<1>4. WrittenToBackend' = Numbered(Len(bGot') + Len(toB'))
  BY RunJoin DEF ClientLane, WrittenToBackend
<1>5. WrittenToBackend' = Numbered(m)
  BY <1>1, <1>2, <1>4
<1>6. WrittenToBackend' = Append(WrittenToBackend, Len(WrittenToBackend) + 1)
  <2>1. Append(Numbered(m - 1), (m - 1) + 1) = Numbered((m - 1) + 1)
    BY <1>3, NumberedAppend
  <2> QED
    BY <1>1, <1>3, <1>5, <2>1
<1>7. Len(WrittenToBackend) < cSent
  BY <1>1, <1>3, ClientLens DEF PipeInv, AllInv
<1>8. UNCHANGED <<WrittenToClient, Outcome>>
  BY DEF WrittenToClient, Outcome
<1> QED
  BY <1>6, <1>7, <1>8 DEF Pipe!CarryToBackend

(* An error that gRPC tells the client on its own leg.                     *)
LEMMA TellImplements ==
  ASSUME PipeInv, NEW st \in Errors, Tell(st), ServerDone \/ LocalFaults,
         UNCHANGED <<clientVars, backendVars, halfClose>>
  PROVE  [Pipe!Next]_(Pipe!vars)
<1>1. UNCHANGED <<WrittenToBackend, WrittenToClient>>
  BY DEF WrittenToBackend, WrittenToClient
<1>2. CASE Finished
  BY <1>1, <1>2, Hidden
<1>3. CASE ~Finished
  <2>1. Outcome = "none" /\ Outcome' = "failed"
    BY <1>3 DEF Outcome, Errors
  <2>2. Pipe!Fail
    BY <1>1, <1>3, <2>1 DEF Pipe!Fail
  <2> QED
    BY <2>2 DEF Pipe!Next
<1> QED
  BY <1>2, <1>3

LEMMA HandlerImplements ==
  ASSUME PipeInv, PipeInv', HandlerStep
  PROVE  [Pipe!Next]_(Pipe!vars)
<1>1. CASE SendFirst /\ SendToBackend(first)
  <2>1. /\ hPc = "first" /\ first # Nil /\ FirstHeld /\ ~StreamOver
        /\ UNCHANGED <<clientVars, bSent, bStatus, bGot, halfClose, told>>
    BY <1>1
    DEF SendFirst, SendToBackend, FirstHeld, PipeInv, AllInv, Inv, PinInv
  <2>2. /\ first = 1 /\ cSent - Len(inbox) = 1
        /\ Len(bGot) + Len(toB) + 1 = cSent - Len(inbox)
    BY <2>1 DEF PipeInv, AllInv, ClientLane, ClientInHand
  <2>3. first = Len(bGot) + Len(toB) + 1 /\ first <= cSent
    BY <2>2, ClientLens DEF PipeInv, AllInv
  <2>4. halfClose # "live"
    BY <2>1 DEF PipeInv, AllInv, HalfCloseInv
  <2>5. Pipe!CarryToBackend
    BY <1>1, <2>1, <2>3, <2>4, SendImplements DEF PipeInv, AllInv
  <2> QED
    BY <2>5 DEF Pipe!Next
<1>2. CASE (SendFirst /\ SendSeesEnd) \/ SendFirstFails
  BY <1>2, Hidden
  DEF SendFirst, SendFirstFails, SendSeesEnd, SendFails, WrittenToBackend,
      WrittenToClient
<1>3. CASE TakeClientEOF
  <2>1. /\ UNCHANGED <<clientVars, backendVars, told>>
        /\ UNCHANGED <<WrittenToBackend, WrittenToClient, Outcome>>
    BY <1>3 DEF TakeClientEOF, WrittenToBackend, WrittenToClient, Outcome
  <2>2. halfClose = "none" /\ c2sCh = "EOF"
    BY <1>3, NilIsNoReport DEF TakeClientEOF, PipeInv, OnceInv
  <2>3. CASE StreamOver
    BY <1>3, <2>1, <2>2, <2>3 DEF TakeClientEOF, Pipe!vars
  <2>4. CASE ~StreamOver
    <3>1. cClosed /\ Len(bGot) + Len(toB) = cSent
      BY <2>2, <2>4 DEF PipeInv, AllInv, HalfCloseInv
    <3>2. Len(WrittenToBackend) = cSent
      BY <3>1, LanesNumbered DEF PipeInv, AllInv
    <3>3. Pipe!CarryHalfClose
      BY <1>3, <2>1, <2>2, <2>4, <3>1, <3>2
      DEF TakeClientEOF, Pipe!CarryHalfClose
    <3> QED
      BY <3>3 DEF Pipe!Next
  <2> QED
    BY <2>3, <2>4
<1>4. CASE \/ Acquire \/ AcquireFails \/ OpenStream \/ OpenStreamFails
           \/ StartPumps \/ TakeWriteFailure \/ TakeBackendEnd
           \/ TakeClientError \/ CheckContext \/ Drain \/ DeferCancel
           \/ DeferRelease
  BY <1>4, Hidden
  DEF Acquire, AcquireFails, OpenStream, OpenStreamFails, StartPumps,
      TakeWriteFailure, TakeBackendEnd, TakeClientError, CheckContext, Drain,
      DeferCancel, DeferRelease, WrittenToBackend, WrittenToClient
<1> QED
  BY <1>1, <1>2, <1>3, <1>4 DEF HandlerStep, SendFirst

LEMMA FinishImplements ==
  ASSUME PipeInv, FinishServerStream
  PROVE  [Pipe!Next]_(Pipe!vars)
<1>1. /\ told = "none" /\ told' = result
      /\ UNCHANGED <<clientVars, backendVars, halfClose>>
      /\ UNCHANGED <<WrittenToBackend, WrittenToClient>>
  BY DEF FinishServerStream, WrittenToBackend, WrittenToClient
<1>2. CASE result \in {"ok", "backend"}
  <2>1. bStatus = result /\ Len(cGot) + Len(outbox) = bSent
    BY <1>2 DEF PipeInv, AllInv, StatusInv, ResultInv
  <2>2. Len(WrittenToClient) = bSent
    BY <2>1, LanesNumbered DEF PipeInv, AllInv
  <2>3. Outcome = "none" /\ Outcome' = bStatus
    BY <1>1, <1>2, <2>1 DEF Outcome
  <2>4. bStatus # "running"
    BY <1>2, <2>1
  <2>5. Pipe!EndAsBackend
    BY <1>1, <2>2, <2>3, <2>4 DEF Pipe!EndAsBackend
  <2> QED
    BY <2>5 DEF Pipe!Next
<1>3. CASE result = "none"
  BY <1>1, <1>3, Hidden
<1>4. CASE result \in Errors \cup {"unavailable"}
  <2>1. Outcome = "none" /\ Outcome' = "failed"
    BY <1>1, <1>4 DEF Outcome, Errors
  <2>2. CASE result \in Errors
    <3>1. cGone \/ LocalFaults
      BY <1>1, <2>2
      DEF PipeInv, AllInv, StatusInv, ResultInv, LimitInv, Errors
    <3>2. Pipe!Fail
      BY <1>1, <2>1, <3>1 DEF Pipe!Fail
    <3> QED
      BY <3>2 DEF Pipe!Next
  <2>3. CASE result = "unavailable"
    <3>1. bGot = <<>> /\ toB = <<>> /\ cGot = <<>> /\ outbox = <<>>
      BY <2>3 DEF PipeInv, QuietInv
    <3>2. WrittenToBackend = <<>> /\ WrittenToClient = <<>>
      BY <3>1 DEF WrittenToBackend, WrittenToClient
    <3>3. Pipe!Fail
      BY <1>1, <2>1, <3>2 DEF Pipe!Fail
    <3> QED
      BY <3>3 DEF Pipe!Next
  <2> QED
    BY <1>4, <2>2, <2>3
<1> QED
  BY <1>2, <1>3, <1>4 DEF PipeInv, AllInv, StatusInv, ResultInv

LEMMA S2CImplements ==
  ASSUME PipeInv, PipeInv', S2CStep \/ RecvTooBig \/ SendToClientTooBig
  PROVE  [Pipe!Next]_(Pipe!vars)
<1>1. CASE SendToClient
  <2>1. /\ s2cPc = "send" /\ ~Finished /\ outbox' = Append(outbox, s2cFrame)
        /\ UNCHANGED <<cSent, cClosed, cGone, cGot, backendVars, halfClose,
                       told>>
    BY <1>1 DEF SendToClient
  <2>2. /\ outbox \in Seq(Nat) /\ s2cFrame = bSent - Len(fromB)
        /\ Len(cGot) + Len(outbox) + 1 = bSent - Len(fromB)
        /\ Len(outbox) \in Nat /\ Len(cGot) \in Nat /\ Len(fromB) \in Nat
        /\ bSent \in Nat
    BY <2>1, ServerLens DEF PipeInv, AllInv, ServerLane
  <2>3. s2cFrame \in Nat /\ Len(outbox') = Len(outbox) + 1
    BY <2>1, <2>2, AppendProperties
  <2>4. /\ WrittenToClient = Numbered(s2cFrame - 1)
        /\ Len(WrittenToClient) = s2cFrame - 1 /\ s2cFrame - 1 \in Nat
    BY <2>2, LanesNumbered DEF PipeInv, AllInv
  <2>5. WrittenToClient' = Numbered(Len(cGot') + Len(outbox'))
    BY RunJoin DEF PipeInv, AllInv, ServerLane, WrittenToClient
  <2>6. WrittenToClient' = Numbered(s2cFrame)
    BY <2>1, <2>2, <2>3, <2>5
  <2>7. WrittenToClient' = Append(WrittenToClient, Len(WrittenToClient) + 1)
    <3>1. Append(Numbered(s2cFrame - 1), (s2cFrame - 1) + 1)
            = Numbered((s2cFrame - 1) + 1)
      BY <2>4, NumberedAppend
    <3> QED
      BY <2>3, <2>4, <2>6, <3>1
  <2>8. Len(WrittenToClient) < bSent
    BY <2>2, <2>4
  <2>9. UNCHANGED <<WrittenToBackend, Outcome>> /\ Outcome = "none"
    BY <2>1 DEF WrittenToBackend, Outcome
  <2>10. Pipe!CarryToClient
    BY <2>1, <2>7, <2>8, <2>9 DEF Pipe!CarryToClient
  <2> QED
    BY <2>10 DEF Pipe!Next
<1>2. CASE SendToClientFails
  BY <1>2, TellImplements DEF SendToClientFails, Errors
<1>3. CASE SendToClientTooBig
  BY <1>3, TellImplements DEF SendToClientTooBig, Errors
<1>4. CASE \/ HeaderArrives \/ HeaderMissing \/ SendHeader \/ SendHeaderFails
           \/ RecvFromBackend \/ RecvStatus \/ RecvSeesEnd \/ RecvTooBig
  BY <1>4, Hidden
  DEF HeaderArrives, HeaderMissing, SendHeader, SendHeaderFails,
      RecvFromBackend, RecvStatus, RecvSeesEnd, RecvTooBig, WrittenToBackend,
      WrittenToClient
<1> QED
  BY <1>1, <1>2, <1>3, <1>4 DEF S2CStep

LEMMA C2SImplements ==
  ASSUME PipeInv, PipeInv', C2SStep \/ RecvFromClientTooBig \/ SendOnFails
  PROVE  [Pipe!Next]_(Pipe!vars)
<1>1. CASE SendOn
  <2>1. /\ c2sPc = "send" /\ SendToBackend(c2sFrame) /\ ~StreamOver
        /\ UNCHANGED <<clientVars, bSent, bStatus, bGot, halfClose, told>>
    BY <1>1 DEF SendOn, SendToBackend
  <2>2. /\ c2sFrame = cSent - Len(inbox)
        /\ Len(bGot) + Len(toB) + 1 = cSent - Len(inbox)
    BY <2>1 DEF PipeInv, AllInv, ClientLane, ClientInHand
  <2>3. c2sFrame = Len(bGot) + Len(toB) + 1 /\ c2sFrame <= cSent
    BY <2>2, ClientLens DEF PipeInv, AllInv
  <2>4. halfClose # "live"
    BY <2>1 DEF PipeInv, OnceInv
  <2>5. Pipe!CarryToBackend
    BY <2>1, <2>3, <2>4, SendImplements DEF PipeInv, AllInv
  <2> QED
    BY <2>5 DEF Pipe!Next
<1>2. CASE RecvFromClientFails
  BY <1>2, TellImplements DEF RecvFromClientFails, Errors
<1>3. CASE RecvFromClientTooBig
  BY <1>3, TellImplements DEF RecvFromClientTooBig, Errors
<1>4. CASE RecvFromClient \/ RecvClientEOF \/ SendOnSeesEnd \/ SendOnFails
  BY <1>4, Hidden
  DEF RecvFromClient, RecvClientEOF, SendOnSeesEnd, SendOnFails, SendSeesEnd,
      SendFails, WrittenToBackend, WrittenToClient
<1> QED
  BY <1>1, <1>2, <1>3, <1>4 DEF C2SStep

LEMMA StepImplements ==
  ASSUME PipeInv, PipeInv', [Next]_vars
  PROVE  [Pipe!Next]_(Pipe!vars)
<1>1. CASE UNCHANGED vars
  BY <1>1, Hidden DEF vars, WrittenToBackend, WrittenToClient
<1> QED
  BY <1>1, PeersImplement, HandlerImplements, FinishImplements,
     S2CImplements, C2SImplements
  DEF Next, SizeLimit

-----------------------------------------------------------------------------
(* The type invariant.                                                     *)

(* No side reads or is sent more than there is, and no window is overrun.  *)
CountInv ==
  /\ cSent \in 0..ClientMsgs /\ bSent \in 0..BackendMsgs
  /\ Len(toB) <= Window /\ Len(outbox) <= Window
  /\ Len(bGot) + Len(toB) <= cSent /\ Len(cGot) + Len(outbox) <= bSent
  /\ s2cFrame \in 1..BackendMsgs \cup {Nil}
  /\ c2sFrame \in 1..ClientMsgs \cup {Nil}

FlagInv ==
  /\ cClosed \in BOOLEAN /\ cGone \in BOOLEAN /\ cHeader \in BOOLEAN
  /\ bHeader \in BOOLEAN /\ pinned \in BOOLEAN /\ created \in BOOLEAN
  /\ cancelled \in BOOLEAN /\ trailer \in BOOLEAN

StateInv ==
  /\ hPc \in {"acquire", "open", "first", "start", "select", "ctx", "drain",
              "cancel", "release", "done"}
  /\ first \in {1, Nil}
  /\ bStatus \in {"running", "ok", "backend"}
  /\ ended \in {"open", "ok", "backend", "local", "canceled"}
  /\ halfClose \in {"none", "live", "over"}
  /\ s2cPc \in {"idle", "header", "sendHeader", "recv", "send", "exited"}
  /\ c2sPc \in {"idle", "recv", "send", "exited"}

ReportTypeInv == s2cCh \in Report \cup {Nil}

TypeInv == CountInv /\ FlagInv /\ StateInv /\ ReportTypeInv

LEMMA TypeInvInit == Init => TypeInv
<1> SUFFICES ASSUME Init PROVE TypeInv
  OBVIOUS
<1>1. Len(<<>>) = 0
  OBVIOUS
<1>2. CountInv
  <2>1. /\ inbox = <<>> /\ outbox = <<>> /\ cGot = <<>> /\ toB = <<>>
        /\ bGot = <<>> /\ bSent = 0 /\ cSent \in {0, 1}
        /\ s2cFrame = Nil /\ c2sFrame = Nil
    BY DEF Init
  <2>2. cSent \in 0..ClientMsgs /\ bSent \in 0..BackendMsgs
    BY <2>1, ForwarderAssumption DEF ForwarderAssumption
  <2>3. Len(toB) <= Window /\ Len(outbox) <= Window
    BY <1>1, <2>1, ForwarderAssumption DEF ForwarderAssumption
  <2>4. Len(bGot) = 0 /\ Len(toB) = 0 /\ Len(cGot) = 0 /\ Len(outbox) = 0
    BY <1>1, <2>1
  <2>5. Len(bGot) + Len(toB) <= cSent /\ Len(cGot) + Len(outbox) <= bSent
    BY <2>2, <2>4
  <2> QED
    BY <2>1, <2>2, <2>3, <2>5 DEF CountInv
<1>3. FlagInv /\ StateInv /\ ReportTypeInv
  BY DEF Init, FlagInv, StateInv, ReportTypeInv
<1> QED
  BY <1>2, <1>3 DEF TypeInv

LEMMA FlagsKept ==
  ASSUME FlagInv, Next
  PROVE  FlagInv'
<1> USE DEF FlagInv
<1>1. CASE ClientStep \/ BackendStep
  BY <1>1
  DEF ClientStep, ClientSend, ClientHalfClose, ClientRead, ClientGone,
      BackendStep, BackendHeader, BackendSend, BackendRead, BackendFinish
<1>2. CASE \/ Acquire \/ AcquireFails \/ OpenStream \/ OpenStreamFails
           \/ SendFirst \/ SendFirstFails \/ StartPumps
  BY <1>2
  DEF Acquire, AcquireFails, OpenStream, OpenStreamFails, SendFirst,
      SendFirstFails, StartPumps
<1>3. CASE TakeWriteFailure \/ TakeClientError \/ TakeClientEOF
  BY <1>3 DEF TakeWriteFailure, TakeClientError, TakeClientEOF
<1>4. CASE TakeBackendEnd
  <2>1. cancelled' = TRUE \/ UNCHANGED cancelled
    BY <1>4 DEF TakeBackendEnd
  <2> QED
    BY <1>4, <2>1 DEF TakeBackendEnd
<1>5. CASE \/ CheckContext \/ Drain \/ DeferCancel \/ DeferRelease
           \/ FinishServerStream
  BY <1>5
  DEF CheckContext, Drain, DeferCancel, DeferRelease, FinishServerStream
<1>6. CASE S2CStep \/ RecvTooBig \/ SendToClientTooBig
  <2>1. /\ UNCHANGED <<cClosed, cGone, bHeader, pinned, created, cancelled,
                       trailer>>
        /\ cHeader' = TRUE \/ UNCHANGED cHeader
    BY <1>6
    DEF S2CStep, HeaderArrives, HeaderMissing, SendHeader, SendHeaderFails,
        RecvFromBackend, RecvStatus, RecvSeesEnd, SendToClient,
        SendToClientFails, RecvTooBig, SendToClientTooBig
  <2> QED
    BY <2>1
<1>7. CASE C2SStep \/ RecvFromClientTooBig \/ SendOnFails
  <2>1. UNCHANGED <<cClosed, cGone, cHeader, bHeader, pinned, created,
                    cancelled, trailer>>
    BY <1>7
    DEF C2SStep, RecvFromClient, RecvClientEOF, RecvFromClientFails, SendOn,
        SendOnSeesEnd, RecvFromClientTooBig, SendOnFails
  <2> QED
    BY <2>1
<1> QED
  BY <1>1, <1>2, <1>3, <1>4, <1>5, <1>6, <1>7 DEF Next, HandlerStep, SizeLimit

LEMMA StatesKept ==
  ASSUME StateInv, Next
  PROVE  StateInv'
<1> USE DEF StateInv
<1>1. CASE ClientStep \/ BackendStep
  BY <1>1
  DEF ClientStep, ClientSend, ClientHalfClose, ClientRead, ClientGone,
      BackendStep, BackendHeader, BackendSend, BackendRead, BackendFinish
<1>2. CASE \/ Acquire \/ AcquireFails \/ OpenStream \/ OpenStreamFails
           \/ SendFirst \/ SendFirstFails \/ StartPumps
  BY <1>2
  DEF Acquire, AcquireFails, OpenStream, OpenStreamFails, SendFirst,
      SendFirstFails, StartPumps, SendToBackend, SendSeesEnd, SendFails
<1>3. CASE \/ TakeWriteFailure \/ TakeBackendEnd \/ TakeClientError
           \/ TakeClientEOF \/ CheckContext \/ Drain \/ DeferCancel
           \/ DeferRelease \/ FinishServerStream
  BY <1>3
  DEF TakeWriteFailure, TakeBackendEnd, TakeClientError, TakeClientEOF,
      CheckContext, Drain, DeferCancel, DeferRelease, FinishServerStream
<1>4. CASE S2CStep \/ RecvTooBig \/ SendToClientTooBig
  BY <1>4
  DEF S2CStep, HeaderArrives, HeaderMissing, SendHeader, SendHeaderFails,
      RecvFromBackend, RecvStatus, RecvSeesEnd, SendToClient,
      SendToClientFails, RecvTooBig, SendToClientTooBig
<1>5. CASE C2SStep \/ RecvFromClientTooBig \/ SendOnFails
  BY <1>5
  DEF C2SStep, RecvFromClient, RecvClientEOF, RecvFromClientFails, SendOn,
      SendOnSeesEnd, SendToBackend, SendSeesEnd, SendFails,
      RecvFromClientTooBig, SendOnFails
<1> QED
  BY <1>1, <1>2, <1>3, <1>4, <1>5 DEF Next, HandlerStep, SizeLimit

LEMMA ReportsKept ==
  ASSUME ReportTypeInv, bStatus \in {"running", "ok", "backend"}, Next
  PROVE  ReportTypeInv'
<1> USE DEF ReportTypeInv
<1>1. CASE UNCHANGED s2cCh
  BY <1>1 DEF Report
<1>2. CASE s2cCh' = Nil
  BY <1>2
<1>3. CASE S2CStep \/ RecvTooBig \/ SendToClientTooBig
  <2>1. CASE \/ HeaderArrives \/ HeaderMissing \/ SendHeader
             \/ RecvFromBackend \/ SendToClient
    BY <1>1, <2>1
    DEF HeaderArrives, HeaderMissing, SendHeader, RecvFromBackend,
        SendToClient
  <2>2. CASE \/ SendHeaderFails \/ RecvStatus \/ RecvSeesEnd
             \/ SendToClientFails \/ RecvTooBig \/ SendToClientTooBig
    <3>1. \E e \in PeerErrors \cup {"EOF"}, d \in BOOLEAN :
            s2cCh' = [err |-> e, backendDone |-> d]
      BY <2>2
      DEF SendHeaderFails, RecvStatus, RecvSeesEnd, SendToClientFails,
          RecvTooBig, SendToClientTooBig, PeerErrors
    <3> QED
      BY <3>1 DEF Report
  <2> QED
    BY <1>3, <2>1, <2>2 DEF S2CStep
<1>4. CASE ClientStep \/ BackendStep \/ HandlerStep \/ FinishServerStream
  BY <1>1, <1>2, <1>4
  DEF ClientStep, ClientSend, ClientHalfClose, ClientRead, ClientGone,
      BackendStep, BackendHeader, BackendSend, BackendRead, BackendFinish,
      HandlerStep, Acquire, AcquireFails, OpenStream, OpenStreamFails,
      SendFirst, SendFirstFails, StartPumps, TakeWriteFailure,
      TakeBackendEnd, TakeClientError, TakeClientEOF, CheckContext, Drain,
      DeferCancel, DeferRelease, FinishServerStream
<1>5. CASE C2SStep \/ RecvFromClientTooBig \/ SendOnFails
  BY <1>1, <1>5
  DEF C2SStep, RecvFromClient, RecvClientEOF, RecvFromClientFails, SendOn,
      SendOnSeesEnd, RecvFromClientTooBig, SendOnFails
<1> QED
  BY <1>3, <1>4, <1>5 DEF Next, SizeLimit

LEMMA CountsKept ==
  ASSUME AllInv, AllInv', CountInv, Next
  PROVE  CountInv'
<1> USE DEF CountInv
<1> DEFINE Same == UNCHANGED <<cSent, bSent, toB, outbox, bGot, cGot>>
           Frames == UNCHANGED <<s2cFrame, c2sFrame>>
<1>1. ClientLane /\ ServerLane /\ ClientLane' /\ ServerLane'
  BY DEF AllInv
<1>2. /\ Len(toB) \in Nat /\ Len(bGot) \in Nat /\ Len(cGot) \in Nat
      /\ Len(outbox) \in Nat /\ Len(inbox) \in Nat /\ Len(fromB) \in Nat
  BY <1>1, ClientLens, ServerLens
<1>3. CASE ClientSend
  BY <1>2, <1>3, ForwarderAssumption DEF ClientSend, ForwarderAssumption
<1>4. CASE BackendSend
  BY <1>2, <1>4, ForwarderAssumption DEF BackendSend, ForwarderAssumption
<1>5. CASE ClientRead
  <2>1. /\ Len(outbox') = Len(outbox) - 1 /\ Head(outbox) \in Nat
    BY <1>1, <1>5, RunTail DEF ClientRead, ServerLane
  <2>2. Len(cGot') = Len(cGot) + 1
    BY <1>1, <1>5, <2>1, AppendProperties DEF ClientRead, ServerLane
  <2>3. Window \in Nat
    BY ForwarderAssumption DEF ForwarderAssumption
  <2> QED
    BY <1>2, <1>5, <2>1, <2>2, <2>3 DEF ClientRead
<1>6. CASE BackendRead
  <2>1. /\ Len(toB') = Len(toB) - 1 /\ Head(toB) \in Nat
    BY <1>1, <1>6, RunTail DEF BackendRead, ClientLane
  <2>2. Len(bGot') = Len(bGot) + 1
    BY <1>1, <1>6, <2>1, AppendProperties DEF BackendRead, ClientLane
  <2>3. Window \in Nat
    BY ForwarderAssumption DEF ForwarderAssumption
  <2> QED
    BY <1>2, <1>6, <2>1, <2>2, <2>3 DEF BackendRead
<1>7. ASSUME NEW m, SendToBackend(m), m \in Nat,
             UNCHANGED <<clientVars, bSent, bGot>>,
             Len(bGot) + Len(toB) + 1 <= cSent
      PROVE  /\ Len(toB') <= Window /\ Len(bGot') + Len(toB') <= cSent'
             /\ UNCHANGED <<cSent, bSent, outbox, cGot>>
  <2>1. Len(toB') = Len(toB) + 1
    BY <1>1, <1>7, AppendProperties DEF SendToBackend, ClientLane
  <2> QED
    BY <1>2, <1>7, <2>1, ForwarderAssumption
    DEF SendToBackend, ForwarderAssumption
<1>8. CASE SendFirst \/ SendFirstFails
  <2>1. CASE SendFirst /\ SendToBackend(first)
    <3>1. hPc = "first" /\ first # Nil /\ FirstHeld /\ ~StreamOver
      BY <2>1
      DEF SendFirst, SendToBackend, FirstHeld, AllInv, Inv, PinInv
    <3>2. first = 1 /\ Len(bGot) + Len(toB) + 1 <= cSent
      BY <1>1, <1>2, <3>1 DEF ClientLane, ClientInHand
    <3>3. /\ UNCHANGED <<clientVars, bSent, bGot>> /\ Frames
      BY <2>1 DEF SendFirst
    <3> QED
      BY <1>7, <2>1, <3>2, <3>3
  <2>2. CASE Same /\ Frames
    BY <2>2
  <2> QED
    BY <1>8, <2>1, <2>2 DEF SendFirst, SendFirstFails, SendSeesEnd, SendFails
<1>9. CASE SendOn
  <2>1. /\ c2sPc = "send" /\ ~StreamOver /\ SendToBackend(c2sFrame)
        /\ UNCHANGED <<clientVars, bSent, bGot, s2cFrame>> /\ c2sFrame' = Nil
    BY <1>9 DEF SendOn, SendToBackend
  <2>2. c2sFrame \in Nat /\ Len(bGot) + Len(toB) + 1 <= cSent
    BY <1>1, <1>2, <2>1 DEF ClientLane, ClientInHand
  <2> QED
    BY <1>7, <2>1, <2>2
<1>10. CASE SendToClient
  <2>1. /\ Len(cGot) + Len(outbox) + 1 <= bSent /\ s2cFrame \in Nat
    BY <1>1, <1>2, <1>10 DEF SendToClient, ServerLane
  <2>2. Len(outbox') = Len(outbox) + 1
    BY <1>1, <1>10, <2>1, AppendProperties DEF SendToClient, ServerLane
  <2> QED
    BY <1>2, <1>10, <2>1, <2>2, ForwarderAssumption
    DEF SendToClient, ForwarderAssumption
<1>11. CASE RecvFromBackend
  <2>1. Head(fromB) = bSent - Len(fromB) + 1 /\ Len(fromB) > 0
    <3>1. bSent - Len(fromB) \in Int
      BY <1>2
    <3> QED
      BY <1>1, <1>11, <3>1, RunTail DEF RecvFromBackend, ServerLane
  <2>2. s2cFrame' \in 1..BackendMsgs
    <3>1. /\ s2cFrame' = bSent - Len(fromB) + 1
          /\ Len(fromB) <= bSent /\ bSent \in Nat
      BY <1>1, <1>11, <2>1 DEF RecvFromBackend, ServerLane
    <3>2. BackendMsgs \in Nat /\ bSent <= BackendMsgs
      BY ForwarderAssumption DEF ForwarderAssumption
    <3> QED
      BY <1>2, <2>1, <3>1, <3>2
  <2>3. Same /\ UNCHANGED c2sFrame
    BY <1>11 DEF RecvFromBackend
  <2> QED
    BY <2>2, <2>3
<1>12. CASE RecvFromClient
  <2>1. Head(inbox) = cSent - Len(inbox) + 1 /\ Len(inbox) > 0
    <3>1. cSent - Len(inbox) \in Int
      BY <1>2
    <3> QED
      BY <1>1, <1>12, <3>1, RunTail DEF RecvFromClient, ClientLane
  <2>2. c2sFrame' \in 1..ClientMsgs
    BY <1>1, <1>2, <1>12, <2>1, ForwarderAssumption
    DEF RecvFromClient, ClientLane, ForwarderAssumption
  <2>3. Same /\ UNCHANGED s2cFrame
    BY <1>12 DEF RecvFromClient
  <2> QED
    BY <2>2, <2>3
<1>13. CASE \/ ClientHalfClose \/ ClientGone \/ BackendHeader
            \/ (\E st \in {"ok", "backend"} : BackendFinish(st))
            \/ Acquire \/ AcquireFails \/ OpenStream \/ OpenStreamFails
            \/ StartPumps \/ TakeWriteFailure \/ TakeBackendEnd
            \/ TakeClientError \/ TakeClientEOF \/ CheckContext \/ Drain
            \/ DeferCancel \/ DeferRelease \/ FinishServerStream
  <2>1. Same /\ Frames
    BY <1>13
    DEF ClientHalfClose, ClientGone, BackendHeader, BackendFinish, Acquire,
        AcquireFails, OpenStream, OpenStreamFails, StartPumps,
        TakeWriteFailure, TakeBackendEnd, TakeClientError, TakeClientEOF,
        CheckContext, Drain, DeferCancel, DeferRelease, FinishServerStream
  <2> QED
    BY <2>1
<1>14. CASE \/ HeaderArrives \/ HeaderMissing \/ SendHeader \/ SendHeaderFails
            \/ RecvStatus \/ RecvSeesEnd \/ SendToClientFails \/ RecvTooBig
            \/ SendToClientTooBig \/ RecvClientEOF \/ RecvFromClientFails
            \/ SendOnSeesEnd \/ RecvFromClientTooBig \/ SendOnFails
  <2>1. /\ Same /\ s2cFrame' \in {s2cFrame, Nil}
        /\ c2sFrame' \in {c2sFrame, Nil}
    BY <1>14
    DEF HeaderArrives, HeaderMissing, SendHeader, SendHeaderFails, RecvStatus,
        RecvSeesEnd, SendToClientFails, RecvTooBig, SendToClientTooBig,
        RecvClientEOF, RecvFromClientFails, SendOnSeesEnd, SendSeesEnd,
        RecvFromClientTooBig, SendOnFails, SendFails
  <2> QED
    BY <2>1
<1> QED
  BY <1>3, <1>4, <1>5, <1>6, <1>8, <1>9, <1>10, <1>11, <1>12, <1>13, <1>14
  DEF Next, ClientStep, BackendStep, HandlerStep, S2CStep, C2SStep, SizeLimit

LEMMA TypeInvariant == Spec => [](AllInv /\ TypeInv)
<1>1. Init => AllInv /\ TypeInv
  BY InitAll, TypeInvInit
<1>2. ASSUME AllInv, TypeInv, [Next]_vars PROVE (AllInv /\ TypeInv)'
  <2>1. AllInv'
    BY <1>2, NextAll
  <2>2. CASE Next
    BY <1>2, <2>1, <2>2, FlagsKept, StatesKept, ReportsKept, CountsKept
    DEF TypeInv, StateInv
  <2>3. CASE UNCHANGED vars
    BY <1>2, <2>1, <2>3
    DEF vars, TypeInv, CountInv, FlagInv, StateInv, ReportTypeInv
  <2> QED
    BY <1>2, <2>2, <2>3
<1> QED
  BY <1>1, <1>2, PTL DEF Spec

(* Numbers up to a bound make a sequence over 1..bound.                    *)
LEMMA RunBounded ==
  ASSUME NEW s \in Seq(Nat), NEW n \in Nat, Run(s, n), NEW k \in Nat,
         n + Len(s) <= k
  PROVE  s \in Seq(1..k)
<1>1. Len(s) \in Nat /\ s = [i \in 1..Len(s) |-> s[i]]
  BY LenProperties
<1>2. \A i \in 1..Len(s) : s[i] \in 1..k
  BY <1>1 DEF Run
<1> QED
  BY <1>1, <1>2

-----------------------------------------------------------------------------
(* Results.                                                                *)

(* Every variable keeps its type, no window is overrun, and neither peer   *)
(* is handed more messages than the other has sent.                        *)
THEOREM TypeCorrect == Spec => []TypeOK
<1>1. AllInv /\ TypeInv => TypeOK
  <2> SUFFICES ASSUME AllInv, TypeInv PROVE TypeOK
    OBVIOUS
  <2>1. /\ ClientMsgs \in Nat /\ BackendMsgs \in Nat
        /\ cSent \in Nat /\ bSent \in Nat
        /\ cSent <= ClientMsgs /\ bSent <= BackendMsgs
    BY ForwarderAssumption DEF ForwarderAssumption, TypeInv, CountInv
  <2>2. /\ Len(toB) \in Nat /\ Len(bGot) \in Nat /\ Len(cGot) \in Nat
        /\ Len(outbox) \in Nat /\ Len(inbox) \in Nat /\ Len(fromB) \in Nat
        /\ cSent - Len(inbox) \in Nat /\ bSent - Len(fromB) \in Nat
    BY ClientLens, ServerLens DEF AllInv
  <2>3. inbox \in Seq(1..ClientMsgs)
    <3>1. (cSent - Len(inbox)) + Len(inbox) <= ClientMsgs
      BY <2>1, <2>2
    <3> QED
      BY <2>1, <2>2, <3>1, RunBounded DEF AllInv, ClientLane
  <2>4. bGot \in Seq(1..ClientMsgs) /\ toB \in Seq(1..ClientMsgs)
    <3>1. 0 + Len(bGot) <= ClientMsgs /\ Len(bGot) + Len(toB) <= ClientMsgs
      BY <2>1, <2>2 DEF TypeInv, CountInv
    <3> QED
      BY <2>1, <2>2, <3>1, RunBounded DEF AllInv, ClientLane
  <2>5. fromB \in Seq(1..BackendMsgs)
    <3>1. (bSent - Len(fromB)) + Len(fromB) <= BackendMsgs
      BY <2>1, <2>2
    <3> QED
      BY <2>1, <2>2, <3>1, RunBounded DEF AllInv, ServerLane
  <2>6. cGot \in Seq(1..BackendMsgs) /\ outbox \in Seq(1..BackendMsgs)
    <3>1. 0 + Len(cGot) <= BackendMsgs /\ Len(cGot) + Len(outbox) <= BackendMsgs
      BY <2>1, <2>2 DEF TypeInv, CountInv
    <3> QED
      BY <2>1, <2>2, <3>1, RunBounded DEF AllInv, ServerLane
  <2>7. result \in {"none", "ok", "unavailable"} \cup PeerErrors
    BY DEF AllInv, StatusInv, ResultInv, Errors, PeerErrors
  <2>8. told \in {"none", "ok", "unavailable"} \cup PeerErrors
    BY <2>7 DEF AllInv, StatusInv, ToldInv, Errors, PeerErrors
  <2>9. c2sCh \in PeerErrors \cup {"EOF", Nil}
    BY DEF AllInv, Inv, CauseInv, PeerErrors
  <2>10. ClientTypeOK /\ BackendTypeOK
    BY <2>3, <2>4, <2>5, <2>6
    DEF TypeInv, CountInv, FlagInv, StateInv, ClientTypeOK, BackendTypeOK
  <2>11. ProxyTypeOK
    BY <2>7, <2>8, <2>9
    DEF TypeInv, CountInv, FlagInv, StateInv, ReportTypeInv, ProxyTypeOK
  <2> QED
    BY <2>10, <2>11 DEF TypeOK
<1> QED
  BY <1>1, TypeInvariant, PTL

(* A backend stream that has not been cancelled runs on a pinned           *)
(* connection, on every path through Forward.                              *)
THEOREM PinCorrect == Spec => []PinnedWhileLive
<1>1. Inv => PinnedWhileLive
  BY DEF Inv, PinInv, PinnedWhileLive
<1> QED
  BY <1>1, Invariance, PTL

(* A pump still writing to the client's stream when the handler returns    *)
(* was left behind by an error of SendMsg on the backend leg.              *)
THEOREM LateWriterCorrect == Spec => []LateWriterHasCause
<1>1. Inv => LateWriterHasCause
  BY DEF Inv
<1> QED
  BY <1>1, Invariance, PTL

(* Trailers are read from a stream on which RecvMsg has failed.            *)
THEOREM TrailerCorrect == Spec => []TrailerReadable
<1>1. Inv => TrailerReadable
  BY DEF Inv
<1> QED
  BY <1>1, Invariance, PTL

(* A half-close that reaches the backend comes behind every message of a   *)
(* client that has half-closed, and no SendMsg runs beside CloseSend.      *)
THEOREM HalfCloseCorrect == Spec => []HalfCloseFaithful
<1>1. AllInv => HalfCloseFaithful
  BY RunJoin
  DEF AllInv, HalfCloseInv, ClientLane, HalfCloseFaithful, WrittenToBackend
<1> QED
  BY <1>1, AllInvariant, PTL

(* The status the client is told names its cause: OK and the backend's own *)
(* error come behind the whole response, whatever the pumps have raced.    *)
THEOREM ResultCorrect == Spec => []ResultFaithful
<1>1. AllInv => ResultFaithful
  <2> SUFFICES ASSUME AllInv PROVE ResultFaithful
    OBVIOUS
  <2>1. ASSUME told \in {"ok", "backend"}
        PROVE  told = bStatus /\ ResponseComplete
    <3>1. told = result /\ told \notin Errors
      BY <2>1 DEF AllInv, StatusInv, ToldInv, Errors
    <3>2. /\ bStatus = told /\ trailer /\ Len(cGot) + Len(outbox) = bSent
          /\ bHeader => cHeader \/ cGone
      BY <2>1, <3>1 DEF AllInv, StatusInv, ResultInv
    <3>3. cGot \o outbox = Numbered(Len(cGot) + Len(outbox))
      BY RunJoin DEF AllInv, ServerLane
    <3> QED
      BY <3>2, <3>3 DEF ResponseComplete, WrittenToClient
  <2>2. /\ told \in {"canceled", "write"} => cGone
        /\ told = "unavailable" => ~created
    BY DEF AllInv, StatusInv, ToldInv, ResultInv, Errors
  <2> QED
    BY <2>1, <2>2 DEF ResultFaithful
<1> QED
  BY <1>1, AllInvariant, PTL

(* Forward is a transparent pipe for any number of messages, any window    *)
(* and with or without a size limit: two ordered lanes, a half-close       *)
(* behind the client's last message, and the backend's own outcome unless  *)
(* the client left, a limit was hit or the call never got under way.       *)
THEOREM PipeImplemented == Spec => ImplementsPipe
<1>1. PipeInv /\ PipeInv' /\ [Next]_vars => [Pipe!Next]_(Pipe!vars)
  BY StepImplements
<1> QED
  BY <1>1, PipeInit, PipeInvariant, PTL DEF ImplementsPipe, Spec, Pipe!Spec
=============================================================================

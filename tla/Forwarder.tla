------------------------------ MODULE Forwarder ------------------------------
(***************************************************************************)
(* One call of Forward (proxy/forwarder.go): the handler goroutine that    *)
(* runs it, the two pumps it starts, the client and the backend at the     *)
(* ends of its two streams, and gRPC in between.                           *)
(*                                                                         *)
(* The messages of each peer are numbered in the order it sends them. Each *)
(* stream leg is a FIFO buffer; a buffer towards a peer takes Window       *)
(* messages before SendMsg blocks. Every call that a goroutine of the      *)
(* proxy makes on a stream or a channel is one step, with one action for   *)
(* each way it can return. What the calls of gRPC can return, and when, is *)
(* taken from how forwarder.go uses them and says they behave.             *)
(***************************************************************************)
EXTENDS Integers, Sequences

CONSTANTS
  ClientMsgs,   (* Messages the client sends at most.                      *)
  BackendMsgs,  (* Messages the backend sends at most.                     *)
  Window,       (* Flow-control window of a leg, in messages.              *)
  LocalFaults,  (* Whether a message can be over a size limit, an error    *)
                (* gRPC raises in the proxy while both peers are fine.     *)
  Nil           (* No message, no report.                                  *)

ASSUME ForwarderAssumption ==
  /\ ClientMsgs \in Nat \ {0}
  /\ BackendMsgs \in Nat
  /\ Window \in Nat \ {0}
  /\ LocalFaults \in BOOLEAN
  /\ Nil \notin Nat
  /\ Nil \notin {"EOF", "canceled", "local"}

VARIABLES
  (* The client and its leg.                                               *)
  cSent,     (* Messages the client has sent.                              *)
  cClosed,   (* The client has half-closed.                                *)
  cGone,     (* The call was cancelled, timed out or lost its transport.   *)
  inbox,     (* Client messages serverStream.RecvMsg has not returned yet. *)
  outbox,    (* Messages written to the client and not read by it.         *)
  cGot,      (* Messages the client has read.                              *)
  cHeader,   (* The response headers were written to the client.           *)
  (* The backend and its leg.                                              *)
  bHeader,   (* The backend has sent its response headers.                 *)
  bSent,     (* Messages the backend has sent.                             *)
  bStatus,   (* "running", or the status the backend ended with.           *)
  fromB,     (* Backend messages clientStream.RecvMsg has not returned.    *)
  toB,       (* Messages written to the backend and not read by it.        *)
  bGot,      (* Messages the backend has read.                             *)
  (* The proxy.                                                            *)
  hPc,       (* Where the handler is.                                      *)
  first,     (* The argument firstFrame.                                   *)
  pinned,    (* acquire has succeeded and release has not run.             *)
  created,   (* NewClientStream has succeeded.                             *)
  cancelled, (* clientCancel was called.                                   *)
  ended,     (* How clientStream ended for the proxy, or "open".           *)
  halfClose, (* "none", or the state CloseSend found the stream in.        *)
  trailer,   (* The backend's trailers were set on serverStream.           *)
  result,    (* What Forward returns.                                      *)
  told,      (* The status gRPC has written to the client, or "none".      *)
  s2cPc, s2cFrame, s2cCh,   (* forwardBackendToClient.                     *)
  c2sPc, c2sFrame, c2sCh    (* forwardClientToBackend.                     *)

clientVars  == <<cSent, cClosed, cGone, inbox, outbox, cGot, cHeader>>
backendVars == <<bHeader, bSent, bStatus, fromB, toB, bGot>>
handlerVars == <<hPc, first, pinned, created, cancelled, halfClose, trailer,
                 result, told>>
s2cVars     == <<s2cPc, s2cFrame, s2cCh>>
c2sVars     == <<c2sPc, c2sFrame, c2sCh>>
vars == <<clientVars, backendVars, handlerVars, ended, s2cVars, c2sVars>>

(* serverStream is over: gRPC writes one status, and cancels its context.  *)
Finished == told # "none"

(* The context of serverStream is done; that of clientStream is its child. *)
ServerDone == cGone \/ Finished
CallDone   == cancelled \/ ServerDone

(* clientStream takes no more messages.                                    *)
StreamOver == ended # "open" \/ bStatus # "running"

Numbered(n) == [i \in 1..n |-> i]

-----------------------------------------------------------------------------
(* Forward is called once the handler has read the first message, or the   *)
(* client has half-closed without sending one.                             *)
Init ==
  /\ \/ first = 1 /\ cSent = 1 /\ cClosed = FALSE
     \/ first = Nil /\ cSent = 0 /\ cClosed = TRUE
  /\ cGone = FALSE /\ inbox = <<>> /\ outbox = <<>> /\ cGot = <<>>
  /\ cHeader = FALSE
  /\ bHeader = FALSE /\ bSent = 0 /\ bStatus = "running"
  /\ fromB = <<>> /\ toB = <<>> /\ bGot = <<>>
  /\ hPc = "acquire" /\ pinned = FALSE /\ created = FALSE
  /\ cancelled = FALSE /\ halfClose = "none" /\ trailer = FALSE
  /\ result = "none" /\ told = "none"
  /\ ended = "open"
  /\ s2cPc = "idle" /\ s2cFrame = Nil /\ s2cCh = Nil
  /\ c2sPc = "idle" /\ c2sFrame = Nil /\ c2sCh = Nil

-----------------------------------------------------------------------------
(* The client and the backend.                                             *)

ClientLive == ~cGone /\ ~Finished

ClientSend ==
  /\ ClientLive /\ ~cClosed /\ cSent < ClientMsgs
  /\ cSent' = cSent + 1
  /\ inbox' = Append(inbox, cSent + 1)
  /\ UNCHANGED <<cClosed, cGone, outbox, cGot, cHeader, backendVars,
                 handlerVars, ended, s2cVars, c2sVars>>

ClientHalfClose ==
  /\ ClientLive /\ ~cClosed
  /\ cClosed' = TRUE
  /\ UNCHANGED <<cSent, cGone, inbox, outbox, cGot, cHeader, backendVars,
                 handlerVars, ended, s2cVars, c2sVars>>

(* What is in the window when the call ends normally can still be read.    *)
ClientRead ==
  /\ ~cGone /\ outbox # <<>>
  /\ outbox' = Tail(outbox)
  /\ cGot' = Append(cGot, Head(outbox))
  /\ UNCHANGED <<cSent, cClosed, cGone, inbox, cHeader, backendVars,
                 handlerVars, ended, s2cVars, c2sVars>>

ClientGone ==
  /\ ClientLive
  /\ cGone' = TRUE
  /\ UNCHANGED <<cSent, cClosed, inbox, outbox, cGot, cHeader, backendVars,
                 handlerVars, ended, s2cVars, c2sVars>>

(* The backend acts on a stream that exists and that the proxy has not     *)
(* ended; what it does later nobody sees.                                  *)
BackendLive == created /\ ended = "open" /\ bStatus = "running"

BackendHeader ==
  /\ BackendLive /\ ~bHeader
  /\ bHeader' = TRUE
  /\ UNCHANGED <<clientVars, bSent, bStatus, fromB, toB, bGot, handlerVars,
                 ended, s2cVars, c2sVars>>

BackendSend ==
  /\ BackendLive /\ bHeader /\ bSent < BackendMsgs
  /\ bSent' = bSent + 1
  /\ fromB' = Append(fromB, bSent + 1)
  /\ UNCHANGED <<clientVars, bHeader, bStatus, toB, bGot, handlerVars, ended,
                 s2cVars, c2sVars>>

BackendRead ==
  /\ BackendLive /\ toB # <<>>
  /\ toB' = Tail(toB)
  /\ bGot' = Append(bGot, Head(toB))
  /\ UNCHANGED <<clientVars, bHeader, bSent, bStatus, fromB, handlerVars,
                 ended, s2cVars, c2sVars>>

(* OK or an error, with or without reading everything, with or without     *)
(* headers.                                                                *)
BackendFinish(st) ==
  /\ BackendLive
  /\ bStatus' = st
  /\ UNCHANGED <<clientVars, bHeader, bSent, fromB, toB, bGot, handlerVars,
                 ended, s2cVars, c2sVars>>

-----------------------------------------------------------------------------
(* Forward up to the start of the pumps.                                   *)

(* A RecvMsg or SendMsg on serverStream that fails writes its error to the *)
(* client before it returns.                                               *)
Tell(st) == told' = IF Finished THEN told ELSE st

(* Forward returns r; its deferred calls are still to run.                 *)
Return(r, next) == result' = r /\ hPc' = next

Acquire ==
  /\ hPc = "acquire"
  /\ hPc' = "open" /\ pinned' = TRUE
  /\ UNCHANGED <<clientVars, backendVars, first, created, cancelled,
                 halfClose, trailer, result, told, ended, s2cVars,
                 c2sVars>>

AcquireFails ==
  /\ hPc = "acquire"
  /\ Return("unavailable", "done")
  /\ UNCHANGED <<clientVars, backendVars, first, pinned, created, cancelled,
                 halfClose, trailer, told, ended, s2cVars, c2sVars>>

(* firstFrame = nil goes straight to the pumps.                            *)
OpenStream ==
  /\ hPc = "open"
  /\ created' = TRUE
  /\ hPc' = IF first = Nil THEN "start" ELSE "first"
  /\ UNCHANGED <<clientVars, backendVars, first, pinned, cancelled, halfClose,
                 trailer, result, told, ended, s2cVars, c2sVars>>

(* The backend cannot be reached, or the client left while connecting.     *)
OpenStreamFails ==
  /\ hPc = "open"
  /\ Return("unavailable", "cancel")
  /\ UNCHANGED <<clientVars, backendVars, first, pinned, created, cancelled,
                 halfClose, trailer, told, ended, s2cVars, c2sVars>>

(* SendMsg on clientStream, for both its callers: it takes message m when  *)
(* the stream is open and the window has room, ...                         *)
SendToBackend(m) ==
  /\ ~StreamOver /\ Len(toB) < Window
  /\ toB' = Append(toB, m)
  /\ UNCHANGED ended

(* ... returns io.EOF when the stream has ended, whichever side ended it,  *)
(* or when its context is done, which aborts the stream, ...               *)
SendSeesEnd ==
  /\ StreamOver \/ CallDone
  /\ ended' = IF StreamOver THEN ended ELSE "canceled"
  /\ UNCHANGED toB

(* ... or fails with a status of its own, which ends the stream.           *)
SendFails ==
  /\ LocalFaults /\ ~StreamOver
  /\ ended' = "local"
  /\ UNCHANGED toB

(* Mutant: the message read for middleware is not forwarded.               *)
SendFirstSkipped ==
  /\ hPc = "first"
  /\ hPc' = "start"
  /\ UNCHANGED <<clientVars, backendVars, first, pinned, created, cancelled,
                 halfClose, trailer, result, told, ended, s2cVars,
                 c2sVars>>

(* sendFirstFrame takes nil and io.EOF alike for success.                  *)
SendFirst ==
  /\ hPc = "first"
  /\ \/ SendToBackend(first)
     \/ SendSeesEnd
  /\ hPc' = "start"
  /\ UNCHANGED <<clientVars, bHeader, bSent, bStatus, fromB, bGot, first,
                 pinned, created, cancelled, halfClose, trailer, result,
                 told, s2cVars, c2sVars>>

SendFirstFails ==
  /\ hPc = "first"
  /\ SendFails
  /\ Return("local", "cancel")
  /\ UNCHANGED <<clientVars, bHeader, bSent, bStatus, fromB, bGot, first,
                 pinned, created, cancelled, halfClose, trailer, told,
                 s2cVars, c2sVars>>

(* Mutant: every call is unary, so half-close behind the first message.    *)
StartPumpsHalfClosed ==
  /\ hPc = "start"
  /\ hPc' = "select" /\ halfClose' = IF StreamOver THEN "over" ELSE "live"
  /\ s2cPc' = "header" /\ c2sPc' = "recv"
  /\ UNCHANGED <<clientVars, backendVars, first, pinned, created, cancelled,
                 trailer, result, told, ended, s2cFrame, s2cCh, c2sFrame,
                 c2sCh>>

StartPumps ==
  /\ hPc = "start"
  /\ hPc' = "select"
  /\ s2cPc' = "header" /\ c2sPc' = "recv"
  /\ UNCHANGED <<clientVars, backendVars, first, pinned, created, cancelled,
                 halfClose, trailer, result, told, ended, s2cFrame, s2cCh,
                 c2sFrame, c2sCh>>

-----------------------------------------------------------------------------
(* The select loop. With both channels ready either may be chosen.         *)

(* Mutant: trailers are copied before backendDone is looked at.            *)
TakeWriteFailureTrailer ==
  /\ hPc = "select" /\ s2cCh # Nil /\ ~s2cCh.backendDone
  /\ s2cCh' = Nil
  /\ trailer' = TRUE /\ cancelled' = TRUE
  /\ Return(s2cCh.err, "cancel")
  /\ UNCHANGED <<clientVars, backendVars, first, pinned, created, halfClose,
                 told, ended, s2cPc, s2cFrame, c2sVars>>

(* res from s2cCh, !res.backendDone: the write to the client failed.       *)
TakeWriteFailure ==
  /\ hPc = "select" /\ s2cCh # Nil /\ ~s2cCh.backendDone
  /\ s2cCh' = Nil
  /\ cancelled' = TRUE
  /\ Return(s2cCh.err, "cancel")
  /\ UNCHANGED <<clientVars, backendVars, first, pinned, created, halfClose,
                 trailer, told, ended, s2cPc, s2cFrame, c2sVars>>

(* Mutant: the handler joins the client direction before it returns.       *)
TakeBackendEndJoin ==
  /\ hPc = "select" /\ s2cCh # Nil /\ s2cCh.backendDone
  /\ c2sPc = "exited"
  /\ s2cCh' = Nil
  /\ trailer' = TRUE
  /\ IF s2cCh.err = "EOF"
     THEN Return("ok", "cancel") /\ UNCHANGED cancelled
     ELSE Return(s2cCh.err, "cancel") /\ cancelled' = TRUE
  /\ UNCHANGED <<clientVars, backendVars, first, pinned, created, halfClose,
                 told, ended, s2cPc, s2cFrame, c2sVars>>

(* res from s2cCh, res.backendDone: trailers, then nil for io.EOF and the  *)
(* error otherwise.                                                        *)
TakeBackendEnd ==
  /\ hPc = "select" /\ s2cCh # Nil /\ s2cCh.backendDone
  /\ s2cCh' = Nil
  /\ trailer' = TRUE
  /\ IF s2cCh.err = "EOF"
     THEN Return("ok", "cancel") /\ UNCHANGED cancelled
     ELSE Return(s2cCh.err, "cancel") /\ cancelled' = TRUE
  /\ UNCHANGED <<clientVars, backendVars, first, pinned, created, halfClose,
                 told, ended, s2cPc, s2cFrame, c2sVars>>

(* c2sErr that is not io.EOF: cancel the backend stream; next look at the  *)
(* context of serverStream.                                                *)
TakeClientError ==
  /\ hPc = "select" /\ c2sCh \notin {Nil, "EOF"}
  /\ c2sCh' = Nil
  /\ cancelled' = TRUE
  /\ Return(c2sCh, "ctx")
  /\ UNCHANGED <<clientVars, backendVars, first, pinned, created, halfClose,
                 trailer, told, ended, s2cVars, c2sPc, c2sFrame>>

(* Mutant: the client's io.EOF is taken for the end of the call.           *)
TakeClientEOFReturn ==
  /\ hPc = "select" /\ c2sCh = "EOF"
  /\ c2sCh' = Nil
  /\ Return("ok", "cancel")
  /\ UNCHANGED <<clientVars, backendVars, first, pinned, created, cancelled,
                 halfClose, trailer, told, ended, s2cVars, c2sPc,
                 c2sFrame>>

(* c2sErr that is io.EOF: CloseSend, which reaches the backend only if the *)
(* stream has not ended, and on with the loop.                             *)
TakeClientEOF ==
  /\ hPc = "select" /\ c2sCh = "EOF"
  /\ c2sCh' = Nil
  /\ halfClose' = IF StreamOver THEN "over" ELSE "live"
  /\ UNCHANGED <<clientVars, backendVars, hPc, first, pinned, created,
                 cancelled, trailer, result, told, ended, s2cVars, c2sPc,
                 c2sFrame>>

(* Mutants: the handler always waits for the other pump, or never.         *)
CheckContextAlways ==
  /\ hPc = "ctx" /\ hPc' = "drain"
  /\ UNCHANGED <<clientVars, backendVars, first, pinned, created, cancelled,
                 halfClose, trailer, result, told, ended, s2cVars,
                 c2sVars>>

CheckContextNever ==
  /\ hPc = "ctx" /\ hPc' = "cancel"
  /\ UNCHANGED <<clientVars, backendVars, first, pinned, created, cancelled,
                 halfClose, trailer, result, told, ended, s2cVars,
                 c2sVars>>

(* Only a done context makes the handler wait for the other pump.          *)
CheckContext ==
  /\ hPc = "ctx"
  /\ hPc' = IF ServerDone THEN "drain" ELSE "cancel"
  /\ UNCHANGED <<clientVars, backendVars, first, pinned, created, cancelled,
                 halfClose, trailer, result, told, ended, s2cVars,
                 c2sVars>>

Drain ==
  /\ hPc = "drain" /\ s2cCh # Nil
  /\ s2cCh' = Nil /\ hPc' = "cancel"
  /\ UNCHANGED <<clientVars, backendVars, first, pinned, created, cancelled,
                 halfClose, trailer, result, told, ended, s2cPc, s2cFrame,
                 c2sVars>>

(* Mutant: release is deferred after clientCancel, so it runs before.      *)
DeferCancelSwapped ==
  /\ hPc = "cancel"
  /\ pinned' = FALSE /\ hPc' = "release"
  /\ UNCHANGED <<clientVars, backendVars, first, created, cancelled,
                 halfClose, trailer, result, told, ended, s2cVars,
                 c2sVars>>

(* The deferred calls, last one first: clientCancel, then release.         *)
DeferCancel ==
  /\ hPc = "cancel"
  /\ cancelled' = TRUE /\ hPc' = "release"
  /\ UNCHANGED <<clientVars, backendVars, first, pinned, created, halfClose,
                 trailer, result, told, ended, s2cVars, c2sVars>>

DeferRelease ==
  /\ hPc = "release"
  /\ pinned' = FALSE /\ hPc' = "done"
  /\ UNCHANGED <<clientVars, backendVars, first, created, cancelled,
                 halfClose, trailer, result, told, ended, s2cVars,
                 c2sVars>>

(* gRPC writes the status the handler has returned, unless there was one   *)
(* before.                                                                 *)
FinishServerStream ==
  /\ hPc = "done" /\ ~Finished
  /\ told' = result
  /\ UNCHANGED <<clientVars, backendVars, hPc, first, pinned, created,
                 cancelled, halfClose, trailer, result, ended, s2cVars,
                 c2sVars>>

-----------------------------------------------------------------------------
(* forwardBackendToClient.                                                 *)

(* Mutant: the channel is not buffered.                                    *)
ReportS2CUnbuffered(e, done) ==
  /\ hPc \in {"select", "drain"}
  /\ s2cCh' = [err |-> e, backendDone |-> done]
  /\ s2cPc' = "exited" /\ s2cFrame' = Nil

(* The pump sends its one report and exits.                                *)
ReportS2C(e, done) ==
  /\ s2cCh' = [err |-> e, backendDone |-> done]
  /\ s2cPc' = "exited" /\ s2cFrame' = Nil

(* Header returns the headers once they are there ...                      *)
HeaderArrives ==
  /\ s2cPc = "header" /\ bHeader
  /\ s2cPc' = "sendHeader"
  /\ UNCHANGED <<clientVars, backendVars, handlerVars, ended, s2cFrame, s2cCh,
                 c2sVars>>

(* ... and nil, without an error, when the stream ends first.              *)
HeaderMissing ==
  /\ s2cPc = "header"
  /\ CallDone \/ ended # "open" \/ (bStatus # "running" /\ ~bHeader)
  /\ s2cPc' = "recv"
  /\ UNCHANGED <<clientVars, backendVars, handlerVars, ended, s2cFrame, s2cCh,
                 c2sVars>>

SendHeader ==
  /\ s2cPc = "sendHeader" /\ ~Finished
  /\ cHeader' = TRUE /\ s2cPc' = "recv"
  /\ UNCHANGED <<cSent, cClosed, cGone, inbox, outbox, cGot, backendVars,
                 handlerVars, ended, s2cFrame, s2cCh, c2sVars>>

SendHeaderFails ==
  /\ s2cPc = "sendHeader" /\ ServerDone
  /\ ReportS2C("write", FALSE)
  /\ UNCHANGED <<clientVars, backendVars, handlerVars, ended, c2sVars>>

(* RecvMsg returns the next message, which may have been waiting since     *)
(* before the stream ended, ...                                            *)
RecvFromBackend ==
  /\ s2cPc = "recv" /\ fromB # <<>>
  /\ s2cFrame' = Head(fromB) /\ fromB' = Tail(fromB)
  /\ s2cPc' = "send"
  /\ UNCHANGED <<clientVars, bHeader, bSent, bStatus, toB, bGot, handlerVars,
                 ended, s2cCh, c2sVars>>

(* Mutant: OK is reported like any status.                                 *)
RecvStatusPlain ==
  /\ s2cPc = "recv" /\ fromB = <<>>
  /\ bStatus # "running" /\ ended = "open"
  /\ ended' = bStatus
  /\ ReportS2C(bStatus, TRUE)
  /\ UNCHANGED <<clientVars, backendVars, handlerVars, c2sVars>>

(* ... the status of the backend after its last message, OK being io.EOF,  *)
RecvStatus ==
  /\ s2cPc = "recv" /\ fromB = <<>>
  /\ bStatus # "running" /\ ended = "open"
  /\ ended' = bStatus
  /\ ReportS2C(IF bStatus = "ok" THEN "EOF" ELSE bStatus, TRUE)
  /\ UNCHANGED <<clientVars, backendVars, handlerVars, c2sVars>>

(* the error with which the other pump has ended the stream, the end of    *)
(* its context,                                                            *)
RecvSeesEnd ==
  /\ s2cPc = "recv"
  /\ \/ ended = "local" /\ UNCHANGED ended /\ ReportS2C("local", TRUE)
     \/ /\ CallDone
        /\ ended' = IF ended = "open" THEN "canceled" ELSE ended
        /\ ReportS2C("canceled", TRUE)
  /\ UNCHANGED <<clientVars, backendVars, handlerVars, c2sVars>>

(* or an error of its own, which ends the stream: a message is over the    *)
(* limit.                                                                  *)
RecvTooBig ==
  /\ LocalFaults /\ s2cPc = "recv" /\ fromB # <<>>
  /\ ended' = "local"
  /\ ReportS2C("local", TRUE)
  /\ UNCHANGED <<clientVars, backendVars, handlerVars, c2sVars>>

(* SendMsg to the client waits for room in the window. It fails when the   *)
(* context is done, or on a message over the limit.                        *)
SendToClient ==
  /\ s2cPc = "send" /\ ~Finished /\ Len(outbox) < Window
  /\ outbox' = Append(outbox, s2cFrame)
  /\ s2cPc' = "recv" /\ s2cFrame' = Nil
  /\ UNCHANGED <<cSent, cClosed, cGone, inbox, cGot, cHeader, backendVars,
                 handlerVars, ended, s2cCh, c2sVars>>

SendToClientFails ==
  /\ s2cPc = "send" /\ ServerDone
  /\ ReportS2C("write", FALSE) /\ Tell("write")
  /\ UNCHANGED <<clientVars, backendVars, hPc, first, pinned, created,
                 cancelled, halfClose, trailer, result, ended, c2sVars>>

SendToClientTooBig ==
  /\ LocalFaults /\ s2cPc = "send"
  /\ ReportS2C("local", FALSE) /\ Tell("local")
  /\ UNCHANGED <<clientVars, backendVars, hPc, first, pinned, created,
                 cancelled, halfClose, trailer, result, ended, c2sVars>>

-----------------------------------------------------------------------------
(* forwardClientToBackend.                                                 *)

ReportC2S(e) ==
  /\ c2sCh' = e
  /\ c2sPc' = "exited" /\ c2sFrame' = Nil

RecvFromClient ==
  /\ c2sPc = "recv" /\ inbox # <<>>
  /\ c2sFrame' = Head(inbox) /\ inbox' = Tail(inbox)
  /\ c2sPc' = "send"
  /\ UNCHANGED <<cSent, cClosed, cGone, outbox, cGot, cHeader, backendVars,
                 handlerVars, ended, s2cVars, c2sCh>>

RecvClientEOF ==
  /\ c2sPc = "recv" /\ inbox = <<>> /\ cClosed
  /\ ReportC2S("EOF")
  /\ UNCHANGED <<clientVars, backendVars, handlerVars, ended, s2cVars>>

RecvFromClientFails ==
  /\ c2sPc = "recv" /\ ServerDone
  /\ ReportC2S("canceled") /\ Tell("canceled")
  /\ UNCHANGED <<clientVars, backendVars, hPc, first, pinned, created,
                 cancelled, halfClose, trailer, result, ended, s2cVars>>

RecvFromClientTooBig ==
  /\ LocalFaults /\ c2sPc = "recv" /\ inbox # <<>>
  /\ ReportC2S("local") /\ Tell("local")
  /\ UNCHANGED <<clientVars, backendVars, hPc, first, pinned, created,
                 cancelled, halfClose, trailer, result, ended, s2cVars>>

SendOn ==
  /\ c2sPc = "send"
  /\ SendToBackend(c2sFrame)
  /\ c2sPc' = "recv" /\ c2sFrame' = Nil
  /\ UNCHANGED <<clientVars, bHeader, bSent, bStatus, fromB, bGot, handlerVars,
                 s2cVars, c2sCh>>

(* The io.EOF of a SendMsg goes out on the channel like that of a RecvMsg. *)
SendOnSeesEnd ==
  /\ c2sPc = "send" /\ SendSeesEnd
  /\ ReportC2S("EOF")
  /\ UNCHANGED <<clientVars, bHeader, bSent, bStatus, fromB, bGot, handlerVars,
                 s2cVars>>

SendOnFails ==
  /\ c2sPc = "send"
  /\ SendFails
  /\ ReportC2S("local")
  /\ UNCHANGED <<clientVars, bHeader, bSent, bStatus, fromB, bGot, handlerVars,
                 s2cVars>>

-----------------------------------------------------------------------------
ClientStep == ClientSend \/ ClientHalfClose \/ ClientRead \/ ClientGone

BackendStep ==
  \/ BackendHeader \/ BackendSend \/ BackendRead
  \/ \E st \in {"ok", "backend"} : BackendFinish(st)

HandlerStep ==
  \/ Acquire \/ AcquireFails \/ OpenStream \/ OpenStreamFails
  \/ SendFirst \/ SendFirstFails \/ StartPumps
  \/ TakeWriteFailure \/ TakeBackendEnd \/ TakeClientError \/ TakeClientEOF
  \/ CheckContext \/ Drain \/ DeferCancel \/ DeferRelease

S2CStep ==
  \/ HeaderArrives \/ HeaderMissing \/ SendHeader \/ SendHeaderFails
  \/ RecvFromBackend \/ RecvStatus \/ RecvSeesEnd
  \/ SendToClient \/ SendToClientFails

C2SStep ==
  \/ RecvFromClient \/ RecvClientEOF \/ RecvFromClientFails
  \/ SendOn \/ SendOnSeesEnd

SizeLimit ==
  RecvTooBig \/ SendToClientTooBig \/ RecvFromClientTooBig \/ SendOnFails

Next ==
  \/ ClientStep \/ BackendStep \/ HandlerStep \/ FinishServerStream
  \/ S2CStep \/ C2SStep \/ SizeLimit

Spec == Init /\ [][Next]_vars

-----------------------------------------------------------------------------
(* Fairness. The goroutines of the proxy and gRPC run when they can. A     *)
(* peer need not send, read, half-close, finish or leave, and no message   *)
(* need be over a limit.                                                   *)
Fairness ==
  /\ WF_vars(HandlerStep) /\ WF_vars(FinishServerStream)
  /\ WF_vars(S2CStep) /\ WF_vars(C2SStep)

FairSpec == Spec /\ Fairness

(* A client that goes on reading while there is something to read.         *)
ReadingSpec == FairSpec /\ WF_vars(ClientRead)

-----------------------------------------------------------------------------
(* Properties.                                                             *)

PeerErrors == {"backend", "canceled", "local", "write"}
Report == [err : PeerErrors \cup {"EOF"}, backendDone : BOOLEAN]

ClientTypeOK ==
  /\ cSent \in 0..ClientMsgs
  /\ cClosed \in BOOLEAN /\ cGone \in BOOLEAN /\ cHeader \in BOOLEAN
  /\ inbox \in Seq(1..ClientMsgs)
  /\ outbox \in Seq(1..BackendMsgs) /\ Len(outbox) <= Window
  /\ cGot \in Seq(1..BackendMsgs)

BackendTypeOK ==
  /\ bHeader \in BOOLEAN /\ bSent \in 0..BackendMsgs
  /\ bStatus \in {"running", "ok", "backend"}
  /\ fromB \in Seq(1..BackendMsgs)
  /\ toB \in Seq(1..ClientMsgs) /\ Len(toB) <= Window
  /\ bGot \in Seq(1..ClientMsgs)

ProxyTypeOK ==
  /\ hPc \in {"acquire", "open", "first", "start", "select", "ctx", "drain",
              "cancel", "release", "done"}
  /\ first \in {1, Nil}
  /\ pinned \in BOOLEAN /\ created \in BOOLEAN /\ cancelled \in BOOLEAN
  /\ trailer \in BOOLEAN
  /\ ended \in {"open", "ok", "backend", "local", "canceled"}
  /\ halfClose \in {"none", "live", "over"}
  /\ result \in {"none", "ok", "unavailable"} \cup PeerErrors
  /\ told \in {"none", "ok", "unavailable"} \cup PeerErrors
  /\ s2cPc \in {"idle", "header", "sendHeader", "recv", "send", "exited"}
  /\ s2cFrame \in 1..BackendMsgs \cup {Nil}
  /\ s2cCh \in Report \cup {Nil}
  /\ c2sPc \in {"idle", "recv", "send", "exited"}
  /\ c2sFrame \in 1..ClientMsgs \cup {Nil}
  /\ c2sCh \in PeerErrors \cup {"EOF", Nil}

(* Every variable holds a value of its type and no window is overrun.      *)
TypeOK == ClientTypeOK /\ BackendTypeOK /\ ProxyTypeOK

(* What was written to a peer, read by it or not.                          *)
WrittenToClient == cGot \o outbox
WrittenToBackend == bGot \o toB

(* The client got all that the backend sent: every message in order, the   *)
(* headers (unless its context ended while the proxy waited for them) and  *)
(* the trailers.                                                           *)
ResponseComplete ==
  /\ WrittenToClient = Numbered(bSent)
  /\ bHeader => cHeader \/ cGone
  /\ trailer

(* The status the client is told names its cause. OK and the backend's own *)
(* error are told only for a backend that ended that way, behind its whole *)
(* response; an error of a stream's context only if the client left; and   *)
(* Unavailable only before there is a stream.                              *)
ResultFaithful ==
  /\ told \in {"ok", "backend"} => told = bStatus /\ ResponseComplete
  /\ told \in {"canceled", "write"} => cGone
  /\ told = "unavailable" => ~created

(* A half-close that reaches the backend comes after every message of a    *)
(* client that has half-closed, although the io.EOF that leads to it may   *)
(* come from a SendMsg. And CloseSend, whatever stream state it meets,     *)
(* never runs beside or before a SendMsg.                                  *)
HalfCloseFaithful ==
  /\ halfClose = "live" => cClosed /\ WrittenToBackend = Numbered(cSent)
  /\ halfClose # "none" => c2sPc = "exited"

(* The pump that writes to serverStream outlives the handler only if       *)
(* SendMsg has failed on the backend leg, with a status of its own: never  *)
(* after a disconnect, nor after a client message over the limit.          *)
LateWriterHasCause ==
  hPc \in {"cancel", "release", "done"} /\ s2cPc \notin {"idle", "exited"} =>
    result = "local" /\ ended = "local"

(* While the backend stream may be alive the connection is pinned: release *)
(* runs after clientCancel on every path.                                  *)
PinnedWhileLive == created /\ ~cancelled => pinned

(* Trailer is called only once RecvMsg has failed.                         *)
TrailerReadable == trailer => ended # "open"

(* The handler ends when the client leaves or its own direction fails,     *)
(* though the backend never finish and the client read nothing: the wait   *)
(* for the other pump is not circular.                                     *)
FailureEndsCall ==
  (hPc # "acquire" /\ (cGone \/ c2sCh \in PeerErrors)) ~> hPc = "done"

(* After the handler, both pumps end and the pin is gone, although the     *)
(* handler has not waited for them.                                        *)
NothingOutlivesCall ==
  hPc = "done" ~> /\ s2cPc \in {"idle", "exited"}
                  /\ c2sPc \in {"idle", "exited"} /\ ~pinned

(* The end of the backend ends the call for a client that reads, although  *)
(* it never half-closes.                                                   *)
BackendEndsCall == bStatus # "running" ~> hPc = "done"
=============================================================================

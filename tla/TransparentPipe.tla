--------------------------- MODULE TransparentPipe ---------------------------
(***************************************************************************)
(* What a proxied call promises to its two peers, without pumps, windows   *)
(* and contexts: two one-way lanes that lose, invent and reorder nothing,  *)
(* a half-close that travels behind the client's last message, and an      *)
(* outcome that is the backend's own unless the call had some trouble.     *)
(* A lane may be cut short, at any message, by the end of the call.        *)
(***************************************************************************)
EXTENDS Integers, Sequences

VARIABLES
  cSent,    (* Messages sent by the client.                                *)
  cClosed,  (* The client has half-closed.                                 *)
  toBackend,(* Messages handed to the backend's side.                      *)
  bEof,     (* The half-close was handed to the backend's side.            *)
  bSent,    (* Messages sent by the backend.                               *)
  bStatus,  (* "running", "ok" or "backend", its error.                    *)
  toClient, (* Messages handed to the client's side.                       *)
  trouble,  (* The client left, or a size limit of the proxy is in force.  *)
  outcome   (* "none", then the backend's status or "failed".              *)

vars == <<cSent, cClosed, toBackend, bEof, bSent, bStatus, toClient, trouble,
          outcome>>

Init ==
  /\ <<cSent, cClosed>> \in {<<1, FALSE>>, <<0, TRUE>>}
  /\ toBackend = <<>> /\ bEof = FALSE
  /\ bSent = 0 /\ bStatus = "running" /\ toClient = <<>>
  /\ trouble \in BOOLEAN
  /\ outcome = "none"

ClientSends ==
  /\ ~cClosed
  /\ cSent' = cSent + 1
  /\ UNCHANGED <<cClosed, toBackend, bEof, bSent, bStatus, toClient, trouble,
                 outcome>>

ClientCloses ==
  /\ ~cClosed
  /\ cClosed' = TRUE
  /\ UNCHANGED <<cSent, toBackend, bEof, bSent, bStatus, toClient, trouble,
                 outcome>>

BackendSends ==
  /\ bStatus = "running"
  /\ bSent' = bSent + 1
  /\ UNCHANGED <<cSent, cClosed, toBackend, bEof, bStatus, toClient, trouble,
                 outcome>>

BackendEnds ==
  /\ bStatus = "running" /\ bStatus' \in {"ok", "backend"}
  /\ UNCHANGED <<cSent, cClosed, toBackend, bEof, bSent, toClient, trouble,
                 outcome>>

(* The next message, and nothing behind the half-close.                    *)
CarryToBackend ==
  /\ ~bEof /\ Len(toBackend) < cSent
  /\ toBackend' = Append(toBackend, Len(toBackend) + 1)
  /\ UNCHANGED <<cSent, cClosed, bEof, bSent, bStatus, toClient, trouble,
                 outcome>>

CarryHalfClose ==
  /\ ~bEof /\ cClosed /\ Len(toBackend) = cSent
  /\ bEof' = TRUE
  /\ UNCHANGED <<cSent, cClosed, toBackend, bSent, bStatus, toClient,
                 trouble, outcome>>

(* Nothing follows the backend's status.                                   *)
CarryToClient ==
  /\ outcome \in {"none", "failed"} /\ Len(toClient) < bSent
  /\ toClient' = Append(toClient, Len(toClient) + 1)
  /\ UNCHANGED <<cSent, cClosed, toBackend, bEof, bSent, bStatus, trouble,
                 outcome>>

Trouble ==
  /\ ~trouble /\ trouble' = TRUE
  /\ UNCHANGED <<cSent, cClosed, toBackend, bEof, bSent, bStatus, toClient,
                 outcome>>

(* The backend's status comes behind its last message.                     *)
EndAsBackend ==
  /\ outcome = "none" /\ bStatus # "running" /\ Len(toClient) = bSent
  /\ outcome' = bStatus
  /\ UNCHANGED <<cSent, cClosed, toBackend, bEof, bSent, bStatus, toClient,
                 trouble>>

(* Another status needs trouble, or a call that never got under way.       *)
Fail ==
  /\ outcome = "none"
  /\ trouble \/ (toBackend = <<>> /\ toClient = <<>>)
  /\ outcome' = "failed"
  /\ UNCHANGED <<cSent, cClosed, toBackend, bEof, bSent, bStatus, toClient,
                 trouble>>

Next ==
  \/ ClientSends \/ ClientCloses \/ BackendSends \/ BackendEnds
  \/ CarryToBackend \/ CarryHalfClose \/ CarryToClient
  \/ Trouble \/ EndAsBackend \/ Fail

Spec == Init /\ [][Next]_vars
=============================================================================

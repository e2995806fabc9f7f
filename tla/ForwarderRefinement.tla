------------------------- MODULE ForwarderRefinement -------------------------
(***************************************************************************)
(* Forward implements TransparentPipe: a message counts as carried once it *)
(* is written to its stream, a half-close once CloseSend has met a live    *)
(* stream, and the outcome is the status gRPC tells the client.            *)
(***************************************************************************)
EXTENDS Forwarder

Outcome == IF told \in {"none", "ok", "backend"} THEN told ELSE "failed"

Pipe == INSTANCE TransparentPipe
          WITH toBackend <- WrittenToBackend,
               toClient <- WrittenToClient,
               bEof <- halfClose = "live",
               trouble <- cGone \/ LocalFaults,
               outcome <- Outcome

(* Every step of the pumps, the handler and the peers is a step of the     *)
(* pipe or invisible to the peers.                                         *)
ImplementsPipe == Pipe!Spec
=============================================================================

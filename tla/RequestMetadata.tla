--------------------------- MODULE RequestMetadata ---------------------------
(***************************************************************************)
(* What a request carries besides its messages: the metadata, from the     *)
(* handler's copy over the edits of middleware to what Forward sends       *)
(* (proxy/server.go, middleware/context.go, proxy/forwarder.go), and the   *)
(* values middlewares share in a pooled Context.                           *)
(*                                                                         *)
(* Go's maps and RequestInfos are shared by reference: both are objects    *)
(* with an identity, and Context.Request and RequestInfo.Metadata refer to *)
(* them.  Both fields are exported, so middleware may assign them; Shared  *)
(* is a map that a program keeps and gives to several requests.            *)
(* The chain itself is RequestHandler's: here middleware is a sequence of  *)
(* calls on the Context.                                                   *)
(***************************************************************************)
EXTENDS Integers, Sequences

CONSTANTS
  Requests,   (* RPCs.                                                     *)
  Contexts,   (* Context objects of the pool.                              *)
  MaxCalls,   (* Bounds the calls of one request's middleware.             *)
  Nil

ASSUME MetadataAssumption == MaxCalls \in Nat /\ Nil \notin Contexts \cup Requests

(* Contents of a map: the values of each key.  A content-type is cut into  *)
(* its prefix, what follows it, and the rest.                              *)
Keys == {"key", "grpc-accept-encoding", "content-type"}
NoSubtype == ""
Bare == <<"application/grpc">>
Grpc(subtype) == <<"application/grpc", "+", subtype>>
MD(key, accept, type) ==
  [k \in Keys |-> CASE k = "key" -> key [] k = "grpc-accept-encoding" -> accept
                    [] OTHER -> type]
EmptyMD == [k \in Keys |-> <<>>]
ClientMetadata ==
  {Nil, MD(<<"v">>, <<"zstd">>, <<Grpc("json")>>), MD(<<>>, <<"gzip">>, <<Bare>>),
   MD(<<>>, <<>>, << <<"application/grpc", ";", "x">> >>)}

(* The RequestInfo of the handler, and one that middleware makes; the maps *)
(* are the handler's copy, one that is made for each RequestInfo, and      *)
(* Shared.                                                                 *)
Infos == Requests \X {"handler", "middleware"}
Shared == <<Nil, "shared">>
Maps == {Shared} \cup (Requests \X {"copied"}) \cup Infos

VARIABLES
  client,   (* The metadata each client sent.                              *)
  md,       (* Contents of the maps.                                       *)
  info,     (* RequestInfo.Metadata: a map or Nil.                         *)
  pool,     (* Free Contexts.                                              *)
  ctx,      (* Context.Request and Context.values.                         *)
  mine,     (* The Context of a request.                                   *)
  pc,       (* "start", "chain", "forward", "done".                        *)
  calls,    (* Calls of the request's middleware so far.                   *)
  sent,     (* What Forward gave to the backend leg.                       *)
  edited,   (* What the middlewares' calls have made of each map.          *)
  got       (* What Get has returned to a request.                         *)

vars == <<client, md, info, pool, ctx, mine, pc, calls, sent, edited, got>>

Blank == [request |-> Nil, values |-> Nil]

Init ==
  /\ client \in [Requests -> ClientMetadata]
  /\ md = [m \in Maps |-> EmptyMD] /\ edited = md
  /\ info = [i \in Infos |-> Nil]
  /\ pool = Contexts /\ ctx = [c \in Contexts |-> Blank]
  /\ mine = [r \in Requests |-> Nil]
  /\ pc = [r \in Requests |-> "start"]
  /\ calls = [r \in Requests |-> 0]
  /\ sent = [r \in Requests |-> Nil]
  /\ got = [r \in Requests |-> {}]

-----------------------------------------------------------------------------
(* The Contexts after c.Request = i.                                       *)
WithRequest(c, i) == [ctx EXCEPT ![c] = [request |-> i, values |-> @.values]]

(* FromIncomingContext copies; AcquireContext replaces a missing map and   *)
(* sets the fields a pooled Context needs.                                 *)
AcquireContext(r, c) ==
  LET own == <<r, "copied">>
  IN  /\ pc[r] = "start" /\ c \in pool
      /\ md' = [md EXCEPT ![own] = IF client[r] = Nil THEN EmptyMD ELSE client[r]]
      /\ edited' = [edited EXCEPT ![own] = md'[own]]
      /\ info' = [info EXCEPT ![<<r, "handler">>] = own]
      /\ pool' = pool \ {c}
      /\ ctx' = WithRequest(c, <<r, "handler">>)
      /\ mine' = [mine EXCEPT ![r] = c]
      /\ pc' = [pc EXCEPT ![r] = "chain"]
      /\ UNCHANGED <<client, calls, sent, got>>

(* A call of middleware on its Context.                                    *)
Call(r) ==
  /\ pc[r] = "chain" /\ calls[r] < MaxCalls
  /\ calls' = [calls EXCEPT ![r] = @ + 1]
  /\ UNCHANGED <<client, pool, mine, pc, sent>>

Viewed(r) == info[ctx[mine[r]].request]

(* Context.AddMetadata, which makes a missing map.                         *)
AddMetadata(r) ==
  /\ Call(r)
  /\ LET m       == IF Viewed(r) = Nil THEN ctx[mine[r]].request ELSE Viewed(r)
         With(c) == [(IF Viewed(r) = Nil THEN EmptyMD ELSE c) EXCEPT
                       !["key"] = Append(@, "w")]
     IN  /\ info' = [info EXCEPT ![ctx[mine[r]].request] = m]
         /\ md' = [md EXCEPT ![m] = With(@)]
         /\ edited' = [edited EXCEPT ![m] = With(@)]
  /\ UNCHANGED <<ctx, got>>

(* Request.Metadata.Set and Delete.                                        *)
Edit(r, key, values) ==
  /\ Call(r) /\ Viewed(r) # Nil
  /\ md' = [md EXCEPT ![Viewed(r)][key] = values]
  /\ edited' = [edited EXCEPT ![Viewed(r)][key] = values]
  /\ UNCHANGED <<info, ctx, got>>

(* Request.Metadata = m.                                                   *)
AssignMetadata(r, m) ==
  /\ Call(r) /\ m # Viewed(r)
  /\ info' = [info EXCEPT ![ctx[mine[r]].request] = m]
  /\ UNCHANGED <<md, ctx, edited, got>>

(* ctx.Request = a RequestInfo of its own, without a map.                  *)
AssignRequest(r) ==
  /\ Call(r)
  /\ info' = [info EXCEPT ![<<r, "middleware">>] = Nil]
  /\ ctx' = WithRequest(mine[r], <<r, "middleware">>)
  /\ UNCHANGED <<md, edited, got>>

Set(r) ==
  /\ Call(r)
  /\ ctx' = [ctx EXCEPT ![mine[r]] = [request |-> @.request, values |-> r]]
  /\ UNCHANGED <<md, info, edited, got>>

Get(r) ==
  /\ Call(r)
  /\ got' = [got EXCEPT ![r] = @ \cup {ctx[mine[r]].values}]
  /\ UNCHANGED <<md, info, ctx, edited>>

-----------------------------------------------------------------------------
(* Mutant: the whole rest is the subtype, whatever it begins with.         *)
contentSubtypeLoose(type) == IF Len(type) = 3 THEN type[3] ELSE NoSubtype

contentSubtype(type) ==
  IF Len(type) = 3 /\ type[1] = "application/grpc" /\ type[2] = "+"
  THEN type[3] ELSE NoSubtype

(* Mutant: the client's encodings are deleted from the caller's map.       *)
OutgoingInPlace(m) == md' = [md EXCEPT ![m]["grpc-accept-encoding"] = <<>>]

(* Forward copies the map it is given, as that belongs to the caller.      *)
Outgoing(m) == md' = md

(* Mutant: the backend is told the client's encodings.                     *)
SentOfAll(m) ==
  LET type == md[m]["content-type"]
  IN  [md      |-> md[m],
       subtype |-> IF type = <<>> THEN NoSubtype ELSE contentSubtype(type[1])]

SentOf(m) ==
  LET type == md[m]["content-type"]
  IN  [md      |-> [md[m] EXCEPT !["grpc-accept-encoding"] = <<>>],
       subtype |-> IF type = <<>> THEN NoSubtype ELSE contentSubtype(type[1])]

(* Mutant: reset forgets the values.                                       *)
resetPartly(c) == [ctx EXCEPT ![c].request = Nil]

reset(c) == [ctx EXCEPT ![c] = Blank]

(* The chain is through: the handler passes the map of its own RequestInfo.*)
Forward(r) ==
  LET m == info[<<r, "handler">>]
  IN  /\ pc[r] = "chain"
      /\ sent' = [sent EXCEPT ![r] =
                    IF m = Nil THEN [md |-> EmptyMD, subtype |-> NoSubtype] ELSE SentOf(m)]
      /\ pc' = [pc EXCEPT ![r] = "forward"]
      /\ IF m = Nil THEN UNCHANGED md ELSE Outgoing(m)
      /\ UNCHANGED <<client, info, pool, ctx, mine, calls, edited, got>>

(* The handler's deferred calls.                                           *)
ReleaseContext(r) ==
  /\ pc[r] = "forward"
  /\ ctx' = reset(mine[r])
  /\ pool' = pool \cup {mine[r]}
  /\ pc' = [pc EXCEPT ![r] = "done"]
  /\ UNCHANGED <<client, md, info, mine, calls, sent, edited, got>>

Step(r) ==
  \/ \E c \in Contexts : AcquireContext(r, c)
  \/ AddMetadata(r)
  \/ Edit(r, "key", <<>>)
  \/ Edit(r, "content-type", <<Grpc("xml")>>)
  \/ \E m \in {Nil, Shared} : AssignMetadata(r, m)
  \/ AssignRequest(r) \/ Set(r) \/ Get(r)
  \/ Forward(r) \/ ReleaseContext(r)

Next == \E r \in Requests : Step(r)

Spec == Init /\ [][Next]_vars

-----------------------------------------------------------------------------
(* Requests do not reach each other: only middleware's own calls change a  *)
(* map, as Forward leaves the caller's, which other requests may use, as   *)
(* it is; and a pooled Context never shows a middleware the values that    *)
(* another request has stored.                                             *)
RequestsIsolated ==
  /\ md = edited
  /\ \A r \in Requests : got[r] \subseteq {r, Nil}

(* The step in which r's request leaves for the backend.                   *)
Leaves(r) == pc[r] = "chain" /\ pc'[r] = "forward"

Sends(r, m) ==
  sent'[r].md = [(IF m = Nil THEN EmptyMD ELSE edited[m])
                   EXCEPT !["grpc-accept-encoding"] = <<>>]

(* Unless middleware has replaced the whole Request, the backend gets what *)
(* the client sent with all edits of all middlewares, but for the client's *)
(* list of encodings.                                                      *)
SentAsEdited ==
  [][\A r \in Requests :
       Leaves(r) /\ ctx[mine[r]].request = <<r, "handler">> => Sends(r, Viewed(r))]_vars

(* The backend leg has the content-type in the metadata wherever that is   *)
(* one of gRPC's, so that the backend decodes as it would have directly.   *)
ContentTypeMirrored ==
  \A r \in Requests :
    sent[r] # Nil =>
      LET type == sent[r].md["content-type"]
          leg  == IF sent[r].subtype = NoSubtype THEN Bare ELSE Grpc(sent[r].subtype)
      IN  IF type # <<>> /\ type[1] \in {Bare, Grpc("json"), Grpc("xml")}
          THEN leg = type[1] ELSE leg = Bare
=============================================================================

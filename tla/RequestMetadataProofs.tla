------------------------ MODULE RequestMetadataProofs ------------------------
(***************************************************************************)
(* RequestsIsolated, SentAsEdited and ContentTypeMirrored for any number   *)
(* of requests, Contexts and calls of middleware.                          *)
(*                                                                         *)
(* The invariant says who may use a Context: a request between             *)
(* AcquireContext and the deferred release, alone; and that what lies in   *)
(* the pool is blank.  ContentTypeMirrored needs the content-types that    *)
(* can be in a map as well (TypesInv).                                     *)
(***************************************************************************)
EXTENDS RequestMetadata, TLAPS

Active(r) == pc[r] \in {"chain", "forward"}

TypeOK ==
  /\ DOMAIN md = Maps
  /\ pool \subseteq Contexts
  /\ ctx \in [Contexts -> [request : Infos \cup {Nil}, values : Requests \cup {Nil}]]
  /\ mine \in [Requests -> Contexts \cup {Nil}]
  /\ pc \in [Requests -> {"start", "chain", "forward", "done"}]
  /\ DOMAIN got = Requests /\ DOMAIN sent = Requests

ContextInv ==
  /\ \A c \in pool : ctx[c] = Blank
  /\ \A r \in Requests : Active(r) => mine[r] \in Contexts \ pool
  /\ \A r, q \in Requests : Active(r) /\ Active(q) /\ mine[r] = mine[q] => r = q
  /\ \A r \in Requests : Active(r) => /\ ctx[mine[r]].values \in {r, Nil}
                                      /\ ctx[mine[r]].request \in Infos

MetadataInv == TypeOK /\ ContextInv /\ RequestsIsolated

LEMMA InitInv == Init => MetadataInv
BY MetadataAssumption
DEF Init, MetadataInv, TypeOK, ContextInv, RequestsIsolated, Active, Blank

-----------------------------------------------------------------------------
LEMMA AcquireInv ==
  ASSUME MetadataInv, NEW r \in Requests, NEW c \in Contexts, AcquireContext(r, c)
  PROVE  MetadataInv'
<1> DEFINE own == <<r, "copied">>
<1>1. own \in Maps /\ <<r, "handler">> \in Infos
  BY DEF Maps, Infos
<1>2. PICK v : /\ md' = [md EXCEPT ![own] = v]
               /\ edited' = [edited EXCEPT ![own] = md'[own]]
  BY DEF AcquireContext
<1>3. /\ pc[r] = "start" /\ pc' = [pc EXCEPT ![r] = "chain"]
      /\ c \in pool /\ pool' = pool \ {c}
      /\ ctx' = WithRequest(c, <<r, "handler">>)
      /\ mine' = [mine EXCEPT ![r] = c]
      /\ UNCHANGED <<sent, got>>
  BY DEF AcquireContext
<1>4. /\ ctx' \in [Contexts -> [request : Infos \cup {Nil}, values : Requests \cup {Nil}]]
      /\ ctx'[c].values = Nil /\ ctx'[c].request = <<r, "handler">>
      /\ \A d \in Contexts : d # c => ctx'[d] = ctx[d]
  BY <1>1, <1>3 DEF MetadataInv, TypeOK, ContextInv, Blank, WithRequest
<1>5. TypeOK'
  BY <1>2, <1>3, <1>4 DEF MetadataInv, TypeOK
<1>6. ContextInv'
  <2>1. \A q \in Requests : Active(q)' => q = r \/ (Active(q) /\ mine'[q] = mine[q])
    BY <1>3 DEF MetadataInv, TypeOK, Active
  <2>2. mine'[r] = c /\ \A q \in Requests : Active(q) => mine[q] # c
    BY <1>3 DEF MetadataInv, TypeOK, ContextInv
  <2> QED
    BY <1>1, <1>3, <1>4, <2>1, <2>2 DEF MetadataInv, TypeOK, ContextInv
<1>7. RequestsIsolated'
  BY <1>1, <1>2, <1>3 DEF MetadataInv, TypeOK, RequestsIsolated
<1> QED
  BY <1>5, <1>6, <1>7 DEF MetadataInv

(* A call of middleware works on the Context that its request owns.        *)
LEMMA CallInv ==
  ASSUME MetadataInv, NEW r \in Requests, Call(r),
         UNCHANGED DOMAIN md, md' = edited',
         ctx' = ctx \/ (\E request \in Infos :
                          ctx' = WithRequest(mine[r], request))
                    \/ ctx' = [ctx EXCEPT ![mine[r]] = [request |-> @.request, values |-> r]],
         got' = got \/ got' = [got EXCEPT ![r] = @ \cup {ctx[mine[r]].values}]
  PROVE  MetadataInv'
<1>1. /\ Active(r) /\ UNCHANGED <<pool, mine, pc, sent>>
      /\ \A q \in Requests : Active(q)' <=> Active(q)
  BY DEF Call, Active
<1>2. mine[r] \in Contexts \ pool
  BY <1>1 DEF MetadataInv, ContextInv
<1> DEFINE Records == [request : Infos \cup {Nil}, values : Requests \cup {Nil}]
           Others == \A d \in Contexts : d # mine[r] => ctx'[d] = ctx[d]
           Own == /\ ctx'[mine[r]].values \in {r, Nil}
                  /\ ctx'[mine[r]].request \in Infos
<1>3. ctx' \in [Contexts -> Records] /\ Others /\ Own
  <2>1. /\ ctx[mine[r]] \in Records
        /\ ctx[mine[r]].values \in {r, Nil} /\ ctx[mine[r]].request \in Infos
    BY <1>1, <1>2 DEF MetadataInv, TypeOK, ContextInv
  <2>2. CASE ctx' = ctx
    BY <2>1, <2>2 DEF MetadataInv, TypeOK
  <2>3. ASSUME NEW request \in Infos,
               ctx' = WithRequest(mine[r], request)
        PROVE  ctx' \in [Contexts -> Records] /\ Others /\ Own
    BY <1>2, <2>1, <2>3 DEF MetadataInv, TypeOK, WithRequest
  <2>4. CASE ctx' = [ctx EXCEPT ![mine[r]] = [request |-> @.request, values |-> r]]
    BY <1>2, <2>1, <2>4 DEF MetadataInv, TypeOK
  <2> QED
    BY <2>2, <2>3, <2>4
<1>4. TypeOK'
  BY <1>1, <1>3 DEF MetadataInv, TypeOK
<1>5. ContextInv'
  BY <1>1, <1>2, <1>3 DEF MetadataInv, TypeOK, ContextInv
<1>6. RequestsIsolated'
  BY <1>1 DEF MetadataInv, TypeOK, ContextInv, RequestsIsolated
<1> QED
  BY <1>4, <1>5, <1>6 DEF MetadataInv

LEMMA CallsInv ==
  ASSUME MetadataInv, NEW r \in Requests,
         \/ AddMetadata(r)
         \/ Edit(r, "key", <<>>) \/ Edit(r, "content-type", <<Grpc("xml")>>)
         \/ \E m \in {Nil, Shared} : AssignMetadata(r, m)
         \/ AssignRequest(r) \/ Set(r) \/ Get(r)
  PROVE  MetadataInv'
<1>1. md = edited
  BY DEF MetadataInv, RequestsIsolated
<1>2. CASE AddMetadata(r)
  <2>1. PICK m, v : /\ Call(r) /\ UNCHANGED <<ctx, got>>
                    /\ md' = [md EXCEPT ![m] = v] /\ edited' = [edited EXCEPT ![m] = v]
    BY <1>1, <1>2 DEF AddMetadata
  <2> QED
    BY <1>1, <2>1, CallInv
<1>3. ASSUME NEW key, NEW values, Edit(r, key, values)
      PROVE  MetadataInv'
  <2>1. /\ Call(r) /\ UNCHANGED <<ctx, got>>
        /\ md' = [md EXCEPT ![Viewed(r)][key] = values]
        /\ edited' = [edited EXCEPT ![Viewed(r)][key] = values]
    BY <1>3 DEF Edit
  <2> QED
    BY <1>1, <2>1, CallInv
<1>4. CASE \E m \in {Nil, Shared} : AssignMetadata(r, m)
  <2>1. Call(r) /\ UNCHANGED <<md, ctx, edited, got>>
    BY <1>4 DEF AssignMetadata
  <2> QED
    BY <1>1, <2>1, CallInv
<1>5. CASE AssignRequest(r)
  <2>1. /\ Call(r) /\ UNCHANGED <<md, edited, got>>
        /\ ctx' = WithRequest(mine[r], <<r, "middleware">>)
        /\ <<r, "middleware">> \in Infos
    BY <1>5 DEF AssignRequest, Infos
  <2> QED
    BY <1>1, <2>1, CallInv
<1>6. CASE Set(r)
  BY <1>1, <1>6, CallInv DEF Set
<1>7. CASE Get(r)
  BY <1>1, <1>7, CallInv DEF Get
<1> QED
  BY <1>2, <1>3, <1>4, <1>5, <1>6, <1>7

LEMMA ForwardInv ==
  ASSUME MetadataInv, NEW r \in Requests, Forward(r)
  PROVE  MetadataInv'
<1>1. /\ pc[r] = "chain" /\ pc' = [pc EXCEPT ![r] = "forward"]
      /\ UNCHANGED <<md, pool, ctx, mine, edited, got>>
      /\ DOMAIN sent' = DOMAIN sent
  BY DEF Forward, Outgoing
<1>2. \A q \in Requests : Active(q)' <=> Active(q)
  BY <1>1 DEF MetadataInv, TypeOK, Active
<1> QED
  BY <1>1, <1>2 DEF MetadataInv, TypeOK, ContextInv, RequestsIsolated

LEMMA ReleaseInv ==
  ASSUME MetadataInv, NEW r \in Requests, ReleaseContext(r)
  PROVE  MetadataInv'
<1>1. /\ pc[r] = "forward" /\ pc' = [pc EXCEPT ![r] = "done"]
      /\ ctx' = [ctx EXCEPT ![mine[r]] = Blank] /\ pool' = pool \cup {mine[r]}
      /\ UNCHANGED <<md, mine, edited, got, sent>>
  BY DEF ReleaseContext, reset
<1>2. Active(r) /\ mine[r] \in Contexts \ pool
  BY <1>1 DEF MetadataInv, ContextInv, Active
<1>3. \A q \in Requests : Active(q)' => Active(q) /\ q # r /\ mine[q] # mine[r]
  BY <1>1, <1>2 DEF MetadataInv, TypeOK, ContextInv, Active
<1>4. TypeOK'
  BY <1>1, <1>2 DEF MetadataInv, TypeOK, Blank
<1>5. ContextInv'
  BY <1>1, <1>2, <1>3 DEF MetadataInv, TypeOK, ContextInv
<1> QED
  BY <1>1, <1>4, <1>5 DEF MetadataInv, RequestsIsolated

LEMMA NextInv == MetadataInv /\ [Next]_vars => MetadataInv'
<1>1. SUFFICES ASSUME MetadataInv, [Next]_vars PROVE MetadataInv'
  OBVIOUS
<1>2. CASE Next
  BY <1>1, <1>2, AcquireInv, CallsInv, ForwardInv, ReleaseInv DEF Next, Step
<1>3. CASE UNCHANGED vars
  BY <1>1, <1>3
  DEF vars, MetadataInv, TypeOK, ContextInv, RequestsIsolated, Active
<1> QED
  BY <1>1, <1>2, <1>3

-----------------------------------------------------------------------------
(* Forward changes no map, and a Context shows nobody another's values.    *)
THEOREM Isolation == Spec => []RequestsIsolated
<1>1. Spec => []MetadataInv
  BY InitInv, NextInv, PTL DEF Spec
<1>2. MetadataInv => RequestsIsolated
  BY DEF MetadataInv
<1> QED
  BY <1>1, <1>2, PTL

(* Only Forward takes a request from its chain to the backend.             *)
LEMMA LeavesByForward ==
  ASSUME MetadataInv, [Next]_vars, NEW r \in Requests, Leaves(r)
  PROVE  Forward(r)
<1>1. pc[r] = "chain" /\ pc'[r] = "forward"
  BY DEF Leaves
<1>2. PICK q \in Requests : Step(q)
  BY <1>1 DEF Next, vars
<1>3. Forward(q)
  BY <1>1, <1>2 DEF Step, AcquireContext, AddMetadata, Edit, AssignMetadata,
                    AssignRequest, Set, Get, Call, ReleaseContext, MetadataInv,
                    TypeOK
<1>4. q = r
  BY <1>1, <1>3 DEF Forward, MetadataInv, TypeOK
<1> QED
  BY <1>3, <1>4

LEMMA EditsAreSent ==
  ASSUME MetadataInv, NEW r \in Requests, Forward(r),
         ctx[mine[r]].request = <<r, "handler">>
  PROVE  Sends(r, Viewed(r))
<1>1. Viewed(r) = info[<<r, "handler">>] /\ md = edited
  BY DEF Viewed, MetadataInv, RequestsIsolated
<1>2. CASE Viewed(r) = Nil
  <2>1. sent'[r].md = EmptyMD
    BY <1>1, <1>2 DEF Forward, MetadataInv, TypeOK
  <2>2. EmptyMD = [EmptyMD EXCEPT !["grpc-accept-encoding"] = <<>>]
    BY DEF EmptyMD, Keys
  <2> QED
    BY <1>2, <2>1, <2>2 DEF Sends
<1>3. CASE Viewed(r) # Nil
  <2>1. sent'[r] = SentOf(Viewed(r))
    BY <1>1, <1>3 DEF Forward, MetadataInv, TypeOK
  <2>2. SentOf(Viewed(r)).md = [edited[Viewed(r)] EXCEPT !["grpc-accept-encoding"] = <<>>]
    BY <1>1 DEF SentOf
  <2> QED
    BY <1>3, <2>1, <2>2 DEF Sends
<1> QED
  BY <1>2, <1>3

(* Every edit of middleware on the handler's own Request reaches the       *)
(* backend, and nothing else does.                                         *)
THEOREM EditsReachBackend == Spec => SentAsEdited
<1>1. Spec => []MetadataInv
  BY InitInv, NextInv, PTL DEF Spec
<1>2. MetadataInv /\ [Next]_vars =>
        [\A r \in Requests :
           Leaves(r) /\ ctx[mine[r]].request = <<r, "handler">>
             => Sends(r, Viewed(r))]_vars
  BY LeavesByForward, EditsAreSent
<1> QED
  BY <1>1, <1>2, PTL DEF Spec, SentAsEdited

-----------------------------------------------------------------------------
(* Content-types.                                                          *)

Types == {Bare, Grpc("json"), Grpc("xml"), <<"application/grpc", ";", "x">>}

(* The maps, wherever a RequestInfo refers, hold at most one content-type. *)
WellTyped(map) ==
  /\ DOMAIN map = Keys
  /\ map["content-type"] \in {<<>>} \cup {<<t>> : t \in Types}

TypesInv ==
  /\ client \in [Requests -> ClientMetadata]
  /\ info \in [Infos -> Maps \cup {Nil}]
  /\ \A m \in Maps : WellTyped(md[m])
  /\ ContentTypeMirrored

(* The subtype that Forward asks for, put behind gRPC's own prefix, is the *)
(* content-type again; what is not one of gRPC's asks for none.            *)
LEMMA SubtypeOf ==
  ASSUME NEW t \in Types
  PROVE  LET subtype == contentSubtype(t)
             leg == IF subtype = NoSubtype THEN Bare ELSE Grpc(subtype)
         IN  leg = IF t \in {Bare, Grpc("json"), Grpc("xml")} THEN t ELSE Bare
<1>1. "json" # NoSubtype /\ "xml" # NoSubtype
  BY Zenon DEF NoSubtype
<1>2. ASSUME NEW s, s # NoSubtype, t = Grpc(s), t \in {Bare, Grpc("json"), Grpc("xml")}
      PROVE  contentSubtype(t) = s
  <2>1. Len(t) = 3 /\ t[1] = "application/grpc" /\ t[2] = "+" /\ t[3] = s
    BY <1>2 DEF Grpc
  <2> QED
    BY <2>1 DEF contentSubtype
<1>3. ASSUME t = Bare
      PROVE  contentSubtype(t) = NoSubtype
  <2>1. Len(t) = 1
    BY <1>3 DEF Bare
  <2> QED
    BY <2>1 DEF contentSubtype
<1>4. ASSUME t = <<"application/grpc", ";", "x">>
      PROVE  contentSubtype(t) = NoSubtype /\ t \notin {Grpc("json"), Grpc("xml")}
  <2>1. t[2] = ";" /\ \A s : Grpc(s)[2] = "+"
    BY <1>4 DEF Grpc
  <2>2. ";" # "+"
    OBVIOUS
  <2> QED
    BY <2>1, <2>2 DEF contentSubtype
<1> QED
  BY <1>1, <1>2, <1>3, <1>4 DEF Types

LEMMA ClientMapsWellTyped ==
  WellTyped(EmptyMD) /\ \A map \in ClientMetadata \ {Nil} : WellTyped(map)
<1>1. WellTyped(EmptyMD)
  BY DEF WellTyped, EmptyMD, Keys
<1>2. ASSUME NEW key, NEW accept, NEW type, type = <<>> \/ \E t \in Types : type = <<t>>
      PROVE  WellTyped(MD(key, accept, type))
  BY <1>2 DEF WellTyped, MD, Keys
<1>3. /\ Grpc("json") \in Types /\ Bare \in Types
      /\ <<"application/grpc", ";", "x">> \in Types
  BY DEF Types
<1>4. /\ WellTyped(MD(<<"v">>, <<"zstd">>, <<Grpc("json")>>))
      /\ WellTyped(MD(<<>>, <<"gzip">>, <<Bare>>))
      /\ WellTyped(MD(<<>>, <<>>, << <<"application/grpc", ";", "x">> >>))
  BY <1>2, <1>3
<1> QED
  BY <1>1, <1>4 DEF ClientMetadata

LEMMA TypesInit == Init => TypesInv
<1> SUFFICES ASSUME Init PROVE TypesInv
  OBVIOUS
<1>1. /\ client \in [Requests -> ClientMetadata]
      /\ md = [m \in Maps |-> EmptyMD]
      /\ info = [i \in Infos |-> Nil] /\ sent = [r \in Requests |-> Nil]
  BY DEF Init
<1> QED
  BY <1>1, ClientMapsWellTyped DEF TypesInv, ContentTypeMirrored

(* Steps that make, change or refer to maps.                               *)
LEMMA TypesCalls ==
  ASSUME MetadataInv, TypesInv, NEW r \in Requests,
         \/ \E c \in Contexts : AcquireContext(r, c)
         \/ AddMetadata(r)
         \/ Edit(r, "key", <<>>) \/ Edit(r, "content-type", <<Grpc("xml")>>)
         \/ \E m \in {Nil, Shared} : AssignMetadata(r, m)
         \/ AssignRequest(r) \/ Set(r) \/ Get(r)
  PROVE  TypesInv'
<1> DEFINE i == ctx[mine[r]].request
<1>1. UNCHANGED <<client, sent>>
  BY DEF AcquireContext, AddMetadata, Edit, AssignMetadata, AssignRequest, Set,
         Get, Call
<1>2. SUFFICES /\ info' \in [Infos -> Maps \cup {Nil}]
               /\ \A m \in Maps : WellTyped(md'[m])
  BY <1>1 DEF TypesInv, ContentTypeMirrored
<1>3. DOMAIN md = Maps /\ info \in [Infos -> Maps \cup {Nil}]
  BY DEF MetadataInv, TypeOK, TypesInv
<1>4. Shared \in Maps /\ Infos \subseteq Maps
  BY DEF Maps
<1>5. ASSUME Call(r)
      PROVE  i \in Infos /\ Viewed(r) \in Maps \cup {Nil}
  BY <1>3, <1>5 DEF Call, Active, Viewed, MetadataInv, ContextInv
<1>6. ASSUME NEW c \in Contexts, AcquireContext(r, c)
      PROVE  /\ info' \in [Infos -> Maps \cup {Nil}]
             /\ \A m \in Maps : WellTyped(md'[m])
  <2> DEFINE own == <<r, "copied">>
             map == IF client[r] = Nil THEN EmptyMD ELSE client[r]
  <2>1. own \in Maps
    BY DEF Maps
  <2>2. /\ md' = [md EXCEPT ![own] = map]
        /\ info' = [info EXCEPT ![<<r, "handler">>] = own]
    BY <1>6 DEF AcquireContext
  <2>3. WellTyped(map)
    BY ClientMapsWellTyped DEF TypesInv
  <2> HIDE DEF map, own
  <2> QED
    BY <1>3, <2>1, <2>2, <2>3 DEF TypesInv
<1>7. CASE AddMetadata(r)
  <2> DEFINE m == IF Viewed(r) = Nil THEN i ELSE Viewed(r)
             map == [(IF Viewed(r) = Nil THEN EmptyMD ELSE md[m])
                       EXCEPT !["key"] = Append(@, "w")]
  <2>1. m \in Maps
    BY <1>4, <1>5, <1>7 DEF AddMetadata
  <2>2. md' = [md EXCEPT ![m] = map] /\ info' = [info EXCEPT ![i] = m]
    BY <1>7 DEF AddMetadata
  <2>3. WellTyped(map)
    <3> DEFINE old == IF Viewed(r) = Nil THEN EmptyMD ELSE md[m]
    <3>1. WellTyped(old)
      BY <2>1, ClientMapsWellTyped DEF TypesInv
    <3> HIDE DEF old
    <3>2. WellTyped([old EXCEPT !["key"] = Append(@, "w")])
      BY <3>1 DEF WellTyped, Keys
    <3> QED
      BY <3>2 DEF old
  <2> HIDE DEF map, m
  <2> QED
    BY <1>3, <1>5, <1>7, <2>1, <2>2, <2>3 DEF TypesInv, AddMetadata
<1>8. ASSUME NEW key \in Keys, NEW values, Edit(r, key, values),
             key = "content-type" => \E t \in Types : values = <<t>>
      PROVE  /\ info' \in [Infos -> Maps \cup {Nil}]
             /\ \A m \in Maps : WellTyped(md'[m])
  <2> DEFINE map == [md[Viewed(r)] EXCEPT ![key] = values]
  <2>1. Viewed(r) \in Maps /\ md' = [md EXCEPT ![Viewed(r)] = map] /\ info' = info
    BY <1>3, <1>5, <1>8 DEF Edit
  <2>2. WellTyped(map)
    BY <1>8, <2>1 DEF TypesInv, WellTyped, Keys
  <2> HIDE DEF map
  <2> QED
    BY <1>3, <2>1, <2>2 DEF TypesInv
<1>9. CASE \E m \in {Nil, Shared} : AssignMetadata(r, m)
  BY <1>3, <1>4, <1>5, <1>9 DEF AssignMetadata, TypesInv
<1>10. CASE AssignRequest(r) \/ Set(r) \/ Get(r)
  BY <1>3, <1>10 DEF AssignRequest, Set, Get, TypesInv
<1>11. "key" \in Keys /\ "content-type" \in Keys /\ "key" # "content-type"
  BY DEF Keys
<1>12. Grpc("xml") \in Types
  BY DEF Types
<1> QED
  BY <1>6, <1>7, <1>8, <1>9, <1>10, <1>11, <1>12

(* What Forward tells the backend leg.                                     *)
LEMMA TypesForward ==
  ASSUME MetadataInv, TypesInv, NEW r \in Requests, Forward(r)
  PROVE  TypesInv'
<1> DEFINE m == info[<<r, "handler">>]
           outgoing == IF m = Nil THEN [md |-> EmptyMD, subtype |-> NoSubtype]
                       ELSE SentOf(m)
           type == outgoing.md["content-type"]
           leg == IF outgoing.subtype = NoSubtype THEN Bare ELSE Grpc(outgoing.subtype)
<1>1. /\ UNCHANGED <<client, info, md>>
      /\ sent' = [sent EXCEPT ![r] = outgoing]
  BY DEF Forward, Outgoing
<1>2. m \in Maps \cup {Nil}
  BY DEF TypesInv, Infos
<1>3. leg = IF type # <<>> /\ type[1] \in {Bare, Grpc("json"), Grpc("xml")}
            THEN type[1] ELSE Bare
  <2>1. CASE m = Nil
    <3>1. type = <<>> /\ outgoing.subtype = NoSubtype
      BY <2>1 DEF EmptyMD, Keys
    <3> QED
      BY <3>1
  <2>2. CASE m # Nil
    <3> DEFINE t == md[m]["content-type"]
    <3>1. WellTyped(md[m])
      BY <1>2, <2>2 DEF TypesInv
    <3>2. /\ type = t
          /\ outgoing.subtype = IF t = <<>> THEN NoSubtype ELSE contentSubtype(t[1])
      BY <2>2, <3>1 DEF SentOf, WellTyped, Keys
    <3>3. t = <<>> \/ \E u \in Types : t = <<u>>
      BY <3>1 DEF WellTyped
    <3> HIDE DEF outgoing, t
    <3>4. CASE t = <<>>
      BY <3>2, <3>4
    <3>5. ASSUME NEW u \in Types, t = <<u>>
          PROVE  leg = IF type # <<>> /\ type[1] \in {Bare, Grpc("json"), Grpc("xml")}
                       THEN type[1] ELSE Bare
      <4>1. t # <<>> /\ t[1] = u
        BY <3>5
      <4> QED
        BY <3>2, <4>1, SubtypeOf
    <3> QED
      BY <3>3, <3>4, <3>5
  <2> QED
    BY <2>1, <2>2
<1> HIDE DEF outgoing
<1>4. ContentTypeMirrored'
  <2>1. DOMAIN sent = Requests
    BY DEF MetadataInv, TypeOK
  <2> QED
    BY <1>1, <1>3, <2>1 DEF ContentTypeMirrored, TypesInv
<1> QED
  BY <1>1, <1>4 DEF TypesInv

LEMMA TypesNext == MetadataInv /\ TypesInv /\ [Next]_vars => TypesInv'
<1> SUFFICES ASSUME MetadataInv, TypesInv, [Next]_vars PROVE TypesInv'
  OBVIOUS
<1>1. ASSUME NEW r \in Requests, ReleaseContext(r)
      PROVE  TypesInv'
  BY <1>1 DEF ReleaseContext, TypesInv, ContentTypeMirrored
<1>2. CASE UNCHANGED vars
  BY <1>2 DEF vars, TypesInv, ContentTypeMirrored
<1> QED
  BY <1>1, <1>2, TypesCalls, TypesForward DEF Next, Step

(* The backend leg of every request has the content-type of its metadata,  *)
(* through all edits and exchanges of maps.                                *)
THEOREM MirrorCorrect == Spec => []ContentTypeMirrored
<1>1. Spec => []MetadataInv
  BY InitInv, NextInv, PTL DEF Spec
<1>2. Spec => []TypesInv
  BY <1>1, TypesInit, TypesNext, PTL DEF Spec
<1>3. TypesInv => ContentTypeMirrored
  BY DEF TypesInv
<1> QED
  BY <1>2, <1>3, PTL
=============================================================================

---------------------------- MODULE GrpcatCommand ----------------------------
(***************************************************************************)
(* From the flags to a forwarded request: the grpcat command               *)
(* (cmd/grpcat/main.go), the server and the connections it builds from a   *)
(* proxy.Config (proxy/server.go, cache.go), the route middleware, and the *)
(* path of a request (parser/grpc.go).                                     *)
(*                                                                         *)
(* The server may also be built by a program that embeds the package, with *)
(* any Config.                                                             *)
(*                                                                         *)
(* A text is the sequence of its pieces between the separator it is cut    *)
(* at, blanks around it trimmed: "=" in a -route value, "/" in a path.     *)
(* Requests change nothing that another request reads (the pool is         *)
(* ConnectionCache's), so one request stands for each of them.             *)
(***************************************************************************)
EXTENDS Integers, SequencesExt

CONSTANTS
  Names,       (* Names of services and methods.                           *)
  Addresses,   (* Addresses of backends.                                   *)
  Limits,      (* Message size limits that may be given.                   *)
  Unlimited,   (* math.MaxInt32.                                           *)
  MaxRoutes,   (* Bounds the -route flags.                                 *)
  None

(* An empty text: a flag that was not given, a name that is missing.       *)
Empty == ""

ASSUME CommandAssumption ==
  /\ Empty \notin Names \cup Addresses /\ Limits \subseteq Nat
  /\ Unlimited \in Nat /\ \A n \in Limits : n < Unlimited
  /\ MaxRoutes \in Nat

VARIABLES
  phase,    (* "flags", "config", "routes", "serving", "exited".           *)
  flags,    (* The flags, but for -route.                                  *)
  config,   (* The proxy.Config.                                           *)
  given,    (* The -route values so far.                                   *)
  routes,   (* RouteMiddleware.routes: pairs, at most one per service.     *)
  server,   (* What gRPC made of the server options.                       *)
  request   (* The request: its path, whether that was accepted, the       *)
            (* backend, and what gRPC made of the dial options.            *)

vars == <<phase, flags, config, given, routes, server, request>>


(* gRPC's options are setters, applied in order.                           *)
Option(kind, value) == [kind |-> kind, value |-> value]
Sizes(recv, send) == <<Option("recv", recv), Option("send", send)>>
Effective(opts, kind, default) ==
  LET after[i \in 0..Len(opts)] ==
        IF i = 0 THEN default
        ELSE IF opts[i].kind = kind THEN opts[i].value ELSE after[i - 1]
  IN  after[Len(opts)]

(* What a flag or a field of the Config may say: neither need be positive.*)
AnySize == Limits \cup {-1, 0}

(* What user options may contain.                                          *)
UserOptions ==
  {<<>>} \cup {<<Option("recv", n)>> : n \in Limits}
         \cup {<<Option("send", n)>> : n \in Limits}
         \cup {<<Option("creds", "user")>>}

Init ==
  /\ phase = "flags"
  /\ flags \in [backend : Addresses \cup {Empty}, cert : BOOLEAN, key : BOOLEAN,
                backendTLS : BOOLEAN, backendCA : BOOLEAN,
                recv : AnySize, send : AnySize]
  /\ config = None /\ given = <<>> /\ routes = {}
  /\ server = None /\ request = None

-----------------------------------------------------------------------------
(* Mutant: a CA without -backend-tls is ignored.                           *)
AcceptedCAIgnored == flags.backend # Empty /\ flags.cert = flags.key

(* What main and buildProxyConfig require of the flags.                    *)
Accepted ==
  /\ flags.backend # Empty
  /\ flags.cert = flags.key
  /\ flags.backendCA => flags.backendTLS

(* The Config of accepted flags whose certificates load.                   *)
Configured ==
  [DefaultBackend        |-> flags.backend,
   MaxRecvMsgSize        |-> flags.recv,
   MaxSendMsgSize        |-> flags.send,
   ServerOptions         |-> IF flags.cert THEN <<Option("creds", "cert")>>
                             ELSE <<>>,
   BackendTransportCreds |-> IF ~flags.backendTLS THEN None
                             ELSE IF flags.backendCA THEN "ca"
                             ELSE "system roots",
   BackendDialOptions    |-> <<>>]

BuildConfig ==
  /\ phase = "flags" /\ Accepted
  /\ config' = Configured /\ phase' = "config"
  /\ UNCHANGED <<flags, given, routes, server, request>>

(* log.Fatalf, for the flags or for a certificate that does not load.      *)
FlagsRefused ==
  /\ phase = "flags"
  /\ Accepted => flags.cert \/ flags.backendCA
  /\ phase' = "exited"
  /\ UNCHANGED <<flags, config, given, routes, server, request>>

(* Any Config an embedding program may pass.                               *)
Embed ==
  /\ phase = "flags" /\ flags' = None
  /\ config' \in [DefaultBackend : Addresses \cup {Empty},
                  MaxRecvMsgSize : AnySize, MaxSendMsgSize : AnySize,
                  ServerOptions : UserOptions,
                  BackendTransportCreds : {None, "user"},
                  BackendDialOptions : UserOptions]
  /\ phase' = "config"
  /\ UNCHANGED <<given, routes, server, request>>

resolveMsgSize(n) == IF n <= 0 THEN Unlimited ELSE n

ConfigSizes == Sizes(resolveMsgSize(config.MaxRecvMsgSize),
                     resolveMsgSize(config.MaxSendMsgSize))

(* Mutant: the user's options come first.                                  *)
ServerOptionsFirst == config.ServerOptions \o ConfigSizes

ServerOptions == ConfigSizes \o config.ServerOptions

NewServer ==
  /\ phase = "config"
  /\ IF config.DefaultBackend = Empty THEN phase' = "exited" /\ UNCHANGED server
     ELSE /\ phase' = "routes"
          /\ server' = [creds |-> Effective(ServerOptions, "creds", None),
                        recv  |-> Effective(ServerOptions, "recv", 4),
                        send  |-> Effective(ServerOptions, "send", Unlimited)]
  /\ UNCHANGED <<flags, config, given, routes, request>>

-----------------------------------------------------------------------------
(* Routes.                                                                 *)

RouteValues ==
  {<<x>> : x \in Names} \cup
  {<<x, y>> : x \in Names \cup {Empty}, y \in Addresses \cup {Empty}} \cup
  {<<x, y, z>> : x \in Names, y \in Addresses \cup {Empty},
                 z \in Addresses \cup {Empty}}

(* Mutant: an empty backend is accepted.                                   *)
parseRouteEmpty(r) ==
  [ok |-> Len(r) >= 2 /\ Head(r) # Empty, service |-> Head(r), backend |-> Tail(r)]

(* Cut at the first "="; the rest keeps its own.                           *)
parseRoute(r) ==
  [ok      |-> Len(r) >= 2 /\ Head(r) # Empty /\ Tail(r) # <<Empty>>,
   service |-> Head(r),
   backend |-> Tail(r)]

(* Mutant: the first route of a service stays.                             *)
AddRouteFirst(service, backend) ==
  routes \cup {p \in {<<service, backend>>} : \A q \in routes : q[1] # service}

AddRoute(service, backend) ==
  {p \in routes : p[1] # service} \cup {<<service, backend>>}

RegisterRoute(r) ==
  /\ phase = "routes" /\ flags # None /\ Len(given) < MaxRoutes
  /\ given' = Append(given, r)
  /\ IF parseRoute(r).ok
     THEN /\ routes' = AddRoute(parseRoute(r).service, parseRoute(r).backend)
          /\ UNCHANGED phase
     ELSE phase' = "exited" /\ UNCHANGED routes
  /\ UNCHANGED <<flags, config, server, request>>

Start ==
  /\ phase = "routes" /\ phase' = "serving"
  /\ UNCHANGED <<flags, config, given, routes, server, request>>

-----------------------------------------------------------------------------
(* Requests.                                                               *)

Paths == UNION {[1..n -> Names \cup {Empty}] : n \in 1..4}

TrimSlash(path) == IF Len(path) > 1 /\ Head(path) = Empty THEN Tail(path) ELSE path

(* Mutant: the method is whatever follows the first slash.                 *)
ParseGRPCPathLoose(path) ==
  LET p == TrimSlash(path)
  IN  [ok |-> Len(p) >= 2 /\ Head(p) # Empty /\ Tail(p) # <<Empty>>,
       service |-> Head(p), method |-> p[Len(p)]]

ParseGRPCPath(path) ==
  LET p == TrimSlash(path)
  IN  [ok      |-> Len(p) = 2 /\ p[1] # Empty /\ p[2] # Empty,
       service |-> Head(p),
       method  |-> p[Len(p)]]

FormatGRPCPath(service, method) == <<Empty, service, method>>

(* What the route middleware leaves in the Context.                        *)
Handle(service) ==
  IF \E p \in routes : p[1] = service
  THEN (CHOOSE p \in routes : p[1] = service)[2] ELSE <<Empty>>

DialOptions ==
  ConfigSizes \o <<Option("creds", config.BackendTransportCreds)>>
    \o config.BackendDialOptions

Dialed == [creds |-> Effective(DialOptions, "creds", None),
           recv  |-> Effective(DialOptions, "recv", 4),
           send  |-> Effective(DialOptions, "send", Unlimited)]

(* The handler up to the dialed connection. An address is the text that a  *)
(* route or -backend gave.                                                 *)
Request(path) ==
  LET parsed  == ParseGRPCPath(path)
      chosen  == Handle(parsed.service)
      backend == IF chosen = <<Empty>> THEN <<config.DefaultBackend>> ELSE chosen
  IN  /\ phase = "serving" /\ request = None
      /\ request' = [path    |-> path,
                     ok      |-> parsed.ok,
                     backend |-> IF parsed.ok THEN backend ELSE <<>>,
                     conn    |-> IF parsed.ok THEN Dialed ELSE None]
      /\ UNCHANGED <<phase, flags, config, given, routes, server>>

Next ==
  \/ BuildConfig \/ FlagsRefused \/ Embed \/ NewServer \/ Start
  \/ \E r \in RouteValues : RegisterRoute(r)
  \/ \E path \in Paths : Request(path)

Spec == Init /\ [][Next]_vars

-----------------------------------------------------------------------------
(* A mistyped TLS flag never means plaintext: with any TLS flag of a side  *)
(* given, the process serves, or dials, with the credentials named.        *)
NeverPlaintext ==
  phase = "serving" /\ flags # None =>
    /\ flags.cert \/ flags.key => server.creds = "cert"
    /\ request # None /\ request.ok =>
         request.conn.creds = IF flags.backendCA THEN "ca"
                              ELSE IF flags.backendTLS THEN "system roots"
                              ELSE None

(* A request is served exactly if its path is, but for the leading slash,  *)
(* what FormatGRPCPath makes of some service and method. It goes where the *)
(* last -route flag of its service says, and to -backend if there is none, *)
(* but never to an empty address.                                          *)
RoutedAsGiven ==
  request # None =>
    /\ request.ok <=> \E s \in Names, m \in Names :
                       FormatGRPCPath(s, m) \in {request.path, <<Empty>> \o request.path}
    /\ request.ok =>
         LET mine == {i \in DOMAIN given :
                        \E m \in Names : request.path \in {<<Empty, Head(given[i]), m>>,
                                                           <<Head(given[i]), m>>}}
         IN  /\ request.backend = IF mine = {} THEN <<config.DefaultBackend>>
                                  ELSE Tail(given[Max(mine)])
             /\ request.backend # <<Empty>>

(* On both legs an option of the user wins over the Config's limit, and    *)
(* zero means no limit, never gRPC's own default.                          *)
LimitsHold ==
  LET Wanted(opts, kind, n) ==
        LET own == {i \in DOMAIN opts : opts[i].kind = kind}
        IN  IF own # {} THEN opts[Max(own)].value
            ELSE IF n > 0 THEN n ELSE Unlimited
      Holds(leg, opts) ==
        /\ leg.recv = Wanted(opts, "recv", config.MaxRecvMsgSize)
        /\ leg.send = Wanted(opts, "send", config.MaxSendMsgSize)
  IN  /\ server # None => Holds(server, config.ServerOptions)
      /\ request # None /\ request.ok =>
           Holds(request.conn, config.BackendDialOptions)
=============================================================================

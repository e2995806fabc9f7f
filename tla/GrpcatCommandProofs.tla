------------------------- MODULE GrpcatCommandProofs -------------------------
(***************************************************************************)
(* NeverPlaintext, RoutedAsGiven and LimitsHold for every set of names,    *)
(* addresses and limits, and for any number of -route flags.               *)
(*                                                                         *)
(* Options are applied by a recursive function; the first part shows by    *)
(* induction on their number that the last option of a kind decides.       *)
(***************************************************************************)
EXTENDS GrpcatCommand, SequenceTheorems, WellFoundedInduction, TLAPS

-----------------------------------------------------------------------------
(* Natural numbers.                                                        *)

LEMMA LeastNumber ==
  ASSUME NEW T \in SUBSET Nat, T # {}
  PROVE  \E n \in T : \A m \in T : n <= m
<1> DEFINE Less == OpToRel(<, Nat)
<1>1. PICK n \in T : \A m \in T : ~(<<m, n>> \in Less)
  <2>1. IsWellFoundedOn(Less, Nat)
    BY NatLessThanWellFounded
  <2> HIDE DEF Less
  <2> QED
    BY <2>1, WFMin
<1>2. \A m \in T : ~(m < n)
  BY <1>1 DEF OpToRel
<1> QED
  BY <1>2

LEMMA MaxOfIndices ==
  ASSUME NEW n \in Nat, NEW S \in SUBSET (1..n), S # {}
  PROVE  Max(S) \in S /\ \A i \in S : i <= Max(S)
<1> DEFINE T == {n - i : i \in S}
<1>1. T \in SUBSET Nat /\ T # {}
  <2>1. PICK i \in S : n - i \in T
    OBVIOUS
  <2>2. \A j \in S : n - j \in Nat
    OBVIOUS
  <2> QED
    BY <2>1, <2>2
<1>2. PICK d \in T : \A e \in T : d <= e
  <2> HIDE DEF T
  <2> QED
    BY <1>1, LeastNumber
<1>3. PICK j \in S : d = n - j
  BY <1>2
<1>4. \A i \in S : j >= i
  BY <1>2, <1>3
<1> QED
  BY <1>3, <1>4 DEF Max

-----------------------------------------------------------------------------
(* Options.                                                                *)

(* The options of a kind, by their place.                                  *)
Of(opts, kind) == {i \in DOMAIN opts : opts[i].kind = kind}

LastOf(opts, kind, default) ==
  IF Of(opts, kind) = {} THEN default ELSE opts[Max(Of(opts, kind))].value

(* Setters applied in order leave what the last one of the kind sets.      *)
LEMMA LastSetterWins ==
  ASSUME NEW S, NEW opts \in Seq(S), NEW kind, NEW default
  PROVE  Effective(opts, kind, default) = LastOf(opts, kind, default)
<1> DEFINE n == Len(opts)
           Upto(i) == {j \in 1..i : opts[j].kind = kind}
           Value(i) == IF Upto(i) = {} THEN default ELSE opts[Max(Upto(i))].value
           Step(f) == [i \in 0..n |->
                         IF i = 0 THEN default
                         ELSE IF opts[i].kind = kind THEN opts[i].value
                         ELSE f[i - 1]]
           last == [i \in 0..n |-> Value(i)]
           after == CHOOSE f : f = Step(f)
<1>1. n \in Nat /\ DOMAIN opts = 1..n
  OBVIOUS
<1>2. Value(0) = default
  OBVIOUS
<1>3. ASSUME NEW i \in 1..n
      PROVE  Value(i) = IF opts[i].kind = kind THEN opts[i].value ELSE Value(i - 1)
  <2>1. CASE opts[i].kind = kind
    <3>1. i \in Upto(i) /\ Upto(i) \in SUBSET (1..i) /\ i \in Nat
      BY <2>1
    <3>2. Max(Upto(i)) \in Upto(i) /\ Max(Upto(i)) >= i
      <4> HIDE DEF Upto
      <4> QED
        BY <3>1, MaxOfIndices
    <3>3. Max(Upto(i)) = i
      BY <3>2
    <3> QED
      BY <2>1, <3>1, <3>3
  <2>2. CASE opts[i].kind # kind
    <3>1. Upto(i) = Upto(i - 1)
      BY <2>2
    <3> QED
      BY <2>2, <3>1
  <2> QED
    BY <2>1, <2>2
<1>4. last = Step(last)
  <2> HIDE DEF Value
  <2> QED
    BY <1>1, <1>2, <1>3
<1>5. after = Step(after)
  <2> HIDE DEF Step, last
  <2> QED
    BY <1>4
<1>6. \A i \in 0..n : after[i] = Value(i)
  <2> DEFINE Wrong == {i \in 0..n : after[i] # Value(i)}
  <2> SUFFICES ASSUME Wrong # {} PROVE FALSE
    OBVIOUS
  <2>1. PICK i \in Wrong : \A j \in Wrong : i <= j
    <3>1. Wrong \in SUBSET Nat
      OBVIOUS
    <3> HIDE DEF Wrong
    <3> QED
      BY <3>1, LeastNumber
  <2>2. after[i] = IF i = 0 THEN default
                   ELSE IF opts[i].kind = kind THEN opts[i].value
                   ELSE after[i - 1]
    <3> HIDE DEF after
    <3> QED
      BY <1>5
  <2> HIDE DEF after, Value
  <2>3. i # 0
    BY <1>2, <2>2
  <2>4. i - 1 \in 0..n /\ i - 1 \notin Wrong
    BY <2>1, <2>3, <1>1
  <2> QED
    BY <1>1, <1>3, <2>1, <2>2, <2>3, <2>4
<1>7. Effective(opts, kind, default) = after[n]
  BY DEF Effective
<1>8. Upto(n) = Of(opts, kind)
  BY <1>1 DEF Of
<1>9. Value(n) = LastOf(opts, kind, default)
  <2> HIDE DEF Upto
  <2> QED
    BY <1>8 DEF LastOf
<1> HIDE DEF after, Value
<1> QED
  BY <1>1, <1>6, <1>7, <1>9

(* Later options win over earlier ones, whatever these are.                *)
LEMMA LastOfConcatenation ==
  ASSUME NEW S, NEW s \in Seq(S), NEW t \in Seq(S), NEW kind, NEW default
  PROVE  LastOf(s \o t, kind, default) = LastOf(t, kind, LastOf(s, kind, default))
<1> DEFINE st == s \o t
<1>1. /\ st \in Seq(S) /\ Len(st) = Len(s) + Len(t)
      /\ \A i \in 1..Len(s) : st[i] = s[i]
      /\ \A i \in 1..Len(t) : st[Len(s) + i] = t[i]
  OBVIOUS
<1>2. /\ DOMAIN s = 1..Len(s) /\ DOMAIN t = 1..Len(t) /\ DOMAIN st = 1..Len(st)
      /\ Len(s) \in Nat /\ Len(t) \in Nat
  BY <1>1
<1> HIDE DEF st
<1>3. CASE Of(t, kind) = {}
  <2>1. \A i \in DOMAIN st : st[i].kind = kind => i \in DOMAIN s
    <3> SUFFICES ASSUME NEW i \in DOMAIN st, i \notin DOMAIN s
                 PROVE  st[i].kind # kind
      OBVIOUS
    <3>1. i - Len(s) \in 1..Len(t) /\ st[i] = t[i - Len(s)]
      BY <1>1, <1>2
    <3> QED
      BY <1>2, <1>3, <3>1 DEF Of
  <2>2. Of(st, kind) = Of(s, kind)
    BY <1>1, <1>2, <2>1 DEF Of
  <2>3. CASE Of(s, kind) = {}
    BY <1>3, <2>2, <2>3 DEF LastOf, st
  <2>4. CASE Of(s, kind) # {}
    <3>1. Max(Of(s, kind)) \in DOMAIN s
      BY <1>2, <2>4, MaxOfIndices DEF Of
    <3> QED
      BY <1>1, <1>2, <1>3, <2>2, <2>4, <3>1 DEF LastOf, st
  <2> QED
    BY <2>3, <2>4
<1>4. CASE Of(t, kind) # {}
  <2> DEFINE last == Max(Of(t, kind))
             all  == Of(st, kind)
  <2>1. last \in Of(t, kind) /\ \A i \in Of(t, kind) : i <= last
    BY <1>2, <1>4, MaxOfIndices DEF Of
  <2>2. last \in 1..Len(t) /\ Len(s) + last \in all
    BY <1>1, <1>2, <2>1 DEF Of
  <2>3. Max(all) \in all /\ Max(all) >= Len(s) + last /\ Max(all) \in 1..Len(st)
    <3>1. all \in SUBSET (1..Len(st)) /\ all # {} /\ Len(st) \in Nat
      BY <1>1, <1>2, <2>2 DEF Of
    <3> HIDE DEF all
    <3> QED
      BY <2>2, <3>1, MaxOfIndices
  <2>4. Max(all) - Len(s) \in Of(t, kind)
    <3>1. Max(all) - Len(s) \in 1..Len(t) /\ st[Max(all)] = t[Max(all) - Len(s)]
      BY <1>1, <1>2, <2>2, <2>3
    <3> QED
      BY <1>2, <2>3, <3>1 DEF Of
  <2>5. Max(all) = Len(s) + last
    BY <1>2, <2>1, <2>2, <2>3, <2>4
  <2> HIDE DEF last
  <2>6. st[Max(all)] = t[last]
    BY <1>1, <2>2, <2>5
  <2> QED
    BY <1>4, <2>2, <2>6 DEF LastOf, st, last
<1> QED
  BY <1>3, <1>4

-----------------------------------------------------------------------------
(* The invariant.                                                          *)

FlagSet == [backend : Addresses \cup {Empty}, cert : BOOLEAN, key : BOOLEAN,
            backendTLS : BOOLEAN, backendCA : BOOLEAN,
            recv : AnySize, send : AnySize]

Configs == [DefaultBackend : Addresses \cup {Empty},
            MaxRecvMsgSize : AnySize, MaxSendMsgSize : AnySize,
            ServerOptions : UserOptions \cup {<<Option("creds", "cert")>>},
            BackendTransportCreds : {None, "user", "ca", "system roots"},
            BackendDialOptions : UserOptions]

Configuring == {"config", "routes", "serving"}

ConfigInv ==
  /\ phase = "flags" => flags \in FlagSet
  /\ phase \in Configuring => config \in Configs
  /\ phase \in Configuring /\ flags # None =>
       flags \in FlagSet /\ Accepted /\ config = Configured

(* The server has what gRPC makes of the options, also in a process that   *)
(* a bad route has ended.                                                  *)
Built == [creds |-> Effective(ServerOptions, "creds", None),
          recv  |-> Effective(ServerOptions, "recv", 4),
          send  |-> Effective(ServerOptions, "send", Unlimited)]

ServerInv ==
  /\ phase \in {"flags", "config"} => server = None
  /\ phase \in {"routes", "serving"} =>
       server = Built /\ config.DefaultBackend # Empty
  /\ server # None => server = Built /\ config \in Configs

(* The -route flags that no later one of the same service replaces.        *)
Latest ==
  {i \in DOMAIN given :
     \A j \in DOMAIN given : Head(given[j]) = Head(given[i]) => j <= i}

RouteInv ==
  /\ phase \in {"flags", "config"} => given = <<>> /\ routes = {}
  /\ phase \in {"routes", "serving"} =>
       /\ given \in Seq(RouteValues)
       /\ \A i \in DOMAIN given : parseRoute(given[i]).ok
       /\ routes = {<<Head(given[i]), Tail(given[i])>> : i \in Latest}

(* What Request makes of a path.                                           *)
Answer(path) ==
  LET parsed == ParseGRPCPath(path)
      chosen == Handle(parsed.service)
      backend == IF chosen = <<Empty>> THEN <<config.DefaultBackend>> ELSE chosen
  IN  [path    |-> path,
       ok      |-> parsed.ok,
       backend |-> IF parsed.ok THEN backend ELSE <<>>,
       conn    |-> IF parsed.ok THEN Dialed ELSE None]

RequestInv ==
  request # None =>
    phase = "serving" /\ \E path \in Paths : request = Answer(path)

Inv == ConfigInv /\ ServerInv /\ RouteInv /\ RequestInv

-----------------------------------------------------------------------------
(* What the options of a Config come to.                                   *)

Settings ==
  [kind  : {"recv", "send", "creds"},
   value : Int \cup {"cert", "ca", "system roots", "user", None}]

LEMMA LastOfOne ==
  ASSUME NEW option \in Settings, NEW kind, NEW default
  PROVE  LastOf(<<option>>, kind, default) =
           IF option.kind = kind THEN option.value ELSE default
<1> DEFINE opts == <<option>>
<1>1. DOMAIN opts = {1} /\ opts[1] = option
  OBVIOUS
<1> HIDE DEF opts
<1>2. CASE option.kind = kind
  <2>1. Of(opts, kind) = {1}
    BY <1>1, <1>2 DEF Of
  <2>2. Max({1}) = 1
    BY MaxOfIndices
  <2> QED
    BY <1>1, <1>2, <2>1, <2>2 DEF LastOf, opts
<1>3. CASE option.kind # kind
  <2>1. Of(opts, kind) = {}
    BY <1>1, <1>3 DEF Of
  <2> QED
    BY <1>3, <2>1 DEF LastOf, opts
<1> QED
  BY <1>2, <1>3

LEMMA LimitsAreNumbers == Limits \subseteq Int /\ AnySize \subseteq Int /\ Unlimited \in Int
<1>1. Limits \subseteq Nat /\ Unlimited \in Nat
  BY CommandAssumption DEF CommandAssumption
<1> QED
  BY <1>1 DEF AnySize

LEMMA UserOptionsAreSettings == UserOptions \subseteq Seq(Settings)
<1>1. \A n \in Limits : Option("recv", n) \in Settings /\ Option("send", n) \in Settings
  BY LimitsAreNumbers DEF Settings, Option
<1>2. Option("creds", "user") \in Settings
  BY DEF Settings, Option
<1>3. <<>> \in Seq(Settings) /\ \A o \in Settings : <<o>> \in Seq(Settings)
  OBVIOUS
<1>4. ASSUME NEW opts \in UserOptions
      PROVE  opts \in Seq(Settings)
  <2>1. \/ opts = <<>>
        \/ \E o \in Settings : opts = <<o>>
    BY <1>1, <1>2 DEF UserOptions
  <2> QED
    BY <2>1, <1>3
<1> QED
  BY <1>4

(* The limits of the Config stand unless an option of the user follows.    *)
LEMMA AfterSizes ==
  ASSUME NEW m \in Int, NEW n \in Int, NEW opts \in Seq(Settings), NEW default
  PROVE  LET all == Sizes(m, n) \o opts
         IN  /\ Sizes(m, n) \in Seq(Settings) /\ all \in Seq(Settings)
             /\ LastOf(all, "recv", default) = LastOf(opts, "recv", m)
             /\ LastOf(all, "send", default) = LastOf(opts, "send", n)
             /\ LastOf(all, "creds", default) = LastOf(opts, "creds", default)
<1> DEFINE recv == Option("recv", m)
           send == Option("send", n)
           first == <<recv>>
           second == <<send>>
<1>1. recv \in Settings /\ send \in Settings
  BY DEF Settings, Option
<1>2. /\ recv.kind = "recv" /\ recv.value = m
      /\ send.kind = "send" /\ send.value = n
  BY DEF Option
<1>3. Sizes(m, n) = first \o second
  BY DEF Sizes
<1> HIDE DEF recv, send
<1>4. first \in Seq(Settings) /\ second \in Seq(Settings)
  BY <1>1
<1>5. \A kind, d : LastOf(second, kind, d) = IF kind = "send" THEN n ELSE d
  BY <1>1, <1>2, LastOfOne
<1>6. \A kind, d : LastOf(first, kind, d) = IF kind = "recv" THEN m ELSE d
  BY <1>1, <1>2, LastOfOne
<1> HIDE DEF first, second
<1>7. Sizes(m, n) \in Seq(Settings) /\ Sizes(m, n) \o opts \in Seq(Settings)
  BY <1>3, <1>4
<1>8. ASSUME NEW kind, NEW d
      PROVE  LastOf(Sizes(m, n), kind, d) =
               LastOf(second, kind, LastOf(first, kind, d))
  BY <1>3, <1>4, LastOfConcatenation
<1>9. \A kind : LastOf(Sizes(m, n) \o opts, kind, default) =
                  LastOf(opts, kind, LastOf(Sizes(m, n), kind, default))
  BY <1>7, LastOfConcatenation
<1> QED
  BY <1>5, <1>6, <1>7, <1>8, <1>9

LEMMA ConfigTyped ==
  ASSUME config \in Configs
  PROVE  /\ resolveMsgSize(config.MaxRecvMsgSize) \in Int
         /\ resolveMsgSize(config.MaxSendMsgSize) \in Int
         /\ config.ServerOptions \in Seq(Settings)
         /\ config.BackendDialOptions \in Seq(Settings)
         /\ Option("creds", config.BackendTransportCreds) \in Settings
<1>1. AnySize \subseteq Int /\ Unlimited \in Int
  BY LimitsAreNumbers
<1>2. <<Option("creds", "cert")>> \in Seq(Settings)
  BY DEF Option, Settings
<1>3. /\ config.MaxRecvMsgSize \in AnySize /\ config.MaxSendMsgSize \in AnySize
      /\ config.ServerOptions \in UserOptions \cup {<<Option("creds", "cert")>>}
      /\ config.BackendDialOptions \in UserOptions
      /\ config.BackendTransportCreds \in {None, "user", "ca", "system roots"}
  BY DEF Configs
<1> QED
  BY <1>1, <1>2, <1>3, UserOptionsAreSettings DEF resolveMsgSize, Option, Settings

LEMMA ServerSettings ==
  ASSUME config \in Configs
  PROVE  /\ Built.creds = LastOf(config.ServerOptions, "creds", None)
         /\ Built.recv = LastOf(config.ServerOptions, "recv",
                                resolveMsgSize(config.MaxRecvMsgSize))
         /\ Built.send = LastOf(config.ServerOptions, "send",
                                resolveMsgSize(config.MaxSendMsgSize))
<1> DEFINE m == resolveMsgSize(config.MaxRecvMsgSize)
           n == resolveMsgSize(config.MaxSendMsgSize)
           opts == config.ServerOptions
<1>1. m \in Int /\ n \in Int /\ opts \in Seq(Settings)
  BY ConfigTyped
<1>2. ServerOptions = Sizes(m, n) \o opts
  BY DEF ServerOptions, ConfigSizes
<1> HIDE DEF m, n, opts
<1>3. /\ ServerOptions \in Seq(Settings)
      /\ \A d : /\ LastOf(ServerOptions, "recv", d) = LastOf(opts, "recv", m)
               /\ LastOf(ServerOptions, "send", d) = LastOf(opts, "send", n)
               /\ LastOf(ServerOptions, "creds", d) = LastOf(opts, "creds", d)
  BY <1>1, <1>2, AfterSizes
<1>4. \A kind, d : Effective(ServerOptions, kind, d) = LastOf(ServerOptions, kind, d)
  BY <1>3, LastSetterWins
<1> QED
  BY <1>3, <1>4 DEF Built, m, n, opts

LEMMA DialSettings ==
  ASSUME config \in Configs
  PROVE  /\ Dialed.creds = LastOf(config.BackendDialOptions, "creds",
                                  config.BackendTransportCreds)
         /\ Dialed.recv = LastOf(config.BackendDialOptions, "recv",
                                 resolveMsgSize(config.MaxRecvMsgSize))
         /\ Dialed.send = LastOf(config.BackendDialOptions, "send",
                                 resolveMsgSize(config.MaxSendMsgSize))
<1> DEFINE creds == Option("creds", config.BackendTransportCreds)
           first == <<creds>>
           user == config.BackendDialOptions
           rest == first \o user
           m == resolveMsgSize(config.MaxRecvMsgSize)
           n == resolveMsgSize(config.MaxSendMsgSize)
<1>1. first \in Seq(Settings) /\ user \in Seq(Settings) /\ rest \in Seq(Settings)
  BY ConfigTyped
<1>2. \A kind, d : LastOf(first, kind, d) =
                     IF kind = "creds" THEN config.BackendTransportCreds ELSE d
  BY ConfigTyped, LastOfOne DEF Option
<1> HIDE DEF first
<1>3. DialOptions = Sizes(m, n) \o rest
  <2>1. Sizes(m, n) \in Seq(Settings)
    BY <1>1, ConfigTyped, AfterSizes
  <2>2. DialOptions = (Sizes(m, n) \o first) \o user
    BY DEF DialOptions, ConfigSizes, first
  <2> HIDE DEF m, n, user
  <2> QED
    BY <1>1, <2>1, <2>2, ConcatAssociative
<1>4. ASSUME NEW kind, NEW d
      PROVE  LastOf(rest, kind, d) = LastOf(user, kind, LastOf(first, kind, d))
  BY <1>1, LastOfConcatenation
<1> HIDE DEF rest, creds
<1>5. /\ DialOptions \in Seq(Settings)
      /\ \A d : /\ LastOf(DialOptions, "recv", d) = LastOf(rest, "recv", m)
               /\ LastOf(DialOptions, "send", d) = LastOf(rest, "send", n)
               /\ LastOf(DialOptions, "creds", d) = LastOf(rest, "creds", d)
  <2>1. m \in Int /\ n \in Int
    BY ConfigTyped
  <2> HIDE DEF m, n
  <2> QED
    BY <1>1, <1>3, <2>1, AfterSizes
<1>6. \A kind, d : Effective(DialOptions, kind, d) = LastOf(DialOptions, kind, d)
  BY <1>5, LastSetterWins
<1> HIDE DEF m, n, user
<1> QED
  BY <1>2, <1>4, <1>5, <1>6 DEF Dialed, m, n, user

-----------------------------------------------------------------------------
(* Steps.                                                                  *)

LEMMA InitInv == Init => Inv
BY DEF Init, Inv, ConfigInv, ServerInv, RouteInv, RequestInv, FlagSet, Configuring

LEMMA ConfigureInv ==
  ASSUME Inv, BuildConfig \/ FlagsRefused \/ Embed
  PROVE  Inv'
<1>1. /\ phase = "flags" /\ server = None /\ request = None
      /\ given = <<>> /\ routes = {} /\ flags \in FlagSet
  BY DEF BuildConfig, FlagsRefused, Embed, Inv, ConfigInv, ServerInv, RouteInv,
         RequestInv
<1>2. UNCHANGED <<given, routes, server, request>> /\ phase' \in {"config", "exited"}
  BY DEF BuildConfig, FlagsRefused, Embed
<1>3. ServerInv' /\ RouteInv' /\ RequestInv'
  BY <1>1, <1>2 DEF ServerInv, RouteInv, RequestInv
<1>4. ConfigInv'
  <2>1. CASE BuildConfig
    <3>1. Configured \in Configs
      BY <1>1 DEF Configured, Configs, FlagSet, UserOptions
    <3> QED
      BY <1>1, <2>1, <3>1 DEF BuildConfig, ConfigInv, Accepted, Configured
  <2>2. CASE FlagsRefused
    BY <2>2 DEF FlagsRefused, ConfigInv, Configuring
  <2>3. CASE Embed
    BY <2>3 DEF Embed, ConfigInv, Configs
  <2> QED
    BY <2>1, <2>2, <2>3
<1> QED
  BY <1>3, <1>4 DEF Inv

LEMMA NewServerInv ==
  ASSUME Inv, NewServer
  PROVE  Inv'
<1>1. /\ phase = "config" /\ server = None /\ request = None
      /\ given = <<>> /\ routes = {} /\ config \in Configs
      /\ UNCHANGED <<flags, config, given, routes, request>>
  BY DEF NewServer, Inv, ConfigInv, ServerInv, RouteInv, RequestInv, Configuring
<1>2. \/ phase' = "exited" /\ server' = server
      \/ phase' = "routes" /\ config.DefaultBackend # Empty /\ server' = Built
  BY DEF NewServer, Built
<1>3. Built' = Built
  BY <1>1 DEF Built, ServerOptions, ConfigSizes
<1>4. ConfigInv'
  BY <1>1, <1>2 DEF Inv, ConfigInv, Configuring, Accepted, Configured
<1>5. ServerInv'
  BY <1>1, <1>2, <1>3 DEF ServerInv
<1>6. RouteInv'
  <2>1. Latest' = {}
    BY <1>1 DEF Latest
  <2>2. given' \in Seq(RouteValues) /\ DOMAIN given' = {}
    BY <1>1
  <2>3. routes' = {<<Head(given'[i]), Tail(given'[i])>> : i \in Latest'}
    BY <1>1, <2>1
  <2> QED
    BY <1>1, <1>2, <2>2, <2>3 DEF RouteInv
<1>7. RequestInv'
  BY <1>1 DEF RequestInv
<1> QED
  BY <1>4, <1>5, <1>6, <1>7 DEF Inv

(* A route replaces the one of its service and no other.                   *)
LEMMA RegisterRouteInv ==
  ASSUME Inv, NEW r \in RouteValues, RegisterRoute(r)
  PROVE  Inv'
<1>1. /\ phase = "routes" /\ request = None /\ given \in Seq(RouteValues)
      /\ \A i \in DOMAIN given : parseRoute(given[i]).ok
      /\ routes = {<<Head(given[i]), Tail(given[i])>> : i \in Latest}
      /\ given' = Append(given, r)
      /\ UNCHANGED <<flags, config, server, request>>
  BY DEF RegisterRoute, Inv, RouteInv, RequestInv
<1>2. /\ ConfigInv /\ ServerInv /\ phase' \in {"routes", "exited"}
      /\ Built' = Built /\ Configured' = Configured /\ Accepted' = Accepted
  BY <1>1 DEF Inv, RegisterRoute, Built, ServerOptions, ConfigSizes, Configured,
              Accepted
<1>3. ConfigInv' /\ ServerInv' /\ RequestInv'
  BY <1>1, <1>2 DEF ConfigInv, ServerInv, RequestInv, Configuring
<1>4. CASE parseRoute(r).ok
  <2> DEFINE n == Len(given)
             Pair(i) == <<Head(given[i]), Tail(given[i])>>
  <2>1. /\ phase' = "routes"
        /\ routes' = {p \in routes : p[1] # Head(r)} \cup {<<Head(r), Tail(r)>>}
    BY <1>1, <1>4 DEF RegisterRoute, AddRoute, parseRoute
  <2>2. /\ n \in Nat /\ DOMAIN given = 1..n /\ DOMAIN given' = 1..(n + 1)
        /\ given' \in Seq(RouteValues)
        /\ \A i \in 1..n : given'[i] = given[i]
        /\ given'[n + 1] = r
    BY <1>1
  <2>3. Latest' = {i \in Latest : Head(given[i]) # Head(r)} \cup {n + 1}
    BY <2>2 DEF Latest
  <2>4. {<<Head(given'[i]), Tail(given'[i])>> : i \in Latest'} =
          {Pair(i) : i \in {j \in Latest : Head(given[j]) # Head(r)}}
            \cup {<<Head(r), Tail(r)>>}
    <3>1. Latest \subseteq 1..n
      BY <2>2 DEF Latest
    <3> QED
      BY <2>2, <2>3, <3>1
  <2>5. {p \in routes : p[1] # Head(r)} =
          {Pair(i) : i \in {j \in Latest : Head(given[j]) # Head(r)}}
    BY <1>1
  <2>6. \A i \in DOMAIN given' : parseRoute(given'[i]).ok
    BY <1>1, <1>4, <2>2
  <2> QED
    BY <1>3, <2>1, <2>2, <2>4, <2>5, <2>6 DEF Inv, RouteInv
<1>5. CASE ~parseRoute(r).ok
  BY <1>3, <1>5 DEF RegisterRoute, Inv, RouteInv
<1> QED
  BY <1>4, <1>5

LEMMA ServeInv ==
  ASSUME Inv, Start \/ \E path \in Paths : Request(path)
  PROVE  Inv'
<1>1. /\ phase \in {"routes", "serving"} /\ request = None /\ phase' = "serving"
      /\ UNCHANGED <<flags, config, given, routes, server>>
  BY DEF Start, Request, Inv, RequestInv
<1>2. /\ Built' = Built /\ Latest' = Latest /\ Configured' = Configured
      /\ Accepted' = Accepted
      /\ \A path : Answer(path)' = Answer(path)
  BY <1>1 DEF Built, ServerOptions, ConfigSizes, Latest, Configured, Accepted,
              Answer, Handle, Dialed, DialOptions
<1>3. ConfigInv' /\ ServerInv' /\ RouteInv'
  BY <1>1, <1>2 DEF Inv, ConfigInv, ServerInv, RouteInv, Configuring
<1>4. RequestInv'
  <2>1. request' = None \/ \E path \in Paths : request' = Answer(path)
    BY <1>1 DEF Start, Request, Answer
  <2> QED
    BY <1>1, <1>2, <2>1 DEF RequestInv
<1> QED
  BY <1>3, <1>4 DEF Inv

LEMMA NextInv == Inv /\ [Next]_vars => Inv'
<1>1. ASSUME Inv, UNCHANGED vars PROVE Inv'
  BY <1>1 DEF vars, Inv, ConfigInv, ServerInv, RouteInv, RequestInv, Built,
    ServerOptions, ConfigSizes, Latest, Configured, Accepted, Answer, Handle,
    Dialed, DialOptions
<1> QED
  BY <1>1, ConfigureInv, NewServerInv, RegisterRouteInv, ServeInv DEF Next

LEMMA Invariance == Spec => []Inv
BY InitInv, NextInv, PTL DEF Spec

-----------------------------------------------------------------------------
LEMMA AnswerFields ==
  ASSUME NEW path
  PROVE  /\ Answer(path).path = path
         /\ Answer(path).ok <=> ParseGRPCPath(path).ok
         /\ Answer(path).ok =>
              /\ Answer(path).conn = Dialed
              /\ Answer(path).backend =
                   LET chosen == Handle(ParseGRPCPath(path).service)
                   IN  IF chosen = <<Empty>> THEN <<config.DefaultBackend>>
                       ELSE chosen
BY DEF Answer

(* A request that is answered holds what Dialed says.                      *)
LEMMA DialedByRequest ==
  ASSUME Inv, request # None, request.ok
  PROVE  request.conn = Dialed /\ config \in Configs
<1>1. PICK path \in Paths : request = Answer(path)
  BY DEF Inv, RequestInv
<1>2. request.conn = Dialed
  BY <1>1, AnswerFields
<1> QED
  BY <1>2 DEF Inv, RequestInv, ConfigInv, Configuring

(* No TLS flag is lost between the command line and gRPC: the server has   *)
(* the certificate and the backend leg the credentials that were asked for,*)
(* whatever the size limits, routes and requests.                          *)
THEOREM CredentialsCorrect == Spec => []NeverPlaintext
<1>1. ASSUME Inv, phase = "serving", flags # None
      PROVE  /\ flags.cert \/ flags.key => server.creds = "cert"
             /\ Dialed.creds = IF flags.backendCA THEN "ca"
                               ELSE IF flags.backendTLS THEN "system roots"
                               ELSE None
  <2>1. /\ config = Configured /\ Accepted /\ flags \in FlagSet
        /\ config \in Configs /\ server = Built
    BY <1>1 DEF Inv, ConfigInv, ServerInv, Configuring
  <2>2. /\ config.BackendDialOptions = <<>>
        /\ config.BackendTransportCreds =
             IF flags.backendCA THEN "ca"
             ELSE IF flags.backendTLS THEN "system roots" ELSE None
    BY <2>1 DEF Configured, Accepted, FlagSet
  <2>3. Dialed.creds = config.BackendTransportCreds
    <3>1. Of(<<>>, "creds") = {}
      BY DEF Of
    <3> QED
      BY <2>1, <2>2, <3>1, DialSettings DEF LastOf
  <2>4. ASSUME flags.cert \/ flags.key
        PROVE  server.creds = "cert"
    <3>1. config.ServerOptions = <<Option("creds", "cert")>>
      BY <2>1, <2>4 DEF Configured, Accepted, FlagSet
    <3>2. /\ Option("creds", "cert") \in Settings
          /\ Option("creds", "cert").kind = "creds"
          /\ Option("creds", "cert").value = "cert"
      BY DEF Option, Settings
    <3> QED
      BY <2>1, <3>1, <3>2, LastOfOne, ServerSettings
  <2> QED
    BY <2>2, <2>3, <2>4
<1>2. Inv => NeverPlaintext
  BY <1>1, DialedByRequest DEF NeverPlaintext
<1> QED
  BY <1>2, Invariance, PTL

(* Size limits: the user's option, or else the Config's limit, or else no  *)
(* limit, on the server and on every backend connection.                   *)
THEOREM LimitsCorrect == Spec => []LimitsHold
<1> DEFINE Wanted(opts, kind, n) ==
             LET own == {i \in DOMAIN opts : opts[i].kind = kind}
             IN  IF own # {} THEN opts[Max(own)].value
                 ELSE IF n > 0 THEN n ELSE Unlimited
           Holds(leg, opts) ==
             /\ leg.recv = Wanted(opts, "recv", config.MaxRecvMsgSize)
             /\ leg.send = Wanted(opts, "send", config.MaxSendMsgSize)
<1>1. ASSUME NEW opts, NEW kind, NEW n \in AnySize
      PROVE  LastOf(opts, kind, resolveMsgSize(n)) = Wanted(opts, kind, n)
  <2>1. n \in Int
    BY LimitsAreNumbers
  <2>2. resolveMsgSize(n) = IF n > 0 THEN n ELSE Unlimited
    BY <2>1 DEF resolveMsgSize
  <2> QED
    BY <2>2 DEF LastOf, Of
<1> HIDE DEF Wanted
<1>2. ASSUME config \in Configs
      PROVE  /\ Holds(Built, config.ServerOptions)
             /\ Holds(Dialed, config.BackendDialOptions)
  <2>1. config.MaxRecvMsgSize \in AnySize /\ config.MaxSendMsgSize \in AnySize
    BY <1>2 DEF Configs
  <2> QED
    BY <1>1, <1>2, <2>1, ServerSettings, DialSettings
<1>3. ASSUME Inv, server # None
      PROVE  Holds(server, config.ServerOptions)
  BY <1>2, <1>3 DEF Inv, ServerInv
<1>4. ASSUME Inv, request # None, request.ok
      PROVE  Holds(request.conn, config.BackendDialOptions)
  BY <1>2, <1>4, DialedByRequest
<1>5. Inv => LimitsHold
  BY <1>3, <1>4 DEF LimitsHold, Wanted
<1> QED
  BY <1>5, Invariance, PTL

-----------------------------------------------------------------------------
(* Paths.                                                                  *)

LEMMA PairOfPieces ==
  ASSUME NEW S, NEW p \in Seq(S), Len(p) = 2
  PROVE  Head(p) = p[1] /\ p[1] \in S /\ p[2] \in S /\ p = <<p[1], p[2]>>
<1>1. Head(p) = p[1] /\ p[1] \in S /\ p[2] \in S
  OBVIOUS
<1>2. p = <<p[1], p[2]>>
  OBVIOUS
<1> QED
  BY <1>1, <1>2

LEMMA TailOfPieces ==
  ASSUME NEW S, NEW p \in Seq(S), Len(p) > 1
  PROVE  /\ Head(p) = p[1] /\ Tail(p) \in Seq(S) /\ Len(Tail(p)) = Len(p) - 1
         /\ \A i \in 1..(Len(p) - 1) : Tail(p)[i] = p[i + 1]
<1>1. p # <<>>
  OBVIOUS
<1> QED
  BY <1>1

LEMMA PrefixedPiece ==
  ASSUME NEW S, NEW p \in Seq(S), NEW x \in S, NEW s, NEW m
  PROVE  <<x, s, m>> = <<x>> \o p <=> p = <<s, m>>
<1> DEFINE one == <<x>>
           longer == one \o p
<1>1. one \in Seq(S)
  OBVIOUS
<1>2. Len(one) = 1 /\ one[1] = x
  OBVIOUS
<1> HIDE DEF one
<1>3. /\ longer \in Seq(S) /\ Len(longer) = Len(one) + Len(p)
      /\ \A i \in 1..Len(one) : longer[i] = one[i]
      /\ \A i \in 1..Len(p) : longer[Len(one) + i] = p[i]
      /\ Len(p) \in Nat
  BY <1>1
<1> HIDE DEF longer
<1>4. Len(longer) = 1 + Len(p) /\ longer[1] = x
  BY <1>2, <1>3
<1>5. ASSUME Len(p) = 2
      PROVE  longer[2] = p[1] /\ longer[3] = p[2]
  <2>1. \A i \in 1..2 : longer[1 + i] = p[i]
    BY <1>2, <1>3, <1>5
  <2>2. longer[1 + 1] = p[1] /\ longer[1 + 2] = p[2]
    BY <2>1
  <2> QED
    BY <2>2
<1>6. ASSUME <<x, s, m>> = longer
      PROVE  p = <<s, m>>
  <2>1. Len(longer) = 3 /\ longer[2] = s /\ longer[3] = m
    BY <1>6
  <2>2. Len(p) = 2
    <3> DEFINE n == Len(p)
    <3>1. 1 + n = 3 /\ n \in Nat
      BY <1>3, <1>4, <2>1
    <3> HIDE DEF n
    <3>2. n = 2
      BY <3>1
    <3> QED
      BY <3>2 DEF n
  <2>3. p[1] = s /\ p[2] = m
    BY <1>5, <2>1, <2>2
  <2> QED
    BY <2>2, <2>3
<1>7. ASSUME p = <<s, m>>
      PROVE  <<x, s, m>> = longer
  <2>1. Len(p) = 2 /\ p[1] = s /\ p[2] = m
    BY <1>7
  <2>2. Len(longer) = 3 /\ longer[1] = x /\ longer[2] = s /\ longer[3] = m
    BY <1>4, <1>5, <2>1
  <2>3. longer \in Seq(S) /\ Len(longer) = 3
    BY <1>3, <2>2
  <2>4. longer = <<longer[1], longer[2], longer[3]>>
    BY <2>3
  <2> QED
    BY <2>2, <2>4
<1> QED
  BY <1>6, <1>7 DEF longer, one

(* What is left of a path that the parser accepts.                         *)
LEMMA ParsedPath ==
  ASSUME NEW path \in Paths
  PROVE  LET parsed == ParseGRPCPath(path)
         IN  /\ parsed.ok =>
                  /\ parsed.service \in Names /\ parsed.method \in Names
                  /\ path \in {<<Empty, parsed.service, parsed.method>>,
                               <<parsed.service, parsed.method>>}
             /\ parsed.ok <=> \E s \in Names, m \in Names :
                  path \in {<<Empty, s, m>>, <<s, m>>}
<1> DEFINE Pieces == Names \cup {Empty}
           p == TrimSlash(path)
           parsed == ParseGRPCPath(path)
<1>1. Empty \notin Names
  BY CommandAssumption DEF CommandAssumption
<1>2. PICK n \in 1..4 : path \in [1..n -> Pieces]
  BY DEF Paths
<1>3. Empty \in Pieces /\ \A x \in Pieces : x # Empty => x \in Names
  OBVIOUS
<1> HIDE DEF Pieces
<1>4. path \in Seq(Pieces)
  <2>1. n \in Nat
    OBVIOUS
  <2> QED
    BY <1>2, <2>1
<1>5. /\ parsed.ok <=> Len(p) = 2 /\ p[1] # Empty /\ p[2] # Empty
      /\ parsed.service = Head(p) /\ parsed.method = p[Len(p)]
  BY DEF ParseGRPCPath
<1>6. \/ Len(path) > 1 /\ path[1] = Empty /\ p = Tail(path)
      \/ (Len(path) <= 1 \/ path[1] # Empty) /\ p = path
  BY <1>4, TailOfPieces DEF TrimSlash
<1> HIDE DEF p, parsed
<1>7. p \in Seq(Pieces)
  BY <1>4, <1>6, TailOfPieces
<1>8. ASSUME parsed.ok
      PROVE  /\ parsed.service \in Names /\ parsed.method \in Names
             /\ path \in {<<Empty, parsed.service, parsed.method>>,
                          <<parsed.service, parsed.method>>}
  <2>1. Len(p) = 2 /\ p[1] # Empty /\ p[2] # Empty
    BY <1>5, <1>8
  <2>2. Head(p) = p[1] /\ p[1] \in Pieces /\ p[2] \in Pieces /\ p = <<p[1], p[2]>>
    BY <1>7, <2>1, PairOfPieces
  <2>3. /\ parsed.service = p[1] /\ parsed.method = p[2]
        /\ p[1] \in Names /\ p[2] \in Names
    BY <1>3, <1>5, <2>1, <2>2
  <2>4. CASE Len(path) > 1 /\ path[1] = Empty /\ p = Tail(path)
    <3>1. Len(path) = 3 /\ path[2] = p[1] /\ path[3] = p[2]
      BY <1>4, <2>1, <2>4, TailOfPieces
    <3>2. path = <<path[1], path[2], path[3]>>
      BY <1>4, <3>1
    <3> QED
      BY <2>3, <2>4, <3>1, <3>2
  <2>5. CASE p = path
    BY <2>2, <2>3, <2>5
  <2> QED
    BY <1>6, <2>3, <2>4, <2>5
<1>9. ASSUME NEW s \in Names, NEW m \in Names, path \in {<<Empty, s, m>>, <<s, m>>}
      PROVE  parsed.ok
  <2>1. s # Empty /\ m # Empty
    BY <1>1
  <2>2. Len(p) = 2 /\ p[1] = s /\ p[2] = m
    <3>1. CASE path = <<Empty, s, m>>
      <4>1. Len(path) = 3 /\ path[1] = Empty /\ path[2] = s /\ path[3] = m
        BY <3>1
      <4>2. p = Tail(path)
        BY <1>6, <4>1
      <4> QED
        <5> DEFINE pair == <<s, m>>
        <5>1. Len(pair) = 2 /\ pair[1] = s /\ pair[2] = m
          OBVIOUS
        <5>2. Tail(path) = pair
          BY <3>1
        <5> HIDE DEF pair
        <5> QED
          BY <4>2, <5>1, <5>2
    <3>2. CASE path = <<s, m>>
      <4>1. Len(path) = 2 /\ path[1] = s /\ path[2] = m
        BY <3>2
      <4>2. p = path
        BY <1>6, <2>1, <4>1
      <4> QED
        BY <4>1, <4>2
    <3> QED
      BY <1>9, <3>1, <3>2
  <2> QED
    BY <1>5, <2>1, <2>2
<1> QED
  BY <1>8, <1>9 DEF parsed

-----------------------------------------------------------------------------
(* Routes.                                                                 *)

(* Routing: exactly the well-formed paths are served, by the last -route   *)
(* flag of the service or the default backend, never by an empty address.  *)
THEOREM RoutingCorrect == Spec => []RoutedAsGiven
<1> DEFINE Mine(path) ==
             {i \in DOMAIN given :
                \E m \in Names : path \in {<<Empty, Head(given[i]), m>>,
                                           <<Head(given[i]), m>>}}
<1>1. "serving" \in Configuring
  BY DEF Configuring
<1>2. ASSUME Inv, phase = "serving", NEW path \in Paths, ParseGRPCPath(path).ok
      PROVE  LET backend == Answer(path).backend
             IN  /\ backend = IF Mine(path) = {} THEN <<config.DefaultBackend>>
                              ELSE Tail(given[Max(Mine(path))])
                 /\ backend # <<Empty>>
  <2> DEFINE s == ParseGRPCPath(path).service
             Own == {i \in DOMAIN given : Head(given[i]) = s}
  <2>1. /\ given \in Seq(RouteValues)
        /\ \A i \in DOMAIN given : parseRoute(given[i]).ok
        /\ routes = {<<Head(given[i]), Tail(given[i])>> : i \in Latest}
        /\ config.DefaultBackend # Empty
    BY <1>2 DEF Inv, RouteInv, ServerInv
  <2>2. \A i \in DOMAIN given : Tail(given[i]) # <<Empty>>
    BY <2>1 DEF parseRoute
  <2>3. PICK m \in Names : s \in Names /\ path \in {<<Empty, s, m>>, <<s, m>>}
    BY <1>2, ParsedPath
  <2> HIDE DEF s
  <2>4. Mine(path) = Own
    <3>1. ASSUME NEW h, NEW n
          PROVE  path \in {<<Empty, h, n>>, <<h, n>>} => h = s
      BY <2>3
    <3> QED
      BY <2>3, <3>1
  <2>5. Answer(path).backend = IF Handle(s) = <<Empty>> THEN <<config.DefaultBackend>>
                               ELSE Handle(s)
    BY <1>2, AnswerFields DEF s
  <2> HIDE DEF Mine
  <2>6. CASE Own = {}
    <3>1. ~ \E p \in routes : p[1] = s
      BY <2>1, <2>6 DEF Latest
    <3>2. Handle(s) = <<Empty>>
      BY <3>1 DEF Handle
    <3> QED
      BY <2>1, <2>4, <2>5, <2>6, <3>2
  <2>7. CASE Own # {}
    <3> DEFINE last == Max(Own)
    <3>1. last \in Own /\ \A i \in Own : i <= last
      <4>1. Len(given) \in Nat /\ Own \in SUBSET (1..Len(given))
        BY <2>1
      <4> HIDE DEF Own
      <4> QED
        BY <2>7, <4>1, MaxOfIndices
    <3> HIDE DEF last
    <3>2. /\ last \in Latest /\ Head(given[last]) = s
          /\ \A i \in Latest : Head(given[i]) = s => i = last
      BY <2>1, <3>1 DEF Latest
    <3>3. \A p \in routes : p[1] = s <=> p = <<s, Tail(given[last])>>
      BY <2>1, <3>2
    <3>4. <<s, Tail(given[last])>> \in routes
      BY <2>1, <3>2
    <3>5. Handle(s) = Tail(given[last])
      <4> DEFINE pair == <<s, Tail(given[last])>>
      <4>1. pair[1] = s /\ pair[2] = Tail(given[last])
        OBVIOUS
      <4> HIDE DEF pair
      <4>2. (CHOOSE p \in routes : p[1] = s) = pair
        BY <3>3, <3>4 DEF pair
      <4>3. \E p \in routes : p[1] = s
        BY <3>4, <4>1 DEF pair
      <4> QED
        BY <4>1, <4>2, <4>3 DEF Handle
    <3> QED
      BY <2>2, <2>4, <2>5, <2>7, <3>1, <3>5 DEF last
  <2> QED
    BY <2>6, <2>7
<1>3. ASSUME NEW path \in Paths
      PROVE  ParseGRPCPath(path).ok <=>
               \E s \in Names, m \in Names :
                 FormatGRPCPath(s, m) \in {path, <<Empty>> \o path}
  <2> DEFINE longer == <<Empty>> \o path
  <2>1. PICK S : path \in Seq(S) /\ Empty \in S
    <3>1. PICK n \in 1..4 : path \in [1..n -> Names \cup {Empty}]
      BY DEF Paths
    <3> DEFINE S == Names \cup {Empty}
    <3>2. Empty \in S /\ path \in [1..n -> S] /\ n \in Nat
      BY <3>1
    <3> HIDE DEF S
    <3> QED
      BY <3>2
  <2>2. ASSUME NEW s, NEW m
        PROVE  <<Empty, s, m>> = longer <=> path = <<s, m>>
    BY <2>1, PrefixedPiece
  <2>3. ASSUME NEW s, NEW m
        PROVE  FormatGRPCPath(s, m) \in {path, longer} <=>
                 path \in {<<Empty, s, m>>, <<s, m>>}
    <3> HIDE DEF longer
    <3> QED
      BY <2>2 DEF FormatGRPCPath
  <2> QED
    BY <2>3, ParsedPath
<1> HIDE DEF Mine
<1>4. ASSUME Inv, request # None
      PROVE  RoutedAsGiven
  <2>1. PICK path \in Paths : phase = "serving" /\ request = Answer(path)
    BY <1>4 DEF Inv, RequestInv
  <2>2. request.path = path /\ (request.ok <=> ParseGRPCPath(path).ok)
    BY <2>1, AnswerFields
  <2> QED
    BY <1>2, <1>3, <1>4, <2>1, <2>2 DEF RoutedAsGiven, Mine
<1>5. Inv => RoutedAsGiven
  BY <1>4 DEF RoutedAsGiven
<1> QED
  BY <1>5, Invariance, PTL
=============================================================================

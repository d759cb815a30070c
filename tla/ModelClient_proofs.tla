------------------------- MODULE ModelClient_proofs -------------------------
(***************************************************************************)
(* The ClientMap has what the handlers look up, and gRPC services get the  *)
(* TLS they name, for every configuration; the attempts of a call are      *)
(* counted right for every max_retries; and what a handler receives of an  *)
(* event stream is what the service sent, for every stream and channel.    *)
(***************************************************************************)
EXTENDS ModelClient, WellFoundedInduction, TLAPS

After == {"health", "bind", "serving", "stopping", "stopped"}
Loaded == phase \in {"create"} \cup After
Resolvable == {p \in DOMAIN config.services : p[1] \in Resolved}

\* What Load leaves of the assumption on the configuration.
ConfigOK ==
    /\ config = [services |-> config.services, chunker_id |-> config.chunker_id, tls |-> config.tls,
                 provider |-> config.provider, router |-> config.router, supported |-> config.supported,
                 server_tls |-> config.server_tls, health_check |-> config.health_check]
    /\ config.services = [p \in DOMAIN config.services |->
                            [host |-> config.services[p].host, tls |-> config.services[p].tls]]
    /\ \A p \in DOMAIN config.services : p = <<p[1], p[2]>>
    /\ config.tls # "name"

\* What Load has established.
LoadedOK ==
    Loaded =>
        /\ validate_detector_chunkers
        /\ config.tls # "no section" => \A p \in Resolvable : config.services[p].tls # "name"

\* Every client was made for a service with its id ...
Made == \A i \in DOMAIN clients : \E q \in Resolvable : q[2] = i /\ clients[i] = Client(q)

\* ... and the service p has one, its own when no ids collide.
Filed(p) == p[2] \in DOMAIN clients /\ (IdsDistinct => clients[p[2]] = Client(p))

MapOK ==
    /\ phase = "load" => clients = <<>>
    /\ Loaded => Made
    /\ phase = "create" => left \subseteq Resolvable /\ \A p \in Resolvable \ left : Filed(p)
    /\ phase \in After => \A p \in Resolvable : Filed(p)

ServerInv == ConfigOK /\ LoadedOK /\ MapOK

LEMMA InitInv == ServerInit => ServerInv
<1> SUFFICES ASSUME ServerInit PROVE ServerInv
  OBVIOUS
<1>1. ConfigOK
  BY ConfigAssumption DEF ServerInit, ConfigOK
<1>2. phase \in {"load", "panic"} /\ clients = <<>>
  BY DEF ServerInit
<1> QED
  BY <1>1, <1>2 DEF ServerInv, LoadedOK, MapOK, Loaded, After

\* Resolving the names changes the tls of services and nothing else.
LEMMA Applied ==
    ASSUME ConfigOK
    PROVE  LET s == apply_named_tls_configs
           IN  /\ DOMAIN s = DOMAIN config.services
               /\ s = [p \in DOMAIN s |-> [host |-> s[p].host, tls |-> s[p].tls]]
               /\ config.tls # "no section" => \A p \in DOMAIN s : p[1] \in Resolved => s[p].tls # "name"
<1>1. CASE config.tls = "no section"
  BY <1>1 DEF apply_named_tls_configs, ConfigOK
<1>2. CASE config.tls # "no section"
  <2> DEFINE t == config.services
             s == apply_named_tls_configs
             named(p) == p[1] \in Resolved /\ t[p].tls = "name"
  <2>1. \A p \in DOMAIN t : t[p] = [host |-> t[p].host, tls |-> t[p].tls]
    BY DEF ConfigOK
  <2>2. s = [p \in DOMAIN t |-> IF named(p) THEN [t[p] EXCEPT !.tls = config.tls] ELSE t[p]]
    BY <1>2 DEF apply_named_tls_configs
  <2>3. DOMAIN s = DOMAIN t
    BY <2>2
  <2> HIDE DEF s, t
  <2>4. \A p \in DOMAIN t :
           /\ s[p] = [host |-> s[p].host, tls |-> s[p].tls]
           /\ p[1] \in Resolved => s[p].tls # "name"
    <3> TAKE p \in DOMAIN t
    <3>1. config.tls # "name"
      BY DEF ConfigOK
    <3>2. CASE named(p)
      <4>1. s[p] = [t[p] EXCEPT !.tls = config.tls]
        BY <2>2, <3>2
      <4>2. s[p] = [host |-> t[p].host, tls |-> config.tls]
        BY <2>1, <4>1
      <4> QED
        BY <3>1, <4>2
    <3>3. CASE ~named(p)
      <4>1. s[p] = t[p]
        BY <2>2, <3>3
      <4> QED
        BY <2>1, <3>3, <4>1
    <3> QED
      BY <3>2, <3>3
  <2>5. s = [p \in DOMAIN s |-> [host |-> s[p].host, tls |-> s[p].tls]]
    BY <2>2, <2>3, <2>4
  <2> QED
    BY <2>3, <2>4, <2>5 DEF s, t
<1> QED
  BY <1>1, <1>2

LEMMA LoadStep == ASSUME ServerInv, Load PROVE ServerInv'
<1> DEFINE s == apply_named_tls_configs
<1>1. /\ DOMAIN s = DOMAIN config.services
      /\ s = [p \in DOMAIN s |-> [host |-> s[p].host, tls |-> s[p].tls]]
      /\ config.tls # "no section" => \A p \in DOMAIN s : p[1] \in Resolved => s[p].tls # "name"
  BY Applied DEF ServerInv
<1> HIDE DEF s
<1>2. /\ phase = "load" /\ phase' \in {"create", "error"} /\ clients' = <<>>
      /\ config' = [config EXCEPT !.services = s]
      /\ phase' = "create" => validate_detector_chunkers
      /\ left' = {p \in DOMAIN s : p[1] \in Resolved}
  BY DEF Load, s, ServerInv, MapOK, validate
<1>3. config' = [services |-> s, chunker_id |-> config.chunker_id, tls |-> config.tls,
                 provider |-> config.provider, router |-> config.router, supported |-> config.supported,
                 server_tls |-> config.server_tls, health_check |-> config.health_check]
  BY <1>2 DEF ServerInv, ConfigOK
<1>4. ConfigOK'
  <2>1. \A p \in DOMAIN config.services : p = <<p[1], p[2]>>
    BY DEF ServerInv, ConfigOK
  <2>2. config.tls # "name"
    BY DEF ServerInv, ConfigOK
  <2> QED
    BY <1>1, <1>3, <2>1, <2>2 DEF ConfigOK
<1>5. validate_detector_chunkers => validate_detector_chunkers'
  BY <1>1, <1>3 DEF validate_detector_chunkers, Detectors, Services
<1>6. LoadedOK'
  BY <1>1, <1>2, <1>3, <1>5 DEF LoadedOK, Loaded, After, Resolvable
<1>7. MapOK'
  <2>1. DOMAIN clients' = {}
    BY <1>2
  <2>2. Made'
    BY <2>1 DEF Made
  <2>3. left' = Resolvable'
    BY <1>2, <1>3 DEF Resolvable
  <2> QED
    BY <1>2, <2>2, <2>3 DEF MapOK, Loaded, After
<1> QED
  BY <1>4, <1>6, <1>7 DEF ServerInv

\* IdsDistinct in the form that is used.
LEMMA Distinct ==
    ASSUME IdsDistinct, NEW p \in Resolvable, NEW q \in Resolvable, p # q
    PROVE  p[2] # q[2]
  BY DEF IdsDistinct, Resolvable

LEMMA NewClientOutcome == ASSUME NEW p PROVE NewClient(p) \in {"ok", "panic", "error"}
<1>1. \A t : build_client_config(t) \in {"ok", "panic", "error"}
  BY DEF build_client_config, build
<1>2. \A s : create_http_client(s) \in {"ok", "panic", "error"}
  BY <1>1 DEF create_http_client
<1>3. RouterClient \in {"ok", "panic", "error"} /\ HealthClient(p) \in {"ok", "panic", "error"}
  BY <1>2 DEF RouterClient, HealthClient
<1> QED
  BY <1>2, <1>3 DEF NewClient, create_grpc_client

LEMMA CreateStep == ASSUME ServerInv, NEW p, CreateClient(p) PROVE ServerInv'
<1>1. /\ phase = "create" /\ p \in left /\ left \subseteq Resolvable
      /\ config' = config /\ left' = left \ {p}
      /\ \/ phase' = phase /\ clients' = Insert(clients, p[2], Client(p))
         \/ phase' \in {"panic", "error"} /\ clients' = clients
  BY NewClientOutcome DEF CreateClient, ServerInv, MapOK
<1>2. ConfigOK' /\ Resolvable' = Resolvable /\ (IdsDistinct' <=> IdsDistinct)
  BY <1>1 DEF ServerInv, ConfigOK, Resolvable, IdsDistinct
<1>3. LoadedOK'
  BY <1>1 DEF ServerInv, LoadedOK, Loaded, After, Resolvable, validate_detector_chunkers, Detectors, Services
<1>4. CASE phase' \in {"panic", "error"}
  BY <1>2, <1>3, <1>4 DEF ServerInv, MapOK, Loaded, After
<1>5. CASE phase' = phase /\ clients' = Insert(clients, p[2], Client(p))
  <2>1. \A q : Client(q)' = Client(q)
    BY <1>1 DEF Client
  <2>2. /\ DOMAIN clients' = DOMAIN clients \cup {p[2]}
        /\ clients'[p[2]] = Client(p)
        /\ \A i \in DOMAIN clients : i # p[2] => clients'[i] = clients[i]
    BY <1>5 DEF Insert
  <2>3. Made
    BY <1>1 DEF ServerInv, MapOK, Loaded
  <2>4. Made'
    BY <1>1, <1>2, <2>1, <2>2, <2>3 DEF Made
  <2>5. \A q \in Resolvable \ left' : Filed(q)'
    <3> TAKE q \in Resolvable \ left'
    <3>1. CASE q = p
      BY <2>1, <2>2, <3>1 DEF Filed
    <3>2. CASE q # p
      <4>1. Filed(q)
        BY <1>1, <3>2 DEF ServerInv, MapOK
      <4>2. q[2] \in DOMAIN clients'
        BY <2>2, <4>1 DEF Filed
      <4>3. ASSUME IdsDistinct PROVE clients'[q[2]] = Client(q)
        <5>1. q[2] # p[2]
          BY <1>1, <3>2, <4>3, Distinct
        <5> QED
          BY <2>2, <4>1, <4>3, <5>1 DEF Filed
      <4> QED
        BY <1>2, <2>1, <4>2, <4>3 DEF Filed
    <3> QED
      BY <3>1, <3>2
  <2> QED
    BY <1>1, <1>2, <1>3, <1>5, <2>4, <2>5 DEF ServerInv, MapOK, Loaded, After
<1> QED
  BY <1>1, <1>4, <1>5

\* Once all clients are made, no step changes them.
LEMMA QuietStep ==
    ASSUME ServerInv, config' = config, clients' = clients,
           \/ phase \in After /\ phase' \in After \cup {"panic"}
           \/ phase = "create" /\ left = {} /\ phase' \in After
           \/ phase' = "panic"
           \/ phase' = phase /\ left' = left
    PROVE  ServerInv'
<1>1. ConfigOK' /\ Resolvable' = Resolvable /\ (IdsDistinct' <=> IdsDistinct)
  BY DEF ServerInv, ConfigOK, Resolvable, IdsDistinct
<1>2. LoadedOK'
  BY DEF ServerInv, LoadedOK, Loaded, After, Resolvable, validate_detector_chunkers, Detectors, Services
<1>3. \A q : Client(q)' = Client(q)
  BY DEF Client
<1>4. (Made => Made') /\ \A q : Filed(q) => Filed(q)'
  BY <1>1, <1>3 DEF Made, Filed
<1>5. MapOK'
  BY <1>1, <1>4 DEF ServerInv, MapOK, Loaded, After
<1> QED
  BY <1>1, <1>2, <1>5 DEF ServerInv

Up == {"serving", "stopping", "stopped"}

LEMMA ServerStep == ASSUME ServerInv, ServerNext PROVE ServerInv'
<1>1. CASE Load
  BY <1>1, LoadStep
<1>2. CASE \E p \in left : CreateClient(p)
  BY <1>2, CreateStep
<1>8. CASE \E p \in left : ChannelFails(p)
  BY <1>8, QuietStep DEF ChannelFails
<1>3. CASE ClientsCreated
  BY <1>3, QuietStep DEF ClientsCreated, After
<1>4. CASE on_start_up \/ Bind
  BY <1>4, QuietStep DEF on_start_up, Bind, After
<1>5. CASE \E id \in left : ClientHealth(id)
  BY <1>5, QuietStep DEF ClientHealth, After
<1>6. CASE Stop \/ shutdown_signal
  BY <1>6, QuietStep DEF Stop, Drained, GracefulTimeout, shutdown_signal, After
<1>7. CASE \E c \in AllConns : Connect(c) \/ Accept(c) \/ Handshake(c) \/ Info(c) \/ Finish(c)
  BY <1>7, QuietStep DEF Connect, Accept, Handshake, Info, Finish, Serving, After
<1> QED
  BY <1>1, <1>2, <1>3, <1>4, <1>5, <1>6, <1>7, <1>8 DEF ServerNext, Main

LEMMA NextServer == ServerInv /\ [Next]_vars => ServerInv'
<1> SUFFICES ASSUME ServerInv, [Next]_vars PROVE ServerInv'
  OBVIOUS
<1>1. CASE UNCHANGED serverVars
  BY <1>1, QuietStep DEF serverVars
<1>2. CASE ServerAlone
  BY <1>2, ServerStep DEF ServerAlone
<1>3. CASE CallerLeaves
  BY <1>3, QuietStep DEF CallerLeaves, Finish, Serving, After
<1>4. CASE Requesting \/ ServiceSends \/ ServiceCloses \/ Reader \/ Receive
  BY <1>1, <1>4 DEF Requesting, StartCall, Attempt, Backoff, ServiceSends, ServiceCloses,
                    Reader, NextEvent, HandleLine, EndOfStream, Receive
<1> QED
  BY <1>1, <1>2, <1>3, <1>4 DEF Next, vars

LEMMA ServerAlways == Spec => []ServerInv
<1>1. Init => ServerInv
  BY InitInv DEF Init
<1> QED
  BY <1>1, NextServer, PTL DEF Spec

LEMMA ClientFields ==
    ASSUME NEW p
    PROVE  Client(p).kind = p[1] /\ Client(p).tls = (config.services[p].tls \notin {"none", "name"})
  BY Zenon DEF Client

\* Every lookup the handlers make in the ClientMap succeeds while requests are
\* served, for every configuration whose ids do not collide.
THEOREM LookupsAlways == Spec => []LookupsWork
<1>1. ServerInv => LookupsWork
  <2> SUFFICES ASSUME ServerInv, Serving, IdsDistinct PROVE LookupsWork
    BY DEF LookupsWork
  <2>1. validate_detector_chunkers /\ \A p \in Resolvable : Has(p[2], p[1])
    BY ClientFields DEF ServerInv, LoadedOK, MapOK, Loaded, After, Serving, Filed, Has
  <2>2. \A p \in Services("openai") \cup Services("generation") \cup Services("detector") : Has(p[2], p[1])
    BY <2>1 DEF Services, Resolvable, Resolved
  <2>3. ASSUME NEW d \in Detectors, config.chunker_id[d] # whole_doc_chunker
        PROVE  Has(config.chunker_id[d], "chunker")
    <3>1. <<"chunker", config.chunker_id[d]>> \in Resolvable
      BY <2>1, <2>3 DEF validate_detector_chunkers, Resolvable, Resolved
    <3> QED
      BY <2>1, <3>1
  <2> QED
    BY <2>2, <2>3 DEF LookupsWork
<1> QED
  BY <1>1, ServerAlways, PTL

\* With a tls section, a gRPC service that is given TLS is called over TLS, for
\* every configuration, whether ids collide or not.
THEOREM TlsAlways == Spec => []TlsApplied
<1>1. ServerInv => TlsApplied
  <2> SUFFICES ASSUME ServerInv, Serving, config.tls # "no section",
                      NEW p \in Services("generation") \cup Services("chunker"),
                      Has(p[2], p[1]), config.services[p].tls # "none"
               PROVE  clients[p[2]].tls
    BY DEF TlsApplied
  <2>1. p \in Resolvable /\ p = <<p[1], p[2]>>
    BY DEF Services, Resolvable, Resolved, ServerInv, ConfigOK
  <2>2. PICK q \in Resolvable : q[2] = p[2] /\ clients[p[2]] = Client(q)
    BY DEF ServerInv, MapOK, Loaded, After, Serving, Made, Has
  <2>3. q = p
    <3>1. q[1] = p[1]
      BY <2>2, ClientFields DEF Has
    <3>2. q = <<q[1], q[2]>>
      BY DEF Resolvable, ServerInv, ConfigOK
    <3> QED
      BY <2>1, <2>2, <3>1, <3>2
  <2>4. config.services[p].tls # "name"
    BY <2>1 DEF ServerInv, LoadedOK, Loaded, After, Serving
  <2> QED
    BY <2>2, <2>3, <2>4, ClientFields
<1> QED
  BY <1>1, ServerAlways, PTL
-----------------------------------------------------------------------------
(* Attempts.                                                               *)

Callable == {"generation", "openai", "detector"}

\* While an attempt or a pause is under way every attempt so far was worth
\* another, and there is one left.
Trying ==
    /\ result = 0 /\ Len(tries) <= MaxRetries
    /\ \A i \in 1..Len(tries) : Retries /\ tries[i] \in allowed_retry_codes

RetryInv ==
    /\ tries \in Seq(Nat)
    /\ cpc = "idle" => tries = <<>> /\ result = 0
    /\ cpc # "idle" => phase \in Up /\ Kind \in Callable
    /\ cpc \in {"post", "backoff"} => Trying
    /\ RetriesRight

LEMMA StatusIn ==
    ASSUME NEW S, NEW B, \A n \in S : n \in Nat
    PROVE  \A r \in [status : S, body : B] : r.status \in Nat
  OBVIOUS

LEMMA OutcomesNat == ASSUME Kind \in Callable PROVE \A code \in Outcomes : code \in Nat
<1>1. \A r \in HttpReplies : r.status \in Nat
  <2> DEFINE S == {200, 404, 503}
             B == {"ok", "error", "other_code", "bad_code", "junk", "cut"}
  <2>1. \A n \in S : n \in Nat
    OBVIOUS
  <2>2. HttpReplies = [status : S, body : B] \cup {[status |-> 0, body |-> "junk"]}
    BY DEF HttpReplies
  <2>3. [status |-> 0, body |-> "junk"].status \in Nat
    OBVIOUS
  <2> HIDE DEF S, B
  <2>4. \A r \in [status : S, body : B] : r.status \in Nat
    BY <2>1, StatusIn
  <2> QED
    BY <2>2, <2>3, <2>4
<1>2. ASSUME NEW r \in HttpReplies PROVE OpenAiOutcome(r) \in Nat /\ DetectorOutcome(r) \in Nat
  <2>1. OpenAiOutcome(r) \in {408, 200, 0, 500, r.status}
    BY DEF OpenAiOutcome, NoAnswer
  <2>2. DetectorOutcome(r) \in {408, 0, 422, 500, r.status}
    BY DEF DetectorOutcome, NoAnswer
  <2> QED
    BY <1>1, <2>1, <2>2
<1>3. \A code \in GrpcOutcomes : code \in Nat
  BY ClientAssumption DEF GrpcOutcomes, grpc_to_http_code
<1>4. \A code \in build_router_headers : code \in Nat
  BY DEF build_router_headers
<1> QED
  BY <1>2, <1>3, <1>4 DEF Outcomes, Callable

LEMMA InitRetry == Init => RetryInv
<1> SUFFICES ASSUME Init PROVE RetryInv
  OBVIOUS
<1>1. tries = <<>> /\ result = 0 /\ cpc = "idle" /\ Len(tries) = 0
  BY DEF Init
<1> QED
  BY <1>1, ClientAssumption DEF RetryInv, RetriesRight

\* The kind of the client of a call does not change.
LEMMA KindKept ==
    ASSUME RetryInv, tries' = tries, result' = result, call' = call,
           cpc' = cpc \/ (cpc' # "idle" /\ cpc # "idle" /\ (cpc' \in {"post", "backoff"} => cpc \in {"post", "backoff"})),
           \/ cpc = "idle"
           \/ config' = config /\ clients' = clients /\ (phase \in Up => phase' \in Up)
    PROVE  RetryInv'
<1>1. CASE cpc = "idle"
  <2>1. cpc' = "idle" /\ tries' = <<>> /\ result' = 0 /\ Len(tries') = 0
    BY <1>1 DEF RetryInv
  <2> QED
    BY <2>1, ClientAssumption DEF RetryInv, RetriesRight
<1>2. CASE cpc # "idle"
  <2>1. Kind' = Kind /\ Retries' = Retries
    BY <1>2 DEF Kind, Retries
  <2> QED
    BY <1>2, <2>1 DEF RetryInv, RetriesRight, Trying
<1> QED
  BY <1>1, <1>2

LEMMA ServerUp ==
    ASSUME ServerNext, phase \in Up
    PROVE  config' = config /\ clients' = clients /\ phase' \in Up
  BY DEF ServerNext, Main, Load, ClientsCreated, on_start_up, Bind, CreateClient, ChannelFails, ClientHealth, Stop, Drained,
         GracefulTimeout, Info, shutdown_signal, Connect, Accept, Handshake, Finish, Up

LEMMA AttemptRetry == ASSUME RetryInv, Attempt PROVE RetryInv'
<1>1. PICK code \in Outcomes :
        /\ tries' = Append(tries, code)
        /\ IF Again(code, Len(tries) + 1) THEN cpc' = "backoff" /\ result' = result
           ELSE result' = code /\ cpc' \in {"reading", "ended"}
  BY DEF Attempt
<1>2. /\ cpc = "post" /\ phase \in Up /\ Kind \in Callable /\ Trying /\ tries \in Seq(Nat)
      /\ phase' = phase /\ clients' = clients /\ config' = config /\ call' = call
  BY DEF Attempt, RetryInv, serverVars
<1>3. Kind' = Kind /\ Retries' = Retries
  BY <1>2 DEF Kind, Retries
<1>4. code \in Nat
  BY <1>2, OutcomesNat
<1>5. /\ tries' \in Seq(Nat) /\ Len(tries') = Len(tries) + 1 /\ Len(tries) \in Nat
      /\ tries'[Len(tries) + 1] = code
      /\ \A i \in 1..Len(tries) : tries'[i] = tries[i]
  BY <1>1, <1>2, <1>4
<1>6. \A i \in 1..Len(tries) : Retries' /\ tries'[i] \in allowed_retry_codes
  BY <1>2, <1>3, <1>5 DEF Trying
<1>7. CASE Again(code, Len(tries) + 1)
  <2>1. Trying'
    BY <1>1, <1>2, <1>3, <1>5, <1>6, <1>7, ClientAssumption DEF Trying, Again
  <2>2. RetriesRight'
    BY <1>1, <1>2, <1>5, <1>6, <1>7, ClientAssumption DEF RetriesRight, Trying
  <2> QED
    BY <1>1, <1>2, <1>3, <1>5, <1>7, <2>1, <2>2 DEF RetryInv
<1>8. CASE ~Again(code, Len(tries) + 1)
  <2>1. Last(tries') = code /\ result' = code
    BY <1>1, <1>5, <1>8 DEF Last
  <2>2. Retries' /\ code \in allowed_retry_codes => Len(tries') = MaxRetries + 1
    BY <1>2, <1>3, <1>5, <1>8, ClientAssumption DEF Again, Trying
  <2>3. RetriesRight'
    BY <1>2, <1>5, <1>6, <2>1, <2>2, ClientAssumption DEF RetriesRight, Trying
  <2> QED
    BY <1>1, <1>2, <1>3, <1>5, <1>8, <2>3 DEF RetryInv
<1> QED
  BY <1>7, <1>8

LEMMA StartRetry ==
    ASSUME ServerInv, RetryInv, NEW c, NEW id, NEW stream, StartCall(c, id, stream)
    PROVE  RetryInv'
<1>1. /\ cpc = "idle" /\ cpc' = "post" /\ phase' = phase /\ clients' = clients /\ id \in DOMAIN clients
      /\ call'.client = id /\ clients[id].kind # "chunker" /\ tries' = tries /\ result' = result
      /\ phase \in {"serving", "stopping"}
  BY DEF StartCall, serverVars, Serving
<1>2. tries' = <<>> /\ result' = 0 /\ Len(tries') = 0
  BY <1>1 DEF RetryInv
<1>3. clients[id].kind \in Resolved
  BY <1>1 DEF ServerInv, MapOK, Loaded, After, Made, Client, Resolvable
<1>4. Kind' \in Callable
  BY <1>1, <1>3 DEF Kind, Resolved, Callable
<1> QED
  BY <1>1, <1>2, <1>4, ClientAssumption DEF RetryInv, RetriesRight, Trying, Up

LEMMA NextRetry == ServerInv /\ RetryInv /\ [Next]_vars => RetryInv'
<1> SUFFICES ASSUME ServerInv, RetryInv, [Next]_vars PROVE RetryInv'
  OBVIOUS
<1>1. CASE UNCHANGED vars
  BY <1>1, KindKept DEF vars, serverVars, callVars, replyVars
<1>2. CASE ServerAlone
  <2>1. tries' = tries /\ result' = result /\ call' = call /\ cpc' = cpc
    BY <1>2 DEF ServerAlone, callVars, replyVars
  <2>2. cpc # "idle" => config' = config /\ clients' = clients /\ phase' \in Up
    BY <1>2, ServerUp DEF ServerAlone, RetryInv
  <2> QED
    BY <2>1, <2>2, KindKept
<1>3. CASE \E c \in Conns, id \in DOMAIN clients, stream \in BOOLEAN : StartCall(c, id, stream)
  BY <1>3, StartRetry
<1>4. CASE Attempt
  BY <1>4, AttemptRetry
<1>5. CASE Backoff
  BY <1>5, KindKept DEF Backoff, serverVars, replyVars
<1>6. CASE ServiceSends \/ ServiceCloses \/ Reader \/ Receive
  BY <1>6, KindKept DEF ServiceSends, ServiceCloses, Reader, NextEvent, HandleLine, EndOfStream, Receive,
                        serverVars, replyVars
<1>7. CASE CallerLeaves
  BY <1>7, KindKept DEF CallerLeaves, Finish, replyVars
<1> QED
  BY <1>1, <1>2, <1>3, <1>4, <1>5, <1>6, <1>7 DEF Next, Requesting

\* For every max_retries: only a code worth it is followed by another attempt,
\* there are at most max_retries + 1, and the client gives up no earlier.
THEOREM RetriesAlways == Spec => []RetriesRight
<1>1. RetryInv => RetriesRight
  BY DEF RetryInv
<1> QED
  BY <1>1, InitRetry, NextRetry, ServerAlways, PTL DEF Spec
-----------------------------------------------------------------------------
(* The event stream.                                                       *)

Lines == [kind : LineKinds \cup {"fatal"}, n : Nat]
Stops == {"done", "fatal", "bad_code"}

\* Everything that was put in the channel, oldest first.
Got == received \o chan

StreamTypes ==
    /\ cpc \in {"idle", "post", "backoff", "reading", "ended"} /\ rx \in BOOLEAN
    /\ said \in Seq(Lines) /\ lines \in Seq(Lines)
    /\ chan \in Seq(Lines) /\ received \in Seq(Lines)
    /\ events \in Seq([name : {"data", "broken", "png", "err"}, data : Seq(Lines)])
    /\ taken \in 0..Len(events)

\* Before the response there is no stream.
NoStream ==
    cpc \in {"idle", "post", "backoff"} =>
        events = <<>> /\ said = <<>> /\ lines = <<>> /\ chan = <<>> /\ received = <<>> /\ taken = 0

\* An event that breaks the stream has one line, and no other event has such a line.
Breaks ==
    /\ \A i \in 1..Len(events) :
         IF events[i].name \in {"broken", "err"}
         THEN Len(events[i].data) = 1 /\ events[i].data[1].kind = "fatal"
         ELSE \A j \in 1..Len(events[i].data) : events[i].data[j].kind # "fatal"
    /\ \A j \in 1..Len(lines) : lines[j].kind # "fatal"

\* The handler has been given the first p lines, and none of them ends the stream.
Given(p) == Len(Got) = p /\ p <= Len(said) /\ \A i \in 1..p : Got[i] = said[i]
Clean(p) == \A i \in 1..p : said[i].kind \notin Stops

\* Where the lines of each event are in what the service said; the reading task has
\* p lines behind it.
Placed(start, p) ==
    /\ start \in [1..(Len(events) + 1) -> Nat]
    /\ start[Len(events) + 1] = Len(said) /\ \A i \in 1..(Len(events) + 1) : start[i] <= Len(said)
    /\ \A i \in 1..Len(events) :
         /\ start[i + 1] = start[i] + Len(events[i].data)
         /\ \A j \in 1..Len(events[i].data) : events[i].data[j] = said[start[i] + j]
    /\ start[taken + 1] = p + Len(lines)
    /\ \A j \in 1..Len(lines) : lines[j] = said[p + j]

\* The task stopped after p lines for one of its three reasons.
Stopped(p) ==
    \/ p = Len(said) /\ Clean(p)
    \/ p > 0 /\ said[p].kind \in {"done", "fatal"} /\ Clean(p - 1)
    \/ p < Len(said) /\ said[p + 1].kind = "bad_code" /\ Clean(p)

\* What has been delivered of the stream so far, and at its end.
Following ==
    rx /\ cpc = "reading" => \E p \in Nat : Given(p) /\ Clean(p) /\ \E start : Placed(start, p)

Over == rx /\ cpc = "ended" => \E p \in Nat : Given(p) /\ Stopped(p)

StreamInv == StreamTypes /\ NoStream /\ Breaks /\ Following /\ Over
-----------------------------------------------------------------------------
(* Sequences.                                                              *)

LEMMA PrefixOf ==
    ASSUME NEW S, NEW s \in Seq(S), NEW t \in Seq(S), NEW q \in Nat, Len(s) <= q, q <= Len(t),
           \A i \in 1..Len(s) : s[i] = t[i]
    PROVE  /\ IsPrefix(s, SubSeq(t, 1, q))
           /\ Len(s) = q => s = SubSeq(t, 1, q)
<1> DEFINE u == SubSeq(t, 1, q)
<1>1. Len(s) \in Nat /\ Len(t) \in Nat
  OBVIOUS
<1>2. u \in Seq(S) /\ Len(u) = q /\ \A i \in 1..q : u[i] = t[i]
  BY <1>1
<1> HIDE DEF u
<1>3. SubSeq(s, 1, Len(s)) \in Seq(S) /\ Len(SubSeq(s, 1, Len(s))) = Len(s)
      /\ \A i \in 1..Len(s) : SubSeq(s, 1, Len(s))[i] = s[i]
  BY <1>1
<1>4. SubSeq(u, 1, Len(s)) \in Seq(S) /\ Len(SubSeq(u, 1, Len(s))) = Len(s)
      /\ \A i \in 1..Len(s) : SubSeq(u, 1, Len(s))[i] = u[i]
  BY <1>1, <1>2
<1>5. \A i \in 1..Len(s) : u[i] = s[i]
  BY <1>1, <1>2
<1>6. SubSeq(s, 1, Len(s)) = SubSeq(u, 1, Len(s))
  BY <1>3, <1>4, <1>5
<1>7. Len(s) = q => s = u
  BY <1>2, <1>5
<1> QED
  BY <1>2, <1>6, <1>7 DEF IsPrefix, u

LEMMA Appended ==
    ASSUME NEW S, NEW s \in Seq(S), NEW e \in S
    PROVE  /\ Append(s, e) \in Seq(S) /\ Len(s) \in Nat /\ Len(Append(s, e)) = Len(s) + 1
           /\ Append(s, e)[Len(s) + 1] = e /\ \A i \in 1..Len(s) : Append(s, e)[i] = s[i]
  OBVIOUS

LEMMA Popped ==
    ASSUME NEW S, NEW s \in Seq(S), s # <<>>
    PROVE  /\ Tail(s) \in Seq(S) /\ Len(Tail(s)) = Len(s) - 1 /\ Len(s) \in Nat /\ Len(s) > 0
           /\ Head(s) = s[1] /\ Head(s) \in S /\ \A i \in 1..(Len(s) - 1) : Tail(s)[i] = s[i + 1]
  OBVIOUS

LEMMA Joined ==
    ASSUME NEW S, NEW s \in Seq(S), NEW t \in Seq(S)
    PROVE  /\ s \o t \in Seq(S) /\ Len(s) \in Nat /\ Len(t) \in Nat /\ Len(s \o t) = Len(s) + Len(t)
           /\ \A i \in 1..Len(s) : (s \o t)[i] = s[i]
           /\ \A i \in 1..Len(t) : (s \o t)[Len(s) + i] = t[i]
  OBVIOUS

LEMMA ElementOf ==
    ASSUME NEW S, NEW s \in Seq(S), NEW i \in 1..Len(s)
    PROVE  s[i] \in S
  OBVIOUS

LEMMA SameElements ==
    ASSUME NEW S, NEW s \in Seq(S), NEW t \in Seq(S), Len(s) = Len(t), \A i \in 1..Len(s) : s[i] = t[i]
    PROVE  s = t
  OBVIOUS

\* Sending appends to what was sent, receiving does not change it.
LEMMA JoinAppended ==
    ASSUME NEW S, NEW s \in Seq(S), NEW t \in Seq(S), NEW e \in S
    PROVE  s \o Append(t, e) = Append(s \o t, e)
<1> DEFINE a == Append(t, e)
           l == s \o a
           r == Append(s \o t, e)
<1>1. PICK m \in Nat, n \in Nat : m = Len(s) /\ n = Len(t)
  BY Joined
<1>2. a \in Seq(S) /\ Len(a) = n + 1 /\ a[n + 1] = e /\ \A i \in 1..n : a[i] = t[i]
  BY <1>1, Appended
<1>3. s \o t \in Seq(S) /\ Len(s \o t) = m + n
      /\ (\A i \in 1..m : (s \o t)[i] = s[i]) /\ \A i \in 1..n : (s \o t)[m + i] = t[i]
  BY <1>1, Joined
<1>4. r \in Seq(S) /\ Len(r) = m + n + 1 /\ r[m + n + 1] = e /\ \A i \in 1..(m + n) : r[i] = (s \o t)[i]
  BY <1>3, Appended
<1> HIDE DEF a
<1>5. l \in Seq(S) /\ Len(l) = m + (n + 1)
      /\ (\A i \in 1..m : l[i] = s[i]) /\ \A i \in 1..(n + 1) : l[m + i] = a[i]
  <2>1. /\ l \in Seq(S) /\ Len(l) = Len(s) + Len(a)
        /\ \A i \in 1..Len(s) : l[i] = s[i]
        /\ \A i \in 1..Len(a) : l[Len(s) + i] = a[i]
    <3>1. a \in Seq(S)
      BY <1>2
    <3>2. l = s \o a
      OBVIOUS
    <3> HIDE DEF l
    <3>3. /\ s \o a \in Seq(S) /\ Len(s \o a) = Len(s) + Len(a)
          /\ \A i \in 1..Len(s) : (s \o a)[i] = s[i]
          /\ \A i \in 1..Len(a) : (s \o a)[Len(s) + i] = a[i]
      BY <3>1, Joined
    <3> QED
      BY <3>2, <3>3, Zenon
  <2> HIDE DEF l
  <2> QED
    BY <1>1, <1>2, <2>1
<1> HIDE DEF l, r
<1>6. ASSUME NEW i \in 1..(m + n + 1) PROVE l[i] = r[i]
  <2>1. CASE i \in 1..m
    <3>1. i \in 1..(m + n)
      BY <2>1
    <3> QED
      BY <1>3, <1>4, <1>5, <2>1, <3>1
  <2>2. CASE i = m + n + 1
    <3>1. l[m + (n + 1)] = a[n + 1] /\ m + (n + 1) = m + n + 1
      BY <1>5
    <3> QED
      BY <1>2, <1>4, <2>2, <3>1
  <2>3. CASE i \notin 1..m /\ i # m + n + 1
    <3>1. PICK j \in 1..n : i = m + j /\ i \in 1..(m + n) /\ j \in 1..(n + 1)
      <4>1. i - m \in 1..n /\ i = m + (i - m) /\ i \in 1..(m + n) /\ i - m \in 1..(n + 1)
        BY <2>3
      <4> QED
        BY <4>1
    <3> QED
      BY <1>2, <1>3, <1>4, <1>5, <3>1
  <2> QED
    BY <2>1, <2>2, <2>3
<1>7. l = r
  BY <1>4, <1>5, <1>6, SameElements
<1> QED
  BY <1>7 DEF l, r, a

LEMMA JoinPopped ==
    ASSUME NEW S, NEW s \in Seq(S), NEW t \in Seq(S), t # <<>>
    PROVE  Append(s, Head(t)) \o Tail(t) = s \o t
<1> DEFINE a == Append(s, Head(t))
           b == Tail(t)
           l == a \o b
           r == s \o t
<1>0. Len(s) \in Nat /\ Len(b) \in Nat /\ Len(t) = Len(b) + 1
  <2>1. Len(b) = Len(t) - 1 /\ Len(t) \in Nat /\ Len(t) > 0
    BY Popped
  <2> HIDE DEF b
  <2> QED
    BY <2>1, Joined
<1>1. PICK m \in Nat, n \in Nat : m = Len(s) /\ n = Len(b) /\ Len(t) = n + 1
  BY <1>0, Zenon
<1>2. t[1] \in S /\ b \in Seq(S) /\ Head(t) = t[1] /\ \A i \in 1..n : b[i] = t[i + 1]
  BY <1>1, Popped
<1>3. a \in Seq(S) /\ Len(a) = m + 1 /\ a[m + 1] = t[1] /\ \A i \in 1..m : a[i] = s[i]
  BY <1>1, <1>2, Appended
<1>4. r \in Seq(S) /\ Len(r) = m + n + 1
      /\ (\A i \in 1..m : r[i] = s[i]) /\ \A i \in 1..(n + 1) : r[m + i] = t[i]
  BY <1>1, Joined
<1> HIDE DEF a, b
<1>5. l \in Seq(S) /\ Len(l) = m + n + 1
      /\ (\A i \in 1..(m + 1) : l[i] = a[i]) /\ \A i \in 1..n : l[m + 1 + i] = b[i]
  <2>1. /\ l \in Seq(S) /\ Len(l) = Len(a) + Len(b)
        /\ \A i \in 1..Len(a) : l[i] = a[i]
        /\ \A i \in 1..Len(b) : l[Len(a) + i] = b[i]
    <3>1. a \in Seq(S) /\ b \in Seq(S)
      BY <1>2, <1>3
    <3>2. l = a \o b
      OBVIOUS
    <3> HIDE DEF l
    <3>3. /\ a \o b \in Seq(S) /\ Len(a \o b) = Len(a) + Len(b)
          /\ \A i \in 1..Len(a) : (a \o b)[i] = a[i]
          /\ \A i \in 1..Len(b) : (a \o b)[Len(a) + i] = b[i]
      BY <3>1, Joined
    <3> QED
      BY <3>2, <3>3, Zenon
  <2> HIDE DEF l
  <2> QED
    BY <1>1, <1>3, <2>1
<1> HIDE DEF l, r
<1>6. ASSUME NEW i \in 1..(m + n + 1) PROVE l[i] = r[i]
  <2>1. CASE i \in 1..m
    <3>1. i \in 1..(m + 1)
      BY <2>1
    <3> QED
      BY <1>3, <1>4, <1>5, <2>1, <3>1
  <2>2. CASE i = m + 1
    BY <1>3, <1>4, <1>5, <2>2
  <2>3. CASE i \notin 1..(m + 1)
    <3>1. PICK j \in 1..n : i = m + 1 + j /\ i = m + (j + 1) /\ j + 1 \in 1..(n + 1)
      <4>1. /\ i - m - 1 \in 1..n /\ i = m + 1 + (i - m - 1)
            /\ i = m + ((i - m - 1) + 1) /\ (i - m - 1) + 1 \in 1..(n + 1)
        BY <2>3
      <4> QED
        BY <4>1
    <3>2. l[m + 1 + j] = b[j] /\ b[j] = t[j + 1] /\ r[m + (j + 1)] = t[j + 1]
      BY <1>2, <1>4, <1>5, <3>1
    <3> QED
      BY <3>1, <3>2
  <2> QED
    BY <2>1, <2>2, <2>3
<1>7. l = r
  BY <1>4, <1>5, <1>6, SameElements
<1> QED
  BY <1>7 DEF l, r, a, b

LEMMA GotAppended ==
    ASSUME StreamTypes, NEW line \in Lines, chan' = Append(chan, line), received' = received
    PROVE  /\ Got \in Seq(Lines) /\ Len(Got) \in Nat /\ Len(Got') = Len(Got) + 1
           /\ Got'[Len(Got) + 1] = line /\ \A i \in 1..Len(Got) : Got'[i] = Got[i]
<1>1. chan \in Seq(Lines) /\ received \in Seq(Lines)
  BY DEF StreamTypes
<1>2. Got \in Seq(Lines)
  BY <1>1, Joined DEF Got
<1>3. Got' = Append(Got, line)
  BY <1>1, JoinAppended DEF Got
<1> QED
  BY <1>2, <1>3, Appended

LEMMA GotReceived ==
    ASSUME StreamTypes, Receive
    PROVE  Got' = Got /\ StreamTypes'
<1>1. /\ chan \in Seq(Lines) /\ received \in Seq(Lines) /\ chan # <<>>
      /\ chan' = Tail(chan) /\ received' = Append(received, Head(chan))
  BY DEF StreamTypes, Receive
<1>2. Got' = Got
  BY <1>1, JoinPopped DEF Got
<1>3. chan' \in Seq(Lines) /\ received' \in Seq(Lines)
  BY <1>1, Popped, Appended
<1>4. StreamTypes'
  BY <1>3 DEF StreamTypes, Receive, streamVars, readVars
<1> QED
  BY <1>2, <1>4
-----------------------------------------------------------------------------
(* What the handler should receive.                                        *)

\* Of a stream whose first p lines do not end it, at least those.
LEMMA ExpectedClean ==
    ASSUME StreamTypes, NEW p \in Nat, p <= Len(said), Clean(p)
    PROVE  \E q \in Nat : p <= q /\ q <= Len(said) /\ Expected = SubSeq(said, 1, q)
<1> DEFINE ending == {i \in DOMAIN said : said[i].kind \in {"done", "fatal", "bad_code"}}
           first == CHOOSE i \in ending : \A j \in ending : i <= j
<1>1. said \in Seq(Lines) /\ Len(said) \in Nat /\ DOMAIN said = 1..Len(said)
  BY DEF StreamTypes
<1>2. CASE ending = {}
  <2>1. Expected = said
    BY <1>2 DEF Expected
  <2>2. said = SubSeq(said, 1, Len(said))
    BY <1>1
  <2>3. Len(said) <= Len(said)
    BY <1>1
  <2> QED
    BY <1>1, <2>1, <2>2, <2>3, Zenon
<1>3. CASE ending # {}
  <2>1. ending \subseteq Nat
    BY <1>1
  <2>2. PICK n \in ending : \A m \in ending : ~(<<m, n>> \in OpToRel(<, Nat))
    BY <1>3, <2>1, NatLessThanWellFounded, WFMin
  <2>3. ASSUME NEW m \in ending
        PROVE  n <= m
    <3>1. m \in Nat /\ n \in Nat
      BY <2>1
    <3>2. m < n => <<m, n>> \in OpToRel(<, Nat)
      BY <3>1 DEF OpToRel
    <3>3. ~(m < n)
      BY <2>2, <3>2, Zenon
    <3> QED
      BY <3>1, <3>3
  <2>4. first \in ending
    <3> HIDE DEF ending
    <3> QED
      BY <2>3
  <2>5. first \in 1..Len(said) /\ ~(first <= p)
    BY <1>1, <2>4 DEF Clean, Stops
  <2>6. Expected = SubSeq(said, 1, IF said[first].kind = "bad_code" THEN first - 1 ELSE first)
    BY <1>3 DEF Expected
  <2> HIDE DEF first
  <2>7. PICK q : q = IF said[first].kind = "bad_code" THEN first - 1 ELSE first
    OBVIOUS
  <2>8. q \in Nat /\ p <= q /\ q <= Len(said)
    BY <1>1, <2>5, <2>7
  <2> QED
    BY <2>6, <2>7, <2>8
<1> QED
  BY <1>2, <1>3

\* When the reading task has stopped, exactly what it has delivered.
LEMMA ExpectedStopped ==
    ASSUME StreamTypes, NEW p \in Nat, p <= Len(said), Stopped(p)
    PROVE  Expected = SubSeq(said, 1, p)
<1> DEFINE ending == {i \in DOMAIN said : said[i].kind \in {"done", "fatal", "bad_code"}}
           first == CHOOSE i \in ending : \A j \in ending : i <= j
<1>1. said \in Seq(Lines) /\ Len(said) \in Nat /\ DOMAIN said = 1..Len(said)
  BY DEF StreamTypes
<1>2. ASSUME NEW n \in 1..Len(said), said[n].kind \in Stops, Clean(n - 1)
      PROVE  ending # {} /\ first = n
  <2>1. n \in ending /\ \A j \in ending : n <= j
    BY <1>1, <1>2 DEF Clean, Stops
  <2>2. \A j \in ending : j \in Nat
    BY <1>1
  <2> HIDE DEF ending
  <2>3. first \in ending /\ first <= n
    BY <2>1
  <2>4. n <= first /\ first \in Nat /\ n \in Nat
    BY <2>1, <2>2, <2>3, Zenon
  <2> HIDE DEF first
  <2> QED
    BY <2>1, <2>3, <2>4
<1>3. CASE p = Len(said) /\ Clean(p)
  <2>1. ending = {}
    BY <1>1, <1>3 DEF Clean, Stops
  <2>2. Expected = said
    BY <2>1 DEF Expected
  <2> QED
    BY <1>1, <1>3, <2>2
<1>4. CASE p > 0 /\ said[p].kind \in {"done", "fatal"} /\ Clean(p - 1)
  <2>1. ending # {} /\ first = p
    BY <1>2, <1>4 DEF Stops
  <2>2. Expected = SubSeq(said, 1, IF said[first].kind = "bad_code" THEN first - 1 ELSE first)
    BY <2>1 DEF Expected
  <2> HIDE DEF first
  <2> QED
    BY <1>4, <2>1, <2>2
<1>5. CASE p < Len(said) /\ said[p + 1].kind = "bad_code" /\ Clean(p)
  <2>1. p + 1 \in 1..Len(said) /\ said[p + 1].kind \in Stops /\ (p + 1) - 1 = p
    BY <1>1, <1>5 DEF Stops
  <2>2. ending # {} /\ first = p + 1
    BY <1>2, <1>5, <2>1
  <2>3. Expected = SubSeq(said, 1, IF said[first].kind = "bad_code" THEN first - 1 ELSE first)
    BY <2>2 DEF Expected
  <2> HIDE DEF first
  <2> QED
    BY <1>5, <2>1, <2>2, <2>3
<1> QED
  BY <1>3, <1>4, <1>5 DEF Stopped

LEMMA FollowingFaithful ==
    ASSUME StreamInv
    PROVE  StreamFaithful
<1> SUFFICES ASSUME rx
             PROVE  /\ IsPrefix(Got, Expected)
                    /\ cpc = "ended" => Got = Expected
  BY DEF StreamFaithful, Got
<1>1. Got \in Seq(Lines) /\ said \in Seq(Lines) /\ Len(said) \in Nat
  BY DEF StreamInv, StreamTypes, Got
<1>2. CASE cpc = "ended"
  <2>1. PICK p \in Nat : Given(p) /\ Stopped(p)
    BY <1>2 DEF StreamInv, Over
  <2>2. Expected = SubSeq(said, 1, p)
    BY <2>1, ExpectedStopped DEF StreamInv, Given
  <2> QED
    BY <1>1, <2>1, <2>2, PrefixOf DEF Given
<1>3. CASE cpc # "ended"
  <2>1. PICK p \in Nat : Given(p) /\ Clean(p)
    <3>1. CASE cpc = "reading"
      BY <3>1 DEF StreamInv, Following
    <3>2. CASE cpc # "reading"
      <4>1. said = <<>> /\ Got = <<>>
        BY <1>3, <3>2 DEF StreamInv, StreamTypes, NoStream, Got
      <4> QED
        BY <4>1 DEF Given, Clean
    <3> QED
      BY <3>1, <3>2
  <2>2. PICK q \in Nat : p <= q /\ q <= Len(said) /\ Expected = SubSeq(said, 1, q)
    BY <2>1, ExpectedClean DEF StreamInv, Given
  <2> QED
    BY <1>1, <1>3, <2>1, <2>2, PrefixOf DEF Given
<1> QED
  BY <1>2, <1>3
-----------------------------------------------------------------------------
(* The steps.                                                              *)

LEMMA InitStream == Init => StreamInv
<1> SUFFICES ASSUME Init PROVE StreamInv
  OBVIOUS
<1>1. /\ cpc = "idle" /\ events = <<>> /\ said = <<>> /\ lines = <<>> /\ chan = <<>> /\ received = <<>>
      /\ taken = 0 /\ rx = TRUE
  BY DEF Init
<1>2. Len(events) = 0 /\ Len(lines) = 0 /\ taken \in 0..Len(events)
  BY <1>1
<1> QED
  BY <1>1, <1>2 DEF StreamInv, StreamTypes, NoStream, Breaks, Following, Over

LEMMA SameStream ==
    ASSUME StreamInv, UNCHANGED <<events, said, lines, taken, rx, cpc>>, Got' = Got
    PROVE  Following' /\ Over'
<1>1. ASSUME NEW p \in Nat
      PROVE  /\ Given(p) => Given(p)'
             /\ Clean(p) => Clean(p)'
             /\ Stopped(p) => Stopped(p)'
             /\ \A start : Placed(start, p) => Placed(start, p)'
  <2>1. Given(p) => Given(p)'
    BY DEF Given
  <2>2. (Clean(p) => Clean(p)') /\ (Stopped(p) => Stopped(p)')
    BY DEF Clean, Stopped
  <2>3. \A start : Placed(start, p) => Placed(start, p)'
    BY DEF Placed
  <2> QED
    BY <2>1, <2>2, <2>3
<1> QED
  BY <1>1, Zenon DEF StreamInv, Following, Over

\* Steps that do not touch the stream, the one that opens it among them.
LEMMA QuietStream ==
    ASSUME StreamInv, UNCHANGED <<events, said, lines, taken, chan, received, rx>>,
           \/ cpc' = cpc
           \/ /\ cpc \in {"idle", "post", "backoff"}
              /\ cpc' \in {"post", "backoff", "reading", "ended"}
    PROVE  StreamInv'
<1>1. StreamTypes' /\ NoStream' /\ Breaks'
  BY DEF StreamInv, StreamTypes, NoStream, Breaks
<1>2. CASE cpc' = cpc
  <2>1. Got' = Got
    BY DEF Got
  <2> QED
    BY <1>1, <1>2, <2>1, SameStream DEF StreamInv
<1>3. CASE cpc \in {"idle", "post", "backoff"}
  <2>1. /\ events' = <<>> /\ said' = <<>> /\ lines' = <<>> /\ chan' = <<>> /\ received' = <<>> /\ taken' = 0
    BY <1>3 DEF StreamInv, NoStream
  <2>2. /\ Len(events') = 0 /\ Len(said') = 0 /\ Len(lines') = 0 /\ Len(Got') = 0
    BY <2>1 DEF Got
  <2>3. Given(0)' /\ Clean(0)' /\ Stopped(0)'
    BY <2>2 DEF Given, Clean, Stopped
  <2>4. Placed([i \in {1} |-> 0], 0)'
    <3>1. 1..(Len(events') + 1) = {1} /\ 1..Len(events') = {} /\ 1..Len(lines') = {}
      BY <2>2
    <3> QED
      BY <2>1, <2>2, <3>1 DEF Placed
  <2>5. Following' /\ Over'
    BY <2>3, <2>4, Zenon DEF Following, Over
  <2> QED
    BY <1>1, <2>5 DEF StreamInv
<1> QED
  BY <1>2, <1>3

LEMMA ReceiveStream ==
    ASSUME StreamInv, Receive
    PROVE  StreamInv'
<1>1. Got' = Got /\ StreamTypes'
  BY GotReceived DEF StreamInv
<1>2. UNCHANGED <<events, said, lines, taken, cpc, rx>> /\ cpc \notin {"idle", "post", "backoff"}
  BY DEF Receive, streamVars, readVars, StreamInv, NoStream
<1>3. NoStream' /\ Breaks'
  BY <1>2 DEF StreamInv, NoStream, Breaks
<1>4. Following' /\ Over'
  BY <1>1, <1>2, SameStream
<1> QED
  BY <1>1, <1>3, <1>4 DEF StreamInv

LEMMA LeaveStream ==
    ASSUME StreamInv, CallerLeaves
    PROVE  StreamInv'
<1>1. /\ UNCHANGED <<events, said, lines, taken, chan, received>> /\ rx' = FALSE
      /\ cpc' = IF cpc = "reading" THEN cpc ELSE "ended"
  BY DEF CallerLeaves, streamVars, readVars
<1>2. StreamTypes' /\ NoStream' /\ Breaks'
  BY <1>1 DEF StreamInv, StreamTypes, NoStream, Breaks
<1> QED
  BY <1>1, <1>2 DEF StreamInv, Following, Over

LEMMA EndStream ==
    ASSUME StreamInv, EndOfStream
    PROVE  StreamInv'
<1>1. /\ UNCHANGED <<events, said, lines, taken, chan, received, rx>> /\ cpc = "reading" /\ cpc' = "ended"
      /\ lines = <<>> /\ taken = Len(events)
  BY DEF EndOfStream, streamVars, readVars, handVars
<1>2. StreamTypes' /\ NoStream' /\ Breaks' /\ Following'
  BY <1>1 DEF StreamInv, StreamTypes, NoStream, Breaks, Following
<1>3. ASSUME rx PROVE \E p \in Nat : Given(p)' /\ Stopped(p)'
  <2>1. PICK p \in Nat : Given(p) /\ Clean(p) /\ \E start : Placed(start, p)
    BY <1>1, <1>3 DEF StreamInv, Following
  <2>2. PICK start : Placed(start, p)
    BY <2>1
  <2>3. p = Len(said)
    <3>1. start[Len(events) + 1] = Len(said) /\ start[taken + 1] = p + Len(lines)
      BY <2>2 DEF Placed
    <3>2. Len(lines) = 0
      BY <1>1
    <3> QED
      BY <1>1, <3>1, <3>2
  <2> QED
    BY <1>1, <2>1, <2>3 DEF Given, Stopped, Clean, Got
<1> QED
  BY <1>1, <1>2, <1>3 DEF StreamInv, Over

\* The lines still to be handled are the next ones of the stream.
LEMMA NextLines ==
    ASSUME StreamTypes, NEW p \in Nat, NEW start, Placed(start, p)
    PROVE  /\ Len(lines) \in Nat /\ p + Len(lines) <= Len(said) /\ Len(said) \in Nat
           /\ taken + 1 \in 1..(Len(events) + 1) /\ start[taken + 1] = p + Len(lines)
           /\ \A j \in 1..Len(lines) : lines[j] = said[p + j]
<1>1. Len(lines) \in Nat /\ Len(said) \in Nat /\ Len(events) \in Nat
  BY DEF StreamTypes
<1>2. taken + 1 \in 1..(Len(events) + 1)
  BY <1>1 DEF StreamTypes
<1> QED
  BY <1>1, <1>2 DEF Placed

\* One more line has been delivered.
LEMMA OneMore ==
    ASSUME StreamTypes, NEW p \in Nat, Given(p), p < Len(said), said' = said,
           NEW line \in Lines, line = said[p + 1], chan' = Append(chan, line), received' = received
    PROVE  Given(p + 1)'
<1>1. /\ Len(Got) = p /\ Len(Got') = p + 1 /\ Got'[p + 1] = said[p + 1]
      /\ \A i \in 1..p : Got'[i] = said[i]
  BY GotAppended DEF Given
<1>2. Len(said) \in Nat
  BY DEF StreamTypes
<1>3. ASSUME NEW i \in 1..(p + 1) PROVE Got'[i] = said[i]
  <2>1. i \in 1..p \/ i = p + 1
    OBVIOUS
  <2> QED
    BY <1>1, <2>1
<1> QED
  BY <1>1, <1>2, <1>3 DEF Given

LEMMA NextEventStream ==
    ASSUME StreamInv, NextEvent
    PROVE  StreamInv'
<1> DEFINE e == events[taken + 1]
<1>1. /\ cpc = "reading" /\ lines = <<>> /\ taken < Len(events) /\ taken' = taken + 1
      /\ UNCHANGED <<events, said, received, rx>>
  BY DEF NextEvent, streamVars, handVars
<1>2. /\ Len(events) \in Nat /\ taken \in Nat /\ taken + 1 \in 1..Len(events) /\ Len(lines) = 0
      /\ taken' \in 0..Len(events)
  BY <1>1 DEF StreamInv, StreamTypes
<1>3. e.name \in {"data", "broken", "png", "err"} /\ e.data \in Seq(Lines)
  <2>1. events \in Seq([name : {"data", "broken", "png", "err"}, data : Seq(Lines)])
    BY DEF StreamInv, StreamTypes
  <2>2. events[taken + 1] \in [name : {"data", "broken", "png", "err"}, data : Seq(Lines)]
    BY <1>2, <2>1, ElementOf
  <2> QED
    BY <2>2
<1>4. CASE e.name \in {"broken", "err"}
  <2>1. cpc' = "ended" /\ lines' = lines /\ chan' = (IF rx THEN Append(chan, Head(e.data)) ELSE chan)
    BY <1>4 DEF NextEvent, Deliver
  <2>2. Len(e.data) = 1 /\ e.data[1].kind = "fatal"
    BY <1>2, <1>4 DEF StreamInv, Breaks
  <2>3. Head(e.data) = e.data[1] /\ e.data[1] \in Lines
    BY <1>3, <2>2
  <2>4. chan' \in Seq(Lines)
    BY <2>1, <2>3, Appended DEF StreamInv, StreamTypes
  <2>5. StreamTypes' /\ NoStream' /\ Breaks' /\ Following'
    <3> HIDE DEF e
    <3>1. StreamTypes'
      BY <1>1, <1>2, <2>1, <2>4 DEF StreamInv, StreamTypes
    <3>2. Breaks'
      BY <1>1, <2>1 DEF StreamInv, Breaks
    <3>3. NoStream' /\ Following'
      BY <2>1 DEF NoStream, Following
    <3> QED
      BY <3>1, <3>2, <3>3
  <2>6. ASSUME rx PROVE \E p \in Nat : Given(p)' /\ Stopped(p)'
    <3>1. PICK p \in Nat : Given(p) /\ Clean(p) /\ \E start : Placed(start, p)
      BY <1>1, <2>6 DEF StreamInv, Following
    <3>2. PICK start : Placed(start, p)
      BY <3>1
    <3>3. start[taken + 1] = p + Len(lines) /\ e.data[1] = said[start[taken + 1] + 1]
          /\ start[(taken + 1) + 1] = start[taken + 1] + Len(e.data)
      <4>1. 1 \in 1..Len(e.data)
        BY <2>2
      <4> QED
        BY <1>2, <3>2, <4>1 DEF Placed
    <3>4. e.data[1] = said[p + 1] /\ start[(taken + 1) + 1] = p + 1
      BY <1>2, <2>2, <3>3
    <3>5. p < Len(said)
      <4>1. (taken + 1) + 1 \in 1..(Len(events) + 1)
        BY <1>2
      <4>2. start[(taken + 1) + 1] <= Len(said) /\ Len(said) \in Nat
        BY <3>2, <4>1 DEF Placed, StreamInv, StreamTypes
      <4> QED
        BY <3>4, <4>2
    <3>6. Given(p + 1)'
      BY <1>1, <2>1, <2>3, <2>6, <3>1, <3>4, <3>5, OneMore DEF StreamInv
    <3>7. Clean(p)' /\ (p + 1) - 1 = p /\ p + 1 > 0 /\ p + 1 \in Nat
      BY <1>1, <3>1 DEF Clean
    <3>8. Stopped(p + 1)'
      BY <1>1, <2>2, <3>4, <3>7 DEF Stopped
    <3> QED
      BY <3>6, <3>7, <3>8
  <2> QED
    BY <1>1, <2>1, <2>5, <2>6 DEF StreamInv, Over
<1>5. CASE e.name \notin {"broken", "err"}
  <2>1. lines' = e.data /\ chan' = chan /\ cpc' = cpc
    BY <1>5 DEF NextEvent
  <2>2. \A j \in 1..Len(e.data) : e.data[j].kind # "fatal"
    BY <1>2, <1>5 DEF StreamInv, Breaks
  <2>3. StreamTypes' /\ NoStream' /\ Over'
    BY <1>1, <1>2, <1>3, <2>1 DEF StreamInv, StreamTypes, NoStream, Over
  <2>4. Breaks'
    BY <1>1, <2>1, <2>2 DEF StreamInv, Breaks
  <2>5. ASSUME rx PROVE \E p \in Nat : Given(p)' /\ Clean(p)' /\ \E start : Placed(start, p)'
    <3>1. PICK p \in Nat : Given(p) /\ Clean(p) /\ \E start : Placed(start, p)
      BY <1>1, <2>5 DEF StreamInv, Following
    <3>2. PICK start : Placed(start, p)
      BY <3>1
    <3>3. /\ start[taken + 1] = p + Len(lines) /\ \A j \in 1..Len(e.data) : e.data[j] = said[start[taken + 1] + j]
          /\ start[(taken + 1) + 1] = start[taken + 1] + Len(e.data)
      BY <1>2, <3>2 DEF Placed
    <3>4. start[taken' + 1] = p + Len(lines') /\ \A j \in 1..Len(lines') : lines'[j] = said[p + j]
      BY <1>1, <1>2, <2>1, <3>3
    <3>5. Placed(start, p)'
      BY <1>1, <3>2, <3>4 DEF Placed
    <3>6. Given(p)' /\ Clean(p)'
      BY <1>1, <2>1, <3>1 DEF Given, Clean, Got
    <3> QED
      BY <3>5, <3>6
  <2> QED
    BY <1>1, <2>1, <2>3, <2>4, <2>5 DEF StreamInv, Following
<1> QED
  BY <1>4, <1>5

LEMMA HandleLineStream ==
    ASSUME StreamInv, HandleLine
    PROVE  StreamInv'
<1> DEFINE line == Head(lines)
<1>1. /\ cpc = "reading" /\ lines # <<>> /\ lines' = Tail(lines)
      /\ UNCHANGED <<events, said, taken, received, rx>>
      /\ cpc' = IF Ends(line) THEN "ended" ELSE cpc
      /\ chan' = IF line.kind # "bad_code" /\ rx THEN Append(chan, line) ELSE chan
  BY DEF HandleLine, Deliver, streamVars, handVars
<1>2. lines \in Seq(Lines) /\ chan \in Seq(Lines) /\ said \in Seq(Lines)
  BY DEF StreamInv, StreamTypes
<1>3. /\ lines' \in Seq(Lines) /\ Len(lines') = Len(lines) - 1 /\ Len(lines) \in Nat /\ Len(lines) > 0
      /\ line = lines[1] /\ line \in Lines /\ \A i \in 1..(Len(lines) - 1) : lines'[i] = lines[i + 1]
  BY <1>1, <1>2, Popped
<1>4. chan' \in Seq(Lines)
  <2> HIDE DEF line
  <2> QED
    BY <1>1, <1>2, <1>3, Appended
<1>5. StreamTypes' /\ NoStream'
  <2>1. cpc' \in {"reading", "ended"}
    BY <1>1
  <2> QED
    BY <1>1, <1>3, <1>4, <2>1 DEF StreamInv, StreamTypes, NoStream
<1>6. Breaks' /\ line.kind # "fatal"
  <2>1. \A j \in 1..Len(lines) : lines[j].kind # "fatal"
    BY DEF StreamInv, Breaks
  <2>2. line.kind # "fatal"
    BY <1>3, <2>1
  <2>3. ASSUME NEW j \in 1..Len(lines') PROVE lines'[j].kind # "fatal"
    <3>1. j \in 1..(Len(lines) - 1) /\ j + 1 \in 1..Len(lines)
      BY <1>3
    <3> QED
      BY <1>3, <2>1, <3>1
  <2> QED
    BY <1>1, <2>2, <2>3 DEF StreamInv, Breaks
<1>7. ASSUME rx
      PROVE  IF Ends(line) THEN \E p \in Nat : Given(p)' /\ Stopped(p)'
             ELSE \E p \in Nat : Given(p)' /\ Clean(p)' /\ \E start : Placed(start, p)'
  <2>1. PICK p \in Nat : Given(p) /\ Clean(p) /\ \E start : Placed(start, p)
    BY <1>1, <1>7 DEF StreamInv, Following
  <2>2. PICK start : Placed(start, p)
    BY <2>1
  <2>3. /\ p + Len(lines) <= Len(said) /\ Len(said) \in Nat /\ start[taken + 1] = p + Len(lines)
        /\ \A j \in 1..Len(lines) : lines[j] = said[p + j]
    BY <2>2, NextLines DEF StreamInv
  <2>4. line = said[p + 1] /\ p < Len(said)
    BY <1>3, <2>3
  <2>5. Clean(p)' /\ (p + 1) - 1 = p /\ p + 1 > 0 /\ p + 1 \in Nat
    BY <1>1, <2>1 DEF Clean
  <2> HIDE DEF line
  <2>6. CASE line.kind = "bad_code"
    <3>1. Given(p)'
      BY <1>1, <2>1, <2>6 DEF Given, Got
    <3>2. Stopped(p)'
      BY <1>1, <2>4, <2>5, <2>6 DEF Stopped
    <3> QED
      BY <2>6, <3>1, <3>2 DEF Ends
  <2>7. CASE line.kind # "bad_code"
    <3>1. Given(p + 1)'
      BY <1>1, <1>3, <1>7, <2>1, <2>4, <2>7, OneMore DEF StreamInv
    <3>2. CASE line.kind = "done"
      <4>1. Stopped(p + 1)'
        BY <1>1, <2>4, <2>5, <3>2 DEF Stopped
      <4> QED
        BY <2>5, <3>1, <3>2, <4>1 DEF Ends
    <3>3. CASE line.kind # "done"
      <4>1. Clean(p + 1)'
        <5>1. ASSUME NEW i \in 1..(p + 1) PROVE said[i].kind \notin Stops
          <6>1. CASE i \in 1..p
            BY <2>1, <6>1 DEF Clean
          <6>2. CASE i \notin 1..p
            <7>1. i = p + 1
              BY <6>2
            <7> QED
              BY <1>6, <2>4, <2>7, <3>3, <7>1 DEF Stops
          <6> QED
            BY <6>1, <6>2
        <5> QED
          BY <1>1, <5>1 DEF Clean
      <4>2. Placed(start, p + 1)'
        <5>1. start[taken + 1] = (p + 1) + Len(lines')
          BY <1>3, <2>3
        <5>2. ASSUME NEW j \in 1..Len(lines') PROVE lines'[j] = said[(p + 1) + j]
          <6>1. j \in 1..(Len(lines) - 1) /\ j + 1 \in 1..Len(lines) /\ p + (j + 1) = (p + 1) + j
            BY <1>3
          <6>2. lines'[j] = lines[j + 1] /\ lines[j + 1] = said[p + (j + 1)]
            BY <1>3, <2>3, <6>1
          <6> QED
            BY <6>1, <6>2
        <5> QED
          BY <1>1, <2>2, <5>1, <5>2 DEF Placed
      <4>3. ~Ends(line)
        BY <2>7, <3>3 DEF Ends
      <4> QED
        BY <2>5, <3>1, <4>1, <4>2, <4>3
    <3> QED
      BY <3>2, <3>3
  <2> QED
    BY <2>6, <2>7
<1>8. Following' /\ Over'
  <2> HIDE DEF line
  <2> QED
    BY <1>1, <1>7 DEF Following, Over
<1> QED
  BY <1>5, <1>6, <1>8 DEF StreamInv

\* The service says more: what was placed stays where it was, and the new event
\* comes after it.
LEMMA PlacedMore ==
    ASSUME StreamTypes, NEW p \in Nat, NEW start, Placed(start, p),
           NEW data \in Seq(Lines), NEW name \in {"data", "broken", "png", "err"},
           events' = Append(events, Event(name, data)), said' = said \o data,
           UNCHANGED <<taken, lines>>
    PROVE  \E more : Placed(more, p)'
<1>1. PICK m \in Nat, n \in Nat, d \in Nat : m = Len(events) /\ n = Len(said) /\ d = Len(data)
  BY DEF StreamTypes
<1>2. /\ Len(events') = m + 1 /\ events'[m + 1] = Event(name, data)
      /\ \A i \in 1..m : events'[i] = events[i]
  <2>1. Event(name, data) \in [name : {"data", "broken", "png", "err"}, data : Seq(Lines)]
    BY DEF Event
  <2> QED
    BY <1>1, <2>1, Appended DEF StreamTypes
<1>3. /\ Len(said') = n + d /\ (\A i \in 1..n : said'[i] = said[i])
      /\ \A i \in 1..d : said'[n + i] = data[i]
  BY <1>1, Joined DEF StreamTypes
<1>4. /\ start \in [1..(m + 1) -> Nat] /\ start[m + 1] = n /\ \A i \in 1..(m + 1) : start[i] <= n
      /\ \A i \in 1..m : /\ start[i + 1] = start[i] + Len(events[i].data)
                        /\ \A j \in 1..Len(events[i].data) : events[i].data[j] = said[start[i] + j]
      /\ start[taken + 1] = p + Len(lines)
      /\ \A j \in 1..Len(lines) : lines[j] = said[p + j]
  BY <1>1 DEF Placed
<1>5. taken \in 0..m /\ Len(lines) \in Nat /\ p + Len(lines) <= n
  BY <1>1, NextLines DEF StreamTypes
<1> DEFINE more == [i \in 1..(m + 2) |-> IF i = m + 2 THEN n + d ELSE start[i]]
<1>6. /\ more \in [1..(m + 2) -> Nat] /\ more[m + 2] = n + d /\ more[m + 1] = n
      /\ \A i \in 1..(m + 1) : more[i] = start[i]
  BY <1>4
<1> HIDE DEF more
<1>7. ASSUME NEW i \in 1..(m + 1)
      PROVE  /\ more[i + 1] = more[i] + Len(events'[i].data)
             /\ \A j \in 1..Len(events'[i].data) : events'[i].data[j] = said'[more[i] + j]
  <2>1. CASE i = m + 1
    <3>1. events'[i].data = data
      BY <1>2, <2>1 DEF Event
    <3>2. more[i] = n /\ more[i + 1] = n + d
      BY <1>6, <2>1
    <3> QED
      BY <1>1, <1>3, <3>1, <3>2
  <2>2. CASE i # m + 1
    <3>1. i \in 1..m /\ i + 1 \in 1..(m + 1)
      BY <2>2
    <3>2. events'[i] = events[i] /\ more[i] = start[i] /\ more[i + 1] = start[i + 1]
      BY <1>2, <1>6, <3>1
    <3>3. start[i + 1] = start[i] + Len(events[i].data) /\ start[i + 1] <= n /\ start[i] \in Nat
          /\ \A j \in 1..Len(events[i].data) : events[i].data[j] = said[start[i] + j]
      BY <1>4, <3>1
    <3>4. Len(events[i].data) \in Nat
      <4>1. events[i] \in [name : {"data", "broken", "png", "err"}, data : Seq(Lines)]
        BY <1>1, <3>1, ElementOf DEF StreamTypes
      <4> QED
        BY <4>1
    <3>5. ASSUME NEW j \in 1..Len(events[i].data) PROVE events[i].data[j] = said'[start[i] + j]
      <4>1. start[i] + j \in 1..n
        BY <3>3, <3>4
      <4> QED
        BY <1>3, <3>3, <4>1
    <3> QED
      BY <3>2, <3>3, <3>5
  <2> QED
    BY <2>1, <2>2
<1>8. ASSUME NEW j \in 1..Len(lines') PROVE lines'[j] = said'[p + j]
  <2>1. j \in 1..Len(lines) /\ p + j \in 1..n
    BY <1>5
  <2> QED
    BY <1>3, <1>4, <2>1
<1>9. more[taken' + 1] = p + Len(lines')
  <2>1. taken + 1 \in 1..(m + 1)
    BY <1>5
  <2> QED
    BY <1>4, <1>6, <2>1
<1>10. ASSUME NEW i \in 1..(m + 2) PROVE more[i] <= n + d
  <2>1. CASE i = m + 2
    BY <1>6, <2>1
  <2>2. CASE i # m + 2
    <3>1. i \in 1..(m + 1)
      BY <2>2
    <3>2. more[i] <= n /\ more[i] \in Nat
      BY <1>4, <1>6, <3>1
    <3> QED
      BY <3>2
  <2> QED
    BY <2>1, <2>2
<1>11. Len(events') + 1 = m + 2 /\ Len(events') = m + 1 /\ Len(said') = n + d
  BY <1>2, <1>3
<1>12. Placed(more, p)'
  BY <1>6, <1>7, <1>8, <1>9, <1>10, <1>11 DEF Placed
<1> QED
  BY <1>12

LEMMA SendsStream ==
    ASSUME StreamInv, cpc = "reading", UNCHANGED <<cpc, taken, lines, chan, received, rx>>,
           NEW data \in Seq(Lines), NEW name \in {"data", "broken", "png", "err"},
           events' = Append(events, Event(name, data)), said' = said \o data,
           IF name \in {"broken", "err"} THEN Len(data) = 1 /\ data[1].kind = "fatal"
           ELSE \A j \in 1..Len(data) : data[j].kind # "fatal"
    PROVE  StreamInv'
<1>1. PICK m \in Nat, n \in Nat : m = Len(events) /\ n = Len(said)
  BY DEF StreamInv, StreamTypes
<1>2. Event(name, data) \in [name : {"data", "broken", "png", "err"}, data : Seq(Lines)]
  BY DEF Event
<1>3. /\ events' \in Seq([name : {"data", "broken", "png", "err"}, data : Seq(Lines)])
      /\ Len(events') = m + 1 /\ events'[m + 1] = Event(name, data)
      /\ \A i \in 1..m : events'[i] = events[i]
  BY <1>1, <1>2, Appended DEF StreamInv, StreamTypes
<1>4. said' \in Seq(Lines) /\ Len(said') = n + Len(data) /\ Len(data) \in Nat /\ \A i \in 1..n : said'[i] = said[i]
  BY <1>1, Joined DEF StreamInv, StreamTypes
<1>5. StreamTypes' /\ NoStream' /\ Over'
  <2>1. taken \in 0..(m + 1)
    BY <1>1 DEF StreamInv, StreamTypes
  <2> QED
    BY <1>3, <1>4, <2>1 DEF StreamInv, StreamTypes, NoStream, Over
<1>6. Breaks'
  <2>1. events'[m + 1].name = name /\ events'[m + 1].data = data
    BY <1>3 DEF Event
  <2>2. ASSUME NEW i \in 1..(m + 1)
        PROVE  IF events'[i].name \in {"broken", "err"}
               THEN Len(events'[i].data) = 1 /\ events'[i].data[1].kind = "fatal"
               ELSE \A j \in 1..Len(events'[i].data) : events'[i].data[j].kind # "fatal"
    <3>1. CASE i = m + 1
      BY <2>1, <3>1
    <3>2. CASE i # m + 1
      <4>1. i \in 1..m
        BY <3>2
      <4>2. events'[i] = events[i]
        BY <1>3, <4>1
      <4> QED
        BY <1>1, <4>1, <4>2 DEF StreamInv, Breaks
    <3> QED
      BY <3>1, <3>2
  <2> QED
    BY <1>3, <2>2 DEF StreamInv, Breaks
<1>7. ASSUME rx PROVE \E p \in Nat : Given(p)' /\ Clean(p)' /\ \E start : Placed(start, p)'
  <2>1. PICK p \in Nat : Given(p) /\ Clean(p) /\ \E start : Placed(start, p)
    BY <1>7 DEF StreamInv, Following
  <2>2. PICK start : Placed(start, p)
    BY <2>1
  <2>3. \E more : Placed(more, p)'
    BY <2>2, PlacedMore DEF StreamInv
  <2>4. p <= n /\ \A i \in 1..p : said'[i] = said[i]
    BY <1>1, <1>4, <2>1 DEF Given
  <2>5. Given(p)'
    BY <1>4, <2>1, <2>4 DEF Given, Got
  <2>6. Clean(p)'
    BY <2>1, <2>4 DEF Clean
  <2> QED
    BY <2>3, <2>5, <2>6
<1> QED
  BY <1>5, <1>6, <1>7 DEF StreamInv, Following

LEMMA ServiceSendsStream ==
    ASSUME StreamInv, ServiceSends
    PROVE  StreamInv'
<1> DEFINE n == Len(said) + 1
           sends(name, data) == events' = Append(events, Event(name, data)) /\ said' = said \o data
<1>1. n \in Nat
  BY DEF StreamInv, StreamTypes
<1>2. cpc = "reading" /\ UNCHANGED <<cpc, taken, lines, chan, received, rx>>
  BY DEF ServiceSends, readVars, handVars
<1>3. \/ \E k \in LineKinds : sends("data", <<Line(k, n)>>)
      \/ sends("broken", <<Line("fatal", n)>>)
      \/ sends("png", <<>>)
      \/ sends("err", <<Line("fatal", n)>>)
      \/ \E k, l \in LineKinds : sends("data", <<Line(k, n), Line(l, n + 1)>>)
  BY Zenon DEF ServiceSends
<1> HIDE DEF n
<1>4. ASSUME NEW k \in LineKinds, NEW i \in Nat
      PROVE  Line(k, i) \in Lines /\ Line(k, i).kind # "fatal"
  BY DEF Line, Lines, LineKinds
<1>5. Line("fatal", n) \in Lines /\ Line("fatal", n).kind = "fatal"
  BY <1>1 DEF Line, Lines
<1>6. ASSUME NEW k \in LineKinds, sends("data", <<Line(k, n)>>) PROVE StreamInv'
  <2> DEFINE data == <<Line(k, n)>>
  <2>1. data \in Seq(Lines) /\ \A j \in 1..Len(data) : data[j].kind # "fatal"
    BY <1>1, <1>4
  <2> HIDE DEF data
  <2> QED
    BY <1>2, <1>6, <2>1, SendsStream DEF data
<1>7. ASSUME NEW name \in {"broken", "err"}, sends(name, <<Line("fatal", n)>>) PROVE StreamInv'
  <2> DEFINE data == <<Line("fatal", n)>>
  <2>1. data \in Seq(Lines) /\ Len(data) = 1 /\ data[1].kind = "fatal"
    BY <1>5
  <2>2. sends(name, data)
    BY <1>7
  <2> HIDE DEF data
  <2> QED
    BY <1>2, <2>1, <2>2, SendsStream
<1>8. ASSUME sends("png", <<>>) PROVE StreamInv'
  <2>1. <<>> \in Seq(Lines) /\ 1..Len(<<>>) = {}
    OBVIOUS
  <2> QED
    BY <1>2, <1>8, <2>1, SendsStream
<1>9. ASSUME NEW k \in LineKinds, NEW l \in LineKinds, sends("data", <<Line(k, n), Line(l, n + 1)>>)
      PROVE  StreamInv'
  <2> DEFINE data == <<Line(k, n), Line(l, n + 1)>>
  <2>1. Line(k, n) \in Lines /\ Line(k, n).kind # "fatal" /\ Line(l, n + 1) \in Lines /\ Line(l, n + 1).kind # "fatal"
    <3>1. n + 1 \in Nat
      BY <1>1
    <3> QED
      BY <1>1, <1>4, <3>1
  <2>2. data \in Seq(Lines) /\ \A j \in 1..Len(data) : data[j].kind # "fatal"
    BY <2>1
  <2>3. sends("data", data)
    BY <1>9
  <2> HIDE DEF data
  <2> QED
    BY <1>2, <2>2, <2>3, SendsStream
<1> QED
  BY <1>3, <1>6, <1>7, <1>8, <1>9, Zenon

LEMMA StepStream == ASSUME StreamInv, [Next]_vars PROVE StreamInv'
<1>1. CASE ServerAlone
  BY <1>1, QuietStream DEF ServerAlone, callVars, streamVars, readVars, handVars
<1>2. CASE Requesting
  <2>1. UNCHANGED <<events, said, lines, taken, chan, received, rx>>
    BY <1>2, Zenon DEF Requesting, StartCall, Attempt, Backoff, streamVars, readVars, handVars
  <2>2. cpc \in {"idle", "post", "backoff"} /\ cpc' \in {"post", "backoff", "reading", "ended"}
    <3>1. ASSUME NEW c \in Conns, NEW id \in DOMAIN clients, NEW stream \in BOOLEAN, StartCall(c, id, stream)
          PROVE  cpc = "idle" /\ cpc' = "post"
      BY <3>1 DEF StartCall
    <3>2. Attempt => cpc = "post" /\ cpc' \in {"backoff", "reading", "ended"}
      BY DEF Attempt
    <3>3. Backoff => cpc = "backoff" /\ cpc' = "post"
      BY DEF Backoff
    <3> QED
      BY <1>2, <3>1, <3>2, <3>3, Zenon DEF Requesting
  <2> QED
    BY <2>1, <2>2, QuietStream
<1>3. CASE ServiceCloses
  BY <1>3, QuietStream DEF ServiceCloses, readVars, handVars
<1>4. CASE Reader
  BY <1>4, NextEventStream, HandleLineStream, EndStream DEF Reader
<1>5. CASE UNCHANGED vars
  BY <1>5, QuietStream DEF vars, callVars, streamVars, readVars, handVars
<1> QED
  BY <1>1, <1>2, <1>3, <1>4, <1>5, ServiceSendsStream, ReceiveStream, LeaveStream, Zenon DEF Next

\* The channel between the reading task and the handler loses, repeats and
\* reorders nothing, and nothing follows the end of the stream, for every length
\* of the stream and every capacity of the channel (handle_streaming,
\* handle_stream_with_body).
THEOREM StreamAlwaysFaithful == Spec => []StreamFaithful
<1>1. Init => StreamInv
  BY InitStream
<1>2. StreamInv /\ [Next]_vars => StreamInv'
  BY StepStream
<1>3. StreamInv => StreamFaithful
  BY FollowingFaithful
<1> QED
  BY <1>1, <1>2, <1>3, PTL DEF Spec
=============================================================================

------------------------------- MODULE Server -------------------------------
(***************************************************************************)
(* The life of the process: main loads and validates the configuration,    *)
(* creates a client for every service, asks for their health, binds the    *)
(* two servers, accepts connections and shuts down on a signal.            *)
(*                                                                         *)
(* A service is a record: host ("valid", "odd": it parses as a URL but is  *)
(* no hostname of RFC 1123, "bad": it does not parse) and tls ("none",     *)
(* "name": a reference to the tls section, "pair": certificate and key,    *)
(* "cert": no key, "empty": neither, "unreadable").  A configuration:      *)
(*   services    a function from <<role, id>> to services                  *)
(*   chunker_id  a function from detectors to chunkers                     *)
(*   tls         what the referenced name means: a TLS value, "unknown"    *)
(*               when the section does not have it, "no section"           *)
(*   provider    of the generation service, "tgis" or "nlp"                *)
(*   router      "off", "on" or "bad host"                                 *)
(*   supported   supported_detectors of the router: each entry stands for  *)
(*               the set of detector ids that contain it                   *)
(*   server_tls  of the command line: "off", "on", "half" (a certificate   *)
(*               without a key, or the like) or "bad" (bad files)          *)
(*   health_check  of the command line                                     *)
(***************************************************************************)
EXTENDS Integers, Sequences, FiniteSets

CONSTANTS
    Configs,     \* the configurations considered
    Conns,       \* connections to the guardrails server
    HealthConns  \* connections to the health server

ASSUME ConnsAssumption == Conns \cap HealthConns = {}

\* Configurations are records, services functions from pairs of a role and an id
\* to records; a TLS configuration of the tls section is never a name again.
ASSUME ConfigAssumption ==
    \A c \in Configs :
        /\ c = [services |-> c.services, chunker_id |-> c.chunker_id, tls |-> c.tls, provider |-> c.provider,
                router |-> c.router, supported |-> c.supported, server_tls |-> c.server_tls,
                health_check |-> c.health_check]
        /\ c.services = [p \in DOMAIN c.services |-> [host |-> c.services[p].host, tls |-> c.services[p].tls]]
        /\ \A p \in DOMAIN c.services : p = <<p[1], p[2]>>
        /\ c.tls # "name"

VARIABLES
    config,     \* the configuration
    phase,      \* where main is; "error" and "panic" end the process
    clients,    \* the ClientMap: ids to clients
    left,       \* services without a client yet, or clients still to be asked
    conns       \* the connections of the two servers

serverVars == <<config, phase, clients, left, conns>>

whole_doc_chunker == "whole_doc_chunker"

Services(role) == {p \in DOMAIN config.services : p[1] = role}
Detectors == {p[2] : p \in Services("detector")}
AllConns == Conns \cup HealthConns
Serving == phase \in {"serving", "stopping"}

ServerInit ==
    /\ config \in Configs
    /\ phase = IF config.server_tls = "half" THEN "panic" ELSE "load"
    /\ clients = <<>> /\ left = {}
    /\ conns = [c \in AllConns |-> "none"]
-----------------------------------------------------------------------------
(* Loading.                                                                *)

\* Health services are not among the services whose TLS names are looked up.
Resolved == {"generation", "openai", "chunker", "detector"}

\* Mutant: chunkers are forgotten.
ApplyWithoutChunkers ==
    [p \in DOMAIN config.services |->
        IF config.tls # "no section" /\ p[1] \in Resolved \ {"chunker"} /\ config.services[p].tls = "name"
        THEN [config.services[p] EXCEPT !.tls = config.tls] ELSE config.services[p]]

apply_named_tls_configs ==
    IF config.tls = "no section" THEN config.services
    ELSE [p \in DOMAIN config.services |->
            IF p[1] \in Resolved /\ config.services[p].tls = "name"
            THEN [config.services[p] EXCEPT !.tls = config.tls]
            ELSE config.services[p]]

validate_hostnames == \A p \in DOMAIN config.services : p[1] \in Resolved => config.services[p].host = "valid"

AnyChunker == TRUE  \* mutant: the chunker of a detector is not looked up

validate_detector_chunkers ==
    \A d \in Detectors :
        config.chunker_id[d] = whole_doc_chunker \/ <<"chunker", config.chunker_id[d]>> \in DOMAIN config.services

validate == Detectors # {} /\ validate_hostnames /\ validate_detector_chunkers

Load ==
    LET services == apply_named_tls_configs
        ok == validate /\ \A p \in DOMAIN services : services[p].tls # "unknown"
    IN  /\ phase = "load"
        /\ config' = [config EXCEPT !.services = services]
        /\ phase' = IF ok THEN "create" ELSE "error"
        /\ left' = {p \in DOMAIN services : p[1] \in Resolved}
        /\ UNCHANGED <<clients, conns>>
-----------------------------------------------------------------------------
(* Clients.                                                                *)

\* TlsConfigBuilder::build reads the files.
build(tls) == IF tls = "unreadable" THEN "error" ELSE "ok"

\* The path of the certificate is unwrapped; a certificate without a key is taken
\* for no client authentication.
build_client_config(tls) == IF tls = "empty" THEN "panic" ELSE build(tls)

create_http_client(s) ==
    CASE s.host = "bad" \/ s.tls = "name" -> "panic"
      [] s.host # "bad" /\ s.tls = "none" -> "ok"
      [] OTHER -> build_client_config(s.tls)

\* A reference to a name that was not looked up is no TLS configuration here.
create_grpc_client(s) ==
    IF s.host = "bad" \/ s.tls \in {"cert", "empty", "unreadable"} THEN "panic" ELSE "ok"

RouterClient ==
    IF config.router = "off" THEN "ok"
    ELSE create_http_client([host |-> IF config.router = "on" THEN "valid" ELSE "bad", tls |-> "none"])

HealthRole == [openai |-> "openai_health", detector |-> "detector_health"]

HealthClient(p) ==
    LET h == <<HealthRole[p[1]], p[2]>>
    IN  IF h \in DOMAIN config.services THEN create_http_client(config.services[h]) ELSE "ok"

\* What the constructor of the client for p does: "ok", or how its first failing
\* part fails.
NewClient(p) ==
    IF p[1] \in {"generation", "chunker"} THEN create_grpc_client(config.services[p])
    ELSE LET client == create_http_client(config.services[p])
         IN  CASE client # "ok" -> client
               [] client = "ok" /\ HealthClient(p) # "ok" -> HealthClient(p)
               [] OTHER -> RouterClient

Order(p) == CASE p[1] = "generation" -> 1 [] p[1] = "openai" -> 2
              [] p[1] = "chunker" -> 3 [] p[1] = "detector" -> 4

Client(p) == [kind |-> p[1], tls |-> config.services[p].tls \notin {"none", "name"}]

\* ClientMap::insert: a later client with the same id replaces an earlier one.
Insert(map, id, client) == [i \in DOMAIN map \cup {id} |-> IF i = id THEN client ELSE map[i]]

\* ClientMap::get: the client must be of the type asked for.
Has(id, kind) == id \in DOMAIN clients /\ clients[id].kind = kind

\* One turn of create_clients; within chunkers and detectors the order is that of
\* a hash map.
CreateClient(p) ==
    LET made == NewClient(p)
    IN  /\ phase = "create" /\ p \in left /\ \A q \in left : Order(p) <= Order(q)
        /\ phase' = IF made = "ok" THEN phase ELSE made
        /\ clients' = IF made = "ok" THEN Insert(clients, p[2], Client(p)) ELSE clients
        /\ left' = left \ {p}
        /\ UNCHANGED <<config, conns>>

\* builder.channel() may fail for every gRPC service.
ChannelFails(p) ==
    /\ phase = "create" /\ p \in left /\ \A q \in left : Order(p) <= Order(q)
    /\ p[1] \in {"generation", "chunker"} /\ phase' = "panic"
    /\ UNCHANGED <<config, clients, left, conns>>

\* Orchestrator::new: all clients are there; on_start_up.
ClientsCreated ==
    /\ phase = "create" /\ left = {}
    /\ phase' = IF config.health_check THEN "health" ELSE "bind"
    /\ left' = IF config.health_check THEN DOMAIN clients ELSE {}
    /\ UNCHANGED <<config, clients, conns>>
-----------------------------------------------------------------------------
(* Health.                                                                 *)

GrpcHealthReplies == {"response", "InvalidArgument", "NotFound", "Unavailable"}
HttpHealthReplies == {"no body", "HEALTHY", "UNHEALTHY", "4xx", "5xx", "no answer", "cut"}

\* The status in a gRPC response is not looked at.
GrpcHealth(reply) == IF reply = "Unavailable" THEN "unhealthy" ELSE "healthy"

HttpHealth(reply) ==
    CASE reply \in {"no body", "HEALTHY"} -> "healthy"
      [] reply \in {"UNHEALTHY", "5xx"} -> "unhealthy"
      [] reply \in {"4xx", "no answer"} -> "unknown"
      [] reply = "cut" -> "panic"   \* Response::json expects the body to arrive

Healths(id) ==
    IF clients[id].kind \in {"generation", "chunker"} THEN {GrpcHealth(r) : r \in GrpcHealthReplies}
    ELSE {HttpHealth(r) : r \in HttpHealthReplies}

\* The connection whose request to /info waits for the health of the clients.
Asking == {c \in HealthConns : conns[c] = "asking"}

\* One turn of client_health, for on_start_up or for a request to /info, which is
\* answered after the last turn; a panic ends the process or that connection.
ClientHealth(id) ==
    /\ phase \in {"health", "serving", "stopping"} /\ id \in left
    /\ \E h \in Healths(id) :
          /\ left' = IF h = "panic" THEN {} ELSE left \ {id}
          /\ phase' = IF h = "panic" /\ phase = "health" THEN "panic" ELSE phase
          /\ conns' = [c \in AllConns |-> IF c \notin Asking \/ left' # {} THEN conns[c]
                                        ELSE IF h = "panic" THEN "closed" ELSE "open"]
    /\ UNCHANGED <<config, clients>>

\* An unhealthy client is only reported: start-up goes on.
on_start_up ==
    /\ phase = "health" /\ left = {}
    /\ phase' = "bind"
    /\ UNCHANGED <<config, clients, left, conns>>

-----------------------------------------------------------------------------
(* The two servers.                                                        *)

\* Either port may be taken; configure_tls panics on bad files.
Bind ==
    /\ phase = "bind"
    /\ phase' \in IF config.server_tls = "bad" THEN {"panic"} ELSE {"serving", "panic"}
    /\ UNCHANGED <<config, clients, left, conns>>

SetConn(c, state) == conns' = [conns EXCEPT ![c] = state]

Connect(c) ==
    /\ phase = "serving" /\ conns[c] = "none" /\ SetConn(c, "waiting")
    /\ UNCHANGED <<config, phase, clients, left>>

\* With TLS the accept loop of the guardrails server completes one handshake before
\* the next accept.
Accept(c) ==
    /\ phase = "serving" /\ conns[c] = "waiting"
    /\ IF config.server_tls = "on" /\ c \in Conns
       THEN (\A d \in Conns : conns[d] # "handshake") /\ SetConn(c, "handshake")
       ELSE SetConn(c, "open")
    /\ UNCHANGED <<config, phase, clients, left>>

Handshake(c) ==
    /\ phase = "serving" /\ conns[c] = "handshake"
    /\ \E state \in {"open", "closed"} : SetConn(c, state)
    /\ UNCHANGED <<config, phase, clients, left>>

\* A request to /info; one at a time asks the clients.
Info(c) ==
    /\ Serving /\ c \in HealthConns /\ conns[c] = "open" /\ left = {}
    /\ SetConn(c, IF DOMAIN clients = {} THEN "open" ELSE "asking") /\ left' = DOMAIN clients
    /\ UNCHANGED <<config, phase, clients>>

\* The last response of a connection is sent, or its client leaves, which also
\* drops the handler of /info.
Finish(c) ==
    /\ Serving /\ conns[c] \in {"open", "asking"} /\ SetConn(c, "closed")
    /\ left' = IF conns[c] = "asking" THEN {} ELSE left
    /\ UNCHANGED <<config, phase, clients>>

\* A signal: the listeners are closed, what is open goes on.
shutdown_signal ==
    /\ phase = "serving" /\ phase' = "stopping"
    /\ conns' = [c \in AllConns |-> IF conns[c] \in {"open", "asking"} THEN conns[c] ELSE "closed"]
    /\ UNCHANGED <<config, clients, left>>

\* main joins both servers.  The health server waits for every one of its
\* connections, without a bound on the time ...
HealthDrained == \A c \in HealthConns : conns[c] = "closed"

\* ... and so does the guardrails server ...
Drained ==
    /\ phase = "stopping" /\ HealthDrained /\ \A c \in Conns : conns[c] = "closed"
    /\ phase' = "stopped" /\ UNCHANGED <<config, clients, left, conns>>

GraceOver == config.server_tls = "on"

\* ... except with TLS, where its connections are given ten seconds.
GracefulTimeout ==
    /\ phase = "stopping" /\ HealthDrained /\ GraceOver
    /\ phase' = "stopped" /\ UNCHANGED <<config, clients, left, conns>>

Main == \/ Load \/ ClientsCreated \/ on_start_up \/ Bind
        \/ \E p \in left : CreateClient(p) \/ ChannelFails(p)

Stop == Drained \/ GracefulTimeout

ServerNext ==
    \/ Main \/ Stop \/ shutdown_signal
    \/ \E id \in left : ClientHealth(id)
    \/ \E c \in AllConns : Connect(c) \/ Accept(c) \/ Handshake(c) \/ Info(c) \/ Finish(c)

\* The runtime polls main and the servers.  Peers need not finish a handshake or a
\* request, nor services a health check: the request timeout ends with the head of
\* the response, and Response::json waits for the body without a bound.
ServerFairness == WF_serverVars(Main) /\ WF_serverVars(Stop)
-----------------------------------------------------------------------------
(* Properties.                                                             *)

\* No id is used twice, nor one of the two ids the orchestrator uses itself.
IdsDistinct ==
    \A p, q \in DOMAIN config.services : p # q /\ {p[1], q[1]} \subseteq Resolved => p[2] # q[2]

\* The lookups the handlers make in the ClientMap, with a type, succeed in every
\* configuration that is served, unless two services share an id
\* (create_clients inserts them all in one map).
LookupsWork ==
    Serving /\ IdsDistinct =>
        /\ \A p \in Services("openai") \cup Services("generation") \cup Services("detector") : Has(p[2], p[1])
        /\ \A d \in Detectors : config.chunker_id[d] = whole_doc_chunker \/ Has(config.chunker_id[d], "chunker")

\* A gRPC service that is given TLS by name is called over TLS, when there is a
\* tls section (without one the name stays unresolved and create_grpc_client
\* makes a client without TLS): config is the configuration after
\* apply_named_tls_configs, whose names it must all have replaced.
TlsApplied ==
    Serving /\ config.tls # "no section" =>
        \A p \in Services("generation") \cup Services("chunker") :
            Has(p[2], p[1]) /\ config.services[p].tls # "none" => clients[p[2]].tls

=============================================================================

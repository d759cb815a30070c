---------------------------- MODULE MCModelClient ----------------------------
(* Configurations: one of every service over all TLS values and hosts, two *)
(* ids that collide, chunkers that are missing, and the LLM services with  *)
(* and without the router.                                                 *)
EXTENDS ModelClient

Service(tls) == [host |-> "valid", tls |-> tls]
Plain == [p \in {<<"chunker", "c">>, <<"detector", "d">>} |-> Service("none")]
Base == [services |-> Plain, chunker_id |-> [d |-> "c"], tls |-> "no section", provider |-> "nlp",
         router |-> "off", supported |-> {}, server_tls |-> "off", health_check |-> FALSE]
With(role, id, s) == [p \in DOMAIN Plain \cup {<<role, id>>} |-> IF p = <<role, id>> THEN s ELSE Plain[p]]

TlsConfigs ==
    {[Base EXCEPT !.services = With(p[1], p[2], Service(tls)), !.tls = name] :
        p \in {<<"chunker", "c">>, <<"detector", "d">>, <<"detector_health", "d">>, <<"generation", "generation">>},
        tls \in {"name", "pair", "cert", "empty", "unreadable"}, name \in {"no section", "unknown", "pair"}}
HostConfigs ==
    {[Base EXCEPT !.services = With(p[1], p[2], [host |-> h, tls |-> "none"])] :
        p \in {<<"chunker", "c">>, <<"detector_health", "d">>, <<"openai", "openai">>}, h \in {"odd", "bad"}}
IdConfigs ==
    {[Base EXCEPT !.chunker_id = [d |-> c]] : c \in {"missing", whole_doc_chunker}}
    \cup {[Base EXCEPT !.services = With("chunker", "d", Service("none")), !.chunker_id = [d |-> "d"]],
          [Base EXCEPT !.services = <<>>, !.chunker_id = <<>>]}
ServerConfigs ==
    {[Base EXCEPT !.server_tls = t, !.health_check = h] : t \in {"on", "half", "bad"}, h \in BOOLEAN}
RouterConfigs ==
    {[Base EXCEPT !.services = [p \in {<<"openai", "openai">>, <<"detector", "d">>} |-> Service("none")],
                  !.chunker_id = [d |-> whole_doc_chunker], !.router = r] : r \in {"off", "on", "bad host"}}
LlmConfigs ==
    {[Base EXCEPT !.services = With("generation", "generation", Service("none")), !.provider = p] : p \in {"tgis", "nlp"}}
    \cup {[Base EXCEPT !.router = "on", !.supported = s] : s \in {{}, {{"d"}, {}}, {{}}}}

AllConfigs == TlsConfigs \cup HostConfigs \cup IdConfigs \cup ServerConfigs \cup RouterConfigs \cup LlmConfigs
NoDetectorType == <<>>
=============================================================================

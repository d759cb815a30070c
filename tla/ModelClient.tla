----------------------------- MODULE ModelClient -----------------------------
(***************************************************************************)
(* One call of a handler to a service through its client, within the life  *)
(* of the process of Server: the attempts of GenerationClient              *)
(* (retry_function), the requests of OpenAiClient and DetectorClient,      *)
(* direct or through the router, and the task that reads the event stream  *)
(* of a streaming completion into a bounded channel                        *)
(* (handle_streaming, handle_stream_with_body).                            *)
(*                                                                         *)
(* A line of the stream is a record: kind ("message", "done": [DONE],      *)
(* "error": an ErrorResponse or what is neither, "bad_code": an            *)
(* ErrorResponse whose code is no HTTP status) and n, its number.  An      *)
(* event of the router is a ping, an error, or carries several lines; a    *)
(* direct one is a line.                                                   *)
(***************************************************************************)
EXTENDS Server, HttpRequests

CONSTANTS
    MaxRetries,  \* max_retries of the generation service
    ChannelCap,  \* capacity of the channel (32 in the code)
    MaxLines,    \* bound on the lines of a stream
    GrpcCodes    \* gRPC statuses a service may fail with

ASSUME ClientAssumption ==
    MaxRetries \in Nat /\ ChannelCap \in Nat \ {0} /\ MaxLines \in Nat /\ GrpcCodes \subseteq DOMAIN grpc_to_http_code

VARIABLES
    call,      \* the call: caller, client, stream, routed
    cpc,       \* where it is
    tries,     \* the outcomes of its attempts
    result,    \* what the client returned
    events,    \* the events the service has sent
    said,      \* the lines in them
    closed,    \* the service has ended the stream
    taken,     \* how many of them the reading task has taken
    lines,     \* lines of the last one still to be handled
    chan,      \* the channel
    received,  \* what the handler has received from it
    rx         \* the receiver is alive

replyVars == <<call, tries, result>>
streamVars == <<events, said, closed>>
readVars == <<taken, lines>>
handVars == <<received, rx>>
callVars == <<replyVars, cpc, streamVars, readVars, chan, handVars>>
vars == <<serverVars, callVars>>

NoCall == [caller |-> "none", client |-> "none", stream |-> FALSE, routed |-> FALSE]

Init ==
    /\ ServerInit
    /\ call = NoCall /\ cpc = "idle" /\ tries = <<>> /\ result = 0
    /\ events = <<>> /\ said = <<>> /\ closed = FALSE /\ taken = 0 /\ lines = <<>>
    /\ chan = <<>> /\ received = <<>> /\ rx = TRUE
-----------------------------------------------------------------------------
(* Requests.                                                               *)

\* OpenAiClient uses the router whenever it is on, DetectorClient also looks at
\* supported_detectors,
\* an entry of which may be any part of the id.
Routed(id) ==
    /\ config.router = "on"
    /\ \/ clients[id].kind = "openai"
       \/ clients[id].kind = "detector" /\ (config.supported = {} \/ \E entry \in config.supported : id \in entry)

\* A handler asks its client; only OpenAiClient streams through a task.
StartCall(c, id, stream) ==
    /\ Serving /\ conns[c] = "open" /\ cpc = "idle"
    /\ id \in DOMAIN clients /\ clients[id].kind # "chunker" /\ (stream => clients[id].kind = "openai")
    /\ call' = [caller |-> c, client |-> id, stream |-> stream, routed |-> Routed(id)]
    /\ cpc' = "post"
    /\ UNCHANGED <<serverVars, tries, result, streamVars, readVars, chan, handVars>>

Kind == clients[call.client].kind
Retries == Kind = "generation" /\ config.provider = "nlp"

HttpReplies ==
    [status : {200, 404, 503}, body : {"ok", "error", "other_code", "bad_code", "junk", "cut"}] \cup {[status |-> 0, body |-> "junk"]}

\* HttpClient::send: no response in time, or none at all, is 408.
NoAnswer(r) == r.status = 0

\* handle_unary, http_error: the status of the response counts, its body is only a message.
OpenAiOutcome(r) ==
    CASE NoAnswer(r) -> 408
      [] ~NoAnswer(r) /\ r.status = 200 /\ call.stream -> 200
      [] ~NoAnswer(r) /\ ~(r.status = 200 /\ call.stream) /\ r.body = "cut" -> 0
      [] OTHER -> IF r.status = 200 /\ r.body # "ok" THEN 500 ELSE r.status

\* DetectorClient::post: the code in the body of an error counts, that of the
\* response, another one or no status at all.
DetectorOutcome(r) ==
    CASE NoAnswer(r) -> 408
      [] ~NoAnswer(r) /\ (r.body = "cut" \/ (r.status # 200 /\ r.body = "bad_code")) -> 0
      [] OTHER -> IF r.status = 200 /\ r.body # "ok" THEN 500
                  ELSE IF r.body = "other_code" THEN 422 ELSE r.status

GrpcOutcomes == {200} \cup {grpc_to_http_code[g] : g \in GrpcCodes}

\* A routed request is not sent when the name of its model is no header value.
build_router_headers == IF call.routed THEN {400} ELSE {}

\* What an attempt may end with; 0 is a panic of the calling task, for generation
\* when the model id is no header value or a reply is empty.
Outcomes ==
    CASE Kind = "generation" -> {0} \cup GrpcOutcomes
      [] Kind = "openai" -> build_router_headers \cup {OpenAiOutcome(r) : r \in HttpReplies}
      [] Kind = "detector" -> build_router_headers \cup {DetectorOutcome(r) : r \in HttpReplies}

allowed_retry_codes == {502, 503, 504, 505, 506}

\* Mutant: the first attempt counts as a retry.
AgainLess(code, attempt) == Retries /\ code \in allowed_retry_codes /\ attempt < MaxRetries

\* attempt is the number of attempts made, the last one included.
Again(code, attempt) == Retries /\ code \in allowed_retry_codes /\ attempt <= MaxRetries

Attempt ==
    /\ Serving /\ cpc = "post"
    /\ \E code \in Outcomes :
          LET attempt == Len(tries) + 1
          IN  /\ tries' = Append(tries, code)
              /\ IF Again(code, attempt) THEN cpc' = "backoff" /\ UNCHANGED result
                 ELSE /\ result' = code
                      /\ cpc' = IF code = 200 /\ call.stream THEN "reading" ELSE "ended"
    /\ UNCHANGED <<serverVars, call, streamVars, readVars, chan, handVars>>

Backoff ==
    /\ Serving /\ cpc = "backoff" /\ cpc' = "post"
    /\ UNCHANGED <<serverVars, replyVars, streamVars, readVars, chan, handVars>>
-----------------------------------------------------------------------------
(* The event stream.                                                       *)

Line(kind, n) == [kind |-> kind, n |-> n]
LineKinds == {"message", "done", "error", "bad_code"}
Event(name, data) == [name |-> name, data |-> data]

\* The service, or the router in front of it, sends one more event, among them
\* the failure of the event stream.
ServiceSends ==
    LET n == Len(said) + 1
        sends(name, data) == events' = Append(events, Event(name, data)) /\ said' = said \o data
    IN  /\ Serving /\ cpc = "reading" /\ ~closed /\ n <= MaxLines
        /\ \/ \E k \in LineKinds : sends("data", <<Line(k, n)>>)
           \/ sends("broken", <<Line("fatal", n)>>)
           \/ /\ call.routed
              /\ \/ events = <<>> /\ sends("png", <<>>)
                 \/ sends("err", <<Line("fatal", n)>>)
                 \/ n < MaxLines /\ \E k, l \in LineKinds : sends("data", <<Line(k, n), Line(l, n + 1)>>)
        /\ UNCHANGED <<serverVars, replyVars, cpc, closed, readVars, chan, handVars>>

ServiceCloses ==
    /\ Serving /\ cpc = "reading" /\ ~closed /\ closed' = TRUE
    /\ UNCHANGED <<serverVars, replyVars, cpc, events, said, readVars, chan, handVars>>

\* tx.send: waits for room, and returns at once when the receiver is gone.
RoomOnly == Len(chan) < ChannelCap  \* mutant: send does not see that the receiver is gone
Room == Len(chan) < ChannelCap \/ ~rx
Deliver(line) == Room /\ chan' = IF rx THEN Append(chan, line) ELSE chan

\* event_stream.next().
NextEvent ==
    /\ Serving /\ cpc = "reading" /\ lines = <<>> /\ taken < Len(events)
    /\ taken' = taken + 1
    /\ LET e == events[taken + 1]
       IN  IF e.name \in {"broken", "err"}
           THEN Deliver(Head(e.data)) /\ cpc' = "ended" /\ UNCHANGED lines
           ELSE lines' = e.data /\ UNCHANGED <<chan, cpc>>
    /\ UNCHANGED <<serverVars, replyVars, streamVars, handVars>>

GoesOn(line) == line.kind = "bad_code"  \* mutant: [DONE] does not end the task
Ends(line) == line.kind \in {"done", "bad_code"}

\* A line: [DONE] ends the task, an error does not, and an error whose code is no
\* status panics in the conversion.
HandleLine ==
    /\ Serving /\ cpc = "reading" /\ lines # <<>>
    /\ LET line == Head(lines)
       IN  /\ IF line.kind = "bad_code" THEN UNCHANGED chan ELSE Deliver(line)
           /\ cpc' = IF Ends(line) THEN "ended" ELSE cpc
    /\ lines' = Tail(lines)
    /\ UNCHANGED <<serverVars, replyVars, streamVars, taken, handVars>>

EndOfStream ==
    /\ Serving /\ cpc = "reading" /\ closed /\ lines = <<>> /\ taken = Len(events)
    /\ cpc' = "ended"
    /\ UNCHANGED <<serverVars, replyVars, streamVars, readVars, chan, handVars>>

Receive ==
    /\ Serving /\ rx /\ chan # <<>>
    /\ received' = Append(received, Head(chan)) /\ chan' = Tail(chan)
    /\ UNCHANGED <<serverVars, replyVars, cpc, streamVars, readVars, rx>>

\* The connection of the caller ends: with its response, or before it, which drops
\* the handler and the receiver; the reading task is not told.
CallerLeaves ==
    /\ cpc # "idle" /\ Finish(call.caller) /\ rx' = FALSE
    /\ cpc' = IF cpc = "reading" THEN cpc ELSE "ended"
    /\ UNCHANGED <<replyVars, streamVars, readVars, chan, received>>

Requesting ==
    \/ \E c \in Conns, id \in DOMAIN clients, stream \in BOOLEAN : StartCall(c, id, stream)
    \/ Attempt \/ Backoff

Reader == NextEvent \/ HandleLine \/ EndOfStream

ServerAlone ==
    /\ ServerNext /\ UNCHANGED callVars
    /\ cpc = "idle" \/ conns'[call.caller] = conns[call.caller]

Next == ServerAlone \/ Requesting \/ ServiceSends \/ ServiceCloses \/ Reader \/ Receive \/ CallerLeaves

\* The reading task is polled, a handler goes on receiving while it is there, and
\* a service ends its stream (nothing in the code bounds the time it takes).
Spec ==
    /\ Init /\ [][Next]_vars /\ ServerFairness
    /\ WF_vars(Reader) /\ WF_vars(Receive) /\ WF_vars(ServiceCloses)
-----------------------------------------------------------------------------
(* Properties.                                                             *)

\* A generation request to the NLP service is tried again only after a code worth
\* it, at most MaxRetries + 1 times in all, and not given up earlier; the client
\* returns what the last attempt did.  No other request is made twice.
RetriesRight ==
    /\ \A i \in 1..(Len(tries) - 1) : Retries /\ tries[i] \in allowed_retry_codes
    /\ Len(tries) <= MaxRetries + 1
    /\ result # 0 =>
         /\ result = Last(tries)
         /\ Retries /\ result \in allowed_retry_codes => Len(tries) = MaxRetries + 1

\* What the handler should receive of the events sent: every line in order, up to
\* and including the first that ends the stream, without one that panics.
Expected ==
    LET ending == {i \in DOMAIN said : said[i].kind \in {"done", "fatal", "bad_code"}}
        first == CHOOSE i \in ending : \A j \in ending : i <= j
    IN  IF ending = {} THEN said
        ELSE SubSeq(said, 1, IF said[first].kind = "bad_code" THEN first - 1 ELSE first)

\* The channel between the reading task and the handler loses, repeats and
\* reorders nothing, whether lines come one by one or several to an event of the
\* router, and nothing follows the end.
StreamFaithful ==
    rx => /\ IsPrefix(received \o chan, Expected)
          /\ cpc = "ended" /\ call.stream /\ result = 200 => received \o chan = Expected

\* The reading task ends, also when its receiver is gone while it waits for room.
ReaderEnds == (cpc = "reading") ~> (cpc = "ended" \/ phase = "stopped")
=============================================================================

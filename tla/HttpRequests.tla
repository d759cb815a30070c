---------------------------- MODULE HttpRequests ----------------------------
(***************************************************************************)
(* What the routes of the service accept and what they answer: the upfront *)
(* validation of each request type (models.rs, clients/openai.rs), the     *)
(* validation of its detectors against the configuration, and the status   *)
(* an error becomes (server/errors.rs, clients/errors.rs).                 *)
(*                                                                         *)
(* A request is a record: endpoint; model (its model name is not empty);   *)
(* text, a sequence of characters, the prompt, the content or the last     *)
(* message; bytes, the length of its UTF-8 encoding; masks; content and    *)
(* role of the last message; other (a further required field is there);    *)
(* input and output, functions from detectors to thresholds.               *)
(* Endpoints that only detect have their detectors in output.              *)
(***************************************************************************)
EXTENDS Integers, Sequences, SequencesExt

CONSTANT DetectorType  \* a function: the type of each detector of the configuration

ASSUME DetectorTypeAssumption ==
    \A d \in DOMAIN DetectorType : DetectorType[d] \in {"contents", "generation", "chat", "context"}

NoThreshold == -1   \* the request gives none
NotANumber == -2    \* the request gives something else than a number

validate_detector_params(detectors) == \A d \in DOMAIN detectors : detectors[d] # NotANumber

\* Masks are compared with the length in bytes and are not empty.
MasksInRange(r) == \A m \in ToSet(r.masks) : m[1] \in 0..r.bytes /\ m[2] \in 0..r.bytes /\ m[1] < m[2]

ValidClassification(r) ==
    /\ r.model /\ r.text # <<>> /\ MasksInRange(r)
    /\ validate_detector_params(r.input) /\ validate_detector_params(r.output)

ValidGeneration(r) ==
    r.model /\ r.text # <<>> /\ DOMAIN r.output # {} /\ validate_detector_params(r.output)

ValidContent(r) == r.text # <<>> /\ DOMAIN r.output # {} /\ validate_detector_params(r.output)

\* other: the generated text is not empty.
ValidGenerated(r) == ValidContent(r) /\ r.other

\* other: there are context documents.
ValidContext(r) == ValidContent(r) /\ r.other

\* validate_content_type and validate_messages; other: a message without content
\* has tool calls.
ValidMessages(r) == r.content \in {"text", "text parts"} \/ (r.content = "none" /\ r.other)

ValidChat(r) == DOMAIN r.output # {} /\ ValidMessages(r) /\ validate_detector_params(r.output)

\* Only the last message is looked at, and only when there are input detectors.
ValidChatCompletions(r) ==
    r.model /\ r.content # "no messages" /\ (DOMAIN r.input # {} => r.content = "text" /\ r.text # <<>>)

\* The thresholds and the masks of this endpoint are not validated.
ValidCompletions(r) == r.model /\ (DOMAIN r.input # {} => r.text # <<>>)

Valid(r) ==
    CASE r.endpoint = "classification"   -> ValidClassification(r)
      [] r.endpoint = "generation"       -> ValidGeneration(r)
      [] r.endpoint = "content"          -> ValidContent(r)
      [] r.endpoint = "generated"        -> ValidGenerated(r)
      [] r.endpoint = "context"          -> ValidContext(r)
      [] r.endpoint = "chat"             -> ValidChat(r)
      [] r.endpoint = "chat_completions" -> ValidChatCompletions(r)
      [] r.endpoint = "completions"      -> ValidCompletions(r)
-----------------------------------------------------------------------------
(* Handlers: the types of detectors each takes on the output, or at all,   *)
(* which decide how it asks them, and the LLM client it uses.              *)

ClassificationWithGen == [types |-> {"contents"}, llm |-> "generation"]
GenerationWithDetection == [types |-> {"generation"}, llm |-> "generation"]
TextContentDetection == [types |-> {"contents"}, llm |-> "none"]
DetectionOnGeneration == [types |-> {"generation"}, llm |-> "none"]
ContextDocsDetection == [types |-> {"context"}, llm |-> "none"]
ChatDetection == [types |-> {"chat"}, llm |-> "none"]
ChatCompletionsDetection == [types |-> {"contents", "chat"}, llm |-> "openai"]
CompletionsDetection == [types |-> {"contents", "generation"}, llm |-> "openai"]

Handler ==
    [classification |-> ClassificationWithGen, generation |-> GenerationWithDetection,
     content |-> TextContentDetection, generated |-> DetectionOnGeneration,
     context |-> ContextDocsDetection, chat |-> ChatDetection,
     chat_completions |-> ChatCompletionsDetection, completions |-> CompletionsDetection]
-----------------------------------------------------------------------------
(* Errors.                                                                 *)

NotFound == [kind |-> "not found", code |-> 404]
Validation == [kind |-> "validation", code |-> 422]
RequestFailed(code) == [kind |-> "request", code |-> code]

\* The error of the first detector that validate_detectors refuses: the detectors
\* are in a hash map, so any of those it would refuse.
DetectorErrors(detectors, types) ==
    {IF d \in DOMAIN DetectorType THEN Validation ELSE NotFound :
        d \in {x \in DOMAIN detectors : x \notin DOMAIN DetectorType \/ DetectorType[x] \notin types}}

\* The equivalent HTTP code of a gRPC status; any other status is 500.
grpc_to_http_code ==
    [InvalidArgument |-> 400, Internal |-> 500, NotFound |-> 404, DeadlineExceeded |-> 408,
     Unimplemented |-> 501, Unauthenticated |-> 401, PermissionDenied |-> 403,
     Unavailable |-> 503, Unknown |-> 500]

PassedOn == {400, 422, 404, 503}

\* The status of the response to the client: other codes of a failed request
\* are hidden behind 500.
Status(error) == IF error.kind = "request" /\ error.code \notin PassedOn THEN 500 ELSE error.code
=============================================================================

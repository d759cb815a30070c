---------------------------- MODULE UnaryHandlers ----------------------------
(***************************************************************************)
(* One request to an endpoint that answers with a single response: the     *)
(* unary handlers over text_contents_detections and its siblings in        *)
(* common/tasks.rs.  Chunkers, detectors and inputs are asked concurrently *)
(* (spawned tasks, buffer_unordered) and answer in any order.              *)
(*                                                                         *)
(* A text is a sequence of characters and a detector scores characters, so *)
(* that a detection carries the position the code computes and the         *)
(* character it is about.  The client staying connected is assumed: when   *)
(* it leaves, the server drops the handler.                                *)
(***************************************************************************)
EXTENDS HttpRequests, FiniteSets

CONSTANTS
    Requests,          \* the requests considered
    Replies,           \* what the LLM may answer: sequences of choices [content, text]
    Chunker,           \* a function: the chunker of each detector
    DefaultThreshold,  \* a function: the threshold configured for each detector
    Score,             \* Score[d][c]: what detector d says of character c, 0 is nothing
    ChunkerRequests,   \* chunker_concurrent_requests
    GrpcCodes,         \* gRPC statuses a chunker may fail with
    HttpCodes          \* codes the other services may fail with

ASSUME ServiceAssumption ==
    /\ \A d \in DOMAIN DetectorType : d \in DOMAIN Chunker /\ d \in DOMAIN DefaultThreshold
    /\ ChunkerRequests \in Nat \ {0}
    /\ GrpcCodes \subseteq DOMAIN grpc_to_http_code

\* Texts and masks of requests are sequences, positions are not negative.  Only
\* endpoints that generate have input detectors.
ASSUME RequestAssumption ==
    \A r \in Requests :
        /\ r.text \in Seq(ToSet(r.text)) /\ r.masks \in Seq(Nat \X Nat)
        /\ r.endpoint \in DOMAIN Handler
        /\ Handler[r.endpoint].llm = "none" => DOMAIN r.input = {}

\* The choices of a completion are numbered, and those without text have none.
ASSUME ReplyAssumption ==
    \A reply \in Replies :
        /\ Len(reply) \in Nat /\ DOMAIN reply = 1..Len(reply)
        /\ \A i \in DOMAIN reply :
             /\ reply[i].text \in Seq(ToSet(reply[i].text))
             /\ reply[i].content # "text" => reply[i].text = <<>>

VARIABLES
    req,        \* the request
    generation, \* a generation client is configured
    pc,         \* where the handler is
    calls,      \* the detection calls made so far, by <<phase, choice, type>>
    choices,    \* what the LLM generated
    failed,     \* every error met so far
    response    \* the response

vars == <<req, generation, pc, calls, choices, failed, response>>

NoError == [kind |-> "none", code |-> 200]
NoResponse == [status |-> 0, input |-> <<>>, output |-> <<>>, warnings |-> {}]

Init ==
    /\ req \in Requests /\ generation \in BOOLEAN
    /\ pc = "validate" /\ calls = <<>> /\ choices = <<>>
    /\ failed = {} /\ response = NoResponse
-----------------------------------------------------------------------------
(* Texts, chunks and detections.                                           *)

\* Positions count from 0; there may be fewer characters than bytes.
slice_codepoints(text, start, end) ==
    SubSeq(text, start + 1, IF end < Len(text) THEN end ELSE Len(text))

apply_masks(text, masks) ==
    IF masks = <<>> THEN <<<<0, text>>>>
    ELSE [i \in DOMAIN masks |-> <<masks[i][1], slice_codepoints(text, masks[i][1], masks[i][2])>>]

Chunk(start, text) == [start |-> start, text |-> text]

whole_doc_chunk(offset, text) == <<Chunk(offset, text)>>

\* A chunker server: two characters to a chunk, positions within the text it got.
Tokens(text) ==
    [i \in 1..((Len(text) + 1) \div 2) |-> Chunk(2 * (i - 1), slice_codepoints(text, 2 * (i - 1), 2 * i))]

\* The chunks of an input move to its offset.
AtOffset(offset, tokens) == [i \in DOMAIN tokens |-> Chunk(tokens[i].start + offset, tokens[i].text)]

chunk(chunker, offset, text) ==
    IF chunker = "whole_doc_chunker" THEN whole_doc_chunk(offset, text) ELSE AtOffset(offset, Tokens(text))

\* A detector server: a detection for every character it scores, with its place in
\* the text it got.
Detections(d, text) ==
    FlattenSeq([i \in DOMAIN text |->
        IF Score[d][text[i]] > 0
        THEN <<[detector |-> d, start |-> i - 1, char |-> text[i], score |-> Score[d][text[i]]]>> ELSE <<>>])

\* detect_text_contents: all chunks in one request, the answer zipped with them.
detect_text_contents(d, chunks) ==
    FlattenSeq([i \in DOMAIN chunks |->
        LET found == Detections(d, chunks[i].text)
        IN  [j \in DOMAIN found |-> [found[j] EXCEPT !.start = @ + chunks[i].start]]])

\* detect_text_generation, detect_text_chat, detect_text_context: one text, and
\* results without positions.
detect_text(d, text) ==
    LET found == Detections(d, text) IN [j \in DOMAIN found |-> [found[j] EXCEPT !.start = 0]]

\* pop_threshold, or the default of the configuration.
Threshold(d, threshold) == IF threshold >= 0 THEN threshold ELSE DefaultThreshold[d]

Kept(d, threshold, found) ==
    FlattenSeq([i \in DOMAIN found |-> IF found[i].score >= Threshold(d, threshold) THEN <<found[i]>> ELSE <<>>])

\* Mutant: left in the order the detectors answered.
Unsorted(found) == found

\* The stable sort_by_key on the start of a detection.
SortedByStart(found) ==
    LET before(i, j) == found[i].start < found[j].start \/ (found[i].start = found[j].start /\ i < j)
        order == CHOOSE f \in [DOMAIN found -> DOMAIN found] :
                    \A i, j \in DOMAIN found : i < j => before(f[i], f[j])
    IN  [i \in DOMAIN found |-> found[order[i]]]
-----------------------------------------------------------------------------
(* A detection call: text_contents_detections chunks its inputs first, one *)
(* task per detector (get_chunker_ids), the others ask their detectors.    *)

NewCall(type, inputs, detectors) ==
    [type |-> type, inputs |-> inputs, detectors |-> detectors,
     stage |-> IF type = "contents" THEN "chunk" ELSE "detect",
     left |-> [d \in DOMAIN detectors |-> DOMAIN inputs],
     chunks |-> [d \in DOMAIN detectors |-> <<>>],
     errors |-> [d \in DOMAIN detectors |-> NoError],
     todo |-> DOMAIN detectors, found |-> <<>>, error |-> NoError]

\* buffer_unordered: inputs are sent in order, this many at a time.
InFlight(call, d) == {i \in call.left[d] : Cardinality({j \in call.left[d] : j < i}) < ChunkerRequests}

Chunking(k, d) == calls[k].stage = "chunk" /\ d \in DOMAIN calls[k].detectors /\ calls[k].errors[d] = NoError

\* An input of the chunk task of d comes back, in whatever order.
ChunkReply(k, d) ==
    /\ Chunking(k, d)
    /\ \E i \in InFlight(calls[k], d) :
         calls' = [calls EXCEPT
            ![k].left[d] = @ \ {i},
            ![k].chunks[d] = @ \o chunk(Chunker[d], calls[k].inputs[i][1], calls[k].inputs[i][2])]
    /\ UNCHANGED <<req, generation, pc, choices, failed, response>>

\* try_collect: the first failure ends the task of d.
ChunkFails(k, d) ==
    /\ Chunking(k, d) /\ calls[k].left[d] # {} /\ Chunker[d] # "whole_doc_chunker"
    /\ \E status \in GrpcCodes :
         LET error == RequestFailed(grpc_to_http_code[status])
         IN  /\ calls' = [calls EXCEPT ![k].errors[d] = error]
             /\ failed' = failed \union {error}
    /\ UNCHANGED <<req, generation, pc, choices, response>>

\* Mutant: a task that failed is not seen to have ended.
TaskEmptied(call, d) == call.left[d] = {}

TaskEnded(call, d) == call.left[d] = {} \/ call.errors[d] # NoError

\* try_join_all waits for every chunk task, then the first error is returned.
\* The map keeps, of the tasks of a chunker, the one collected last.
ChunksDone(k) ==
    LET call == calls[k]
        errors == {call.errors[d] : d \in DOMAIN call.detectors} \ {NoError}
    IN  /\ call.stage = "chunk"
        /\ \A d \in DOMAIN call.detectors : TaskEnded(call, d)
        /\ IF errors # {}
           THEN \E e \in errors : calls' = [calls EXCEPT ![k].stage = "error", ![k].error = e]
           ELSE \E last \in {f \in [DOMAIN call.detectors -> DOMAIN call.detectors] :
                               \A d, e \in DOMAIN f : /\ Chunker[f[d]] = Chunker[d]
                                                      /\ Chunker[d] = Chunker[e] => f[d] = f[e]} :
                  calls' = [calls EXCEPT ![k].stage = "detect",
                                         ![k].chunks = [d \in DOMAIN last |-> @[last[d]]]]
        /\ UNCHANGED <<req, generation, pc, choices, failed, response>>

\* A detector answers.  No request is made when there are no chunks.
DetectorReply(k, d) ==
    LET call == calls[k]
        all == IF call.type = "contents" THEN detect_text_contents(d, call.chunks[d])
               ELSE detect_text(d, call.inputs[1][2])
        last == call.todo = {d}
    IN  /\ call.stage = "detect" /\ d \in call.todo
        /\ \E found \in {call.found \o Kept(d, call.detectors[d], all)} :
             calls' = [calls EXCEPT ![k].todo = @ \ {d}, ![k].stage = IF last THEN "ok" ELSE @,
                         ![k].found = IF last /\ call.type = "contents" THEN SortedByStart(found) ELSE found]
        /\ UNCHANGED <<req, generation, pc, choices, failed, response>>

\* A failure ends the call; the other requests are dropped.
DetectorFails(k, d) ==
    LET call == calls[k]
    IN  /\ call.stage = "detect" /\ d \in call.todo
        /\ call.type = "contents" => call.chunks[d] # <<>>
        /\ \E code \in HttpCodes :
             /\ calls' = [calls EXCEPT ![k].stage = "error", ![k].error = RequestFailed(code)]
             /\ failed' = failed \union {RequestFailed(code)}
        /\ UNCHANGED <<req, generation, pc, choices, response>>
-----------------------------------------------------------------------------
(* The handlers.                                                           *)

Completions == {e \in DOMAIN Handler : Handler[e].llm = "openai"}
Generates == {e \in DOMAIN Handler : Handler[e].llm # "none"}

Fail(error) ==
    /\ pc' = "done" /\ failed' = failed \union {error}
    /\ response' = [NoResponse EXCEPT !.status = Status(error)]

\* Every endpoint validates the request before it makes a task of it.
Validate ==
    /\ pc = "validate"
    /\ IF Valid(req) THEN pc' = "detectors" /\ UNCHANGED <<failed, response>> ELSE Fail(Validation)
    /\ UNCHANGED <<req, generation, calls, choices>>

\* validate_detectors, of the input and then of the output.
ValidateDetectors ==
    LET input == DetectorErrors(req.input, {"contents"})
        output == DetectorErrors(req.output, Handler[req.endpoint].types)
    IN  /\ pc = "detectors"
        /\ IF input \union output # {}
           THEN \E e \in IF input # {} THEN input ELSE output : Fail(e)
           ELSE /\ pc' = IF DOMAIN req.input # {} THEN "input"
                         ELSE IF req.endpoint \in Generates THEN "generate" ELSE "output"
                /\ UNCHANGED <<failed, response>>
        /\ UNCHANGED <<req, generation, calls, choices>>

InputCall == <<"input", 0, "contents">>

\* handle_input_detection: on the last message for chat completions, whose author
\* must be a user, the assistant or the system; on the masked prompt otherwise.
InputDetection ==
    /\ pc = "input"
    /\ IF req.endpoint = "chat_completions" /\ req.role = "tool"
       THEN Fail(Validation) /\ UNCHANGED calls
       ELSE /\ pc' = "await input"
            /\ calls' = [k \in {InputCall} |-> NewCall("contents", apply_masks(req.text, req.masks), req.input)]
            /\ UNCHANGED <<failed, response>>
    /\ UNCHANGED <<req, generation, choices>>

\* Mutant: one detection is let through.
BlocksTwo(found) == Len(found) > 1

\* Any detection on the input keeps it from the LLM.
Blocks(found) == found # <<>>

InputDone ==
    LET call == calls[InputCall]
    IN  /\ pc = "await input" /\ call.stage \in {"ok", "error"}
        /\ IF call.stage = "error" THEN Fail(call.error)
           ELSE /\ pc' = IF Blocks(call.found) THEN "tokenize" ELSE "generate"
                /\ UNCHANGED <<failed, response>>
        /\ UNCHANGED <<req, generation, calls, choices>>

HasClient == req.endpoint \in Completions \/ generation

\* The client is looked up with unwrap: without it the handler panics, and the
\* connection is closed with no response.
Panic ==
    /\ pc \in {"tokenize", "generate"} /\ ~HasClient
    /\ pc' = "panicked"
    /\ UNCHANGED <<req, generation, calls, choices, failed, response>>

\* The tokens of the prompt are counted for the response with input detections.
Tokenize ==
    /\ pc = "tokenize" /\ HasClient
    /\ \/ /\ pc' = "done"
          /\ response' = [NoResponse EXCEPT !.status = 200, !.input = calls[InputCall].found,
                                            !.warnings = {"unsuitable input"}]
          /\ UNCHANGED failed
       \/ \E code \in HttpCodes : Fail(RequestFailed(code))
    /\ UNCHANGED <<req, generation, calls, choices>>

\* The LLM is asked; only the OpenAI endpoints have several choices.
Generate ==
    /\ pc = "generate" /\ HasClient
    /\ \/ \E reply \in Replies :
            /\ req.endpoint \notin Completions => Len(reply) = 1
            /\ req.endpoint # "chat_completions" => \A i \in DOMAIN reply : reply[i].content # "image"
            /\ choices' = reply /\ pc' = "output" /\ UNCHANGED <<failed, response>>
       \/ (\E code \in HttpCodes : Fail(RequestFailed(code))) /\ UNCHANGED choices
    /\ UNCHANGED <<req, generation, calls>>

\* group_detectors_by_type
Group(type) == [d \in {x \in DOMAIN req.output : DetectorType[x] = type} |-> req.output[d]]

\* The texts the output detectors are asked about.
Outputs == IF req.endpoint \in Generates THEN choices ELSE <<[content |-> "text", text |-> req.text]>>

\* A choice without text is skipped by completions, and by the contents detectors
\* of chat completions; the others detect on the empty text.
Asked(i, type) ==
    \/ Outputs[i].content = "text"
    \/ req.endpoint = "chat_completions" /\ type = "chat"
    \/ req.endpoint \notin Completions

\* handle_output_detection: a task for each choice and type of detector.
OutputDetection ==
    LET types == {DetectorType[d] : d \in DOMAIN req.output}
        asked == {k \in {"output"} \X (DOMAIN Outputs) \X types : Asked(k[2], k[3])}
    IN  /\ pc = "output"
        /\ calls' = [k \in DOMAIN calls \union asked |->
                        IF k \in DOMAIN calls THEN calls[k]
                        ELSE NewCall(k[3], <<<<0, Outputs[k[2]].text>>>>, Group(k[3]))]
        /\ pc' = "await output"
        /\ UNCHANGED <<req, generation, choices, failed, response>>

OutputCalls == {k \in DOMAIN calls : k[1] = "output"}

\* Mutant: the results of the tasks are unwrapped, their errors left out.
NoErrors(keys) == {}

\* The first error in the order of the choices; the order of the types is that of a hash map.
FirstErrors(keys) ==
    {calls[k].error : k \in {x \in keys : /\ calls[x].stage = "error"
                                          /\ \A y \in keys : calls[y].stage = "error" => x[2] <= y[2]}}

\* A choice is said to be empty when it has no content at all.
EmptyWarning ==
    IF req.endpoint \in Completions /\ DOMAIN req.output # {} /\ \E i \in DOMAIN choices : choices[i].content = "blank"
    THEN {"empty output"} ELSE {}

\* The plain detection endpoints have no warnings.
UnsuitableWarning ==
    IF /\ req.endpoint \in Completions \union {"classification"}
       /\ \E k \in OutputCalls : k[3] = "contents" /\ calls[k].found # <<>>
    THEN {"unsuitable output"} ELSE {}

\* group_detections_by_choice, the types of a choice in some order.
Grouped(order) ==
    LET of(i) == FlattenSeq([n \in DOMAIN order |->
                    IF <<"output", i, order[n]>> \in OutputCalls THEN calls[<<"output", i, order[n]>>].found ELSE <<>>])
    IN  [i \in {j \in DOMAIN Outputs : of(j) # <<>>} |-> of(i)]

\* All tasks have ended: the response, or the first error.
OutputDone ==
    /\ pc = "await output" /\ \A k \in OutputCalls : calls[k].stage \in {"ok", "error"}
    /\ IF FirstErrors(OutputCalls) # {} THEN \E e \in FirstErrors(OutputCalls) : Fail(e)
       ELSE /\ pc' = "done" /\ UNCHANGED failed
            /\ \E order \in SetToSeqs({k[3] : k \in OutputCalls}) :
                 response' = [status |-> 200, input |-> <<>>, output |-> Grouped(order),
                              warnings |-> EmptyWarning \union UnsuitableWarning]
    /\ UNCHANGED <<req, generation, calls, choices>>

Next ==
    \/ Validate \/ ValidateDetectors \/ InputDetection \/ InputDone \/ Panic \/ Tokenize
    \/ Generate \/ OutputDetection \/ OutputDone
    \/ \E k \in DOMAIN calls : ChunksDone(k)
    \/ \E k \in DOMAIN calls : \E d \in DOMAIN calls[k].detectors :
         ChunkReply(k, d) \/ ChunkFails(k, d) \/ DetectorReply(k, d) \/ DetectorFails(k, d)

\* Tasks are scheduled.  Of the environment it is assumed that services answer or fail:
\* the request timeouts of the clients bound the wait for the head of a response only.
Spec == Init /\ [][Next]_vars /\ WF_vars(Next)
-----------------------------------------------------------------------------
(* Properties.                                                             *)

\* A spot is a character of a text that is sent to detectors: the number of the input
\* it is in, and its position in the whole text.
Whole(text) == {1} \X (0..(Len(text) - 1))

\* Each mask makes an input of what it selects.
Covered(r) ==
    IF r.masks = <<>> THEN Whole(r.text)
    ELSE {x \in (DOMAIN r.masks) \X (0..(Len(r.text) - 1)) :
            x[2] >= r.masks[x[1]][1] /\ x[2] < r.masks[x[1]][2]}

\* What detectors should report: the pairs of a detector and a spot it scores, at
\* its threshold or above.
Reported(detectors, text, spots) ==
    {x \in (DOMAIN detectors) \X spots :
        LET score == Score[x[1]][text[x[2][2] + 1]]
        IN  score > 0 /\ score >= Threshold(x[1], detectors[x[1]])}

IsContents(d) == DetectorType[d] = "contents"

\* The detection for such a pair.  Only contents detectors report positions.
DetectionOf(text, x) ==
    LET char == text[x[2][2] + 1]
    IN  [detector |-> x[1], start |-> IF IsContents(x[1]) THEN x[2][2] ELSE 0,
         char |-> char, score |-> Score[x[1]][char]]

IsExactly(found, detectors, text, spots) ==
    /\ \E from \in Bijection(DOMAIN found, Reported(detectors, text, spots)) :
         \A n \in DOMAIN found : found[n] = DetectionOf(text, from[n])
    /\ \A m, n \in DOMAIN found :
         m < n /\ IsContents(found[m].detector) /\ IsContents(found[n].detector) => found[m].start <= found[n].start

\* Whatever the order in which chunkers, inputs and detectors answer, a response has
\* exactly the detections at or above the threshold: on the input, one for each mask
\* that selects the character, at their positions in the whole prompt and sorted by
\* them; on every choice, one each, under the choice they were made on, those of the
\* contents detectors sorted among themselves.
DetectionsExact ==
    response.status = 200 =>
        /\ response.input # <<>> => IsExactly(response.input, req.input, req.text, Covered(req))
        /\ \A i \in DOMAIN Outputs :
             IsExactly(IF i \in DOMAIN response.output THEN response.output[i] ELSE <<>>,
                       req.output, Outputs[i].text, Whole(Outputs[i].text))

\* The LLM is asked only when no input detector has anything to report on the part
\* of the prompt that the masks select.
InputGatesLLM == choices # <<>> => Reported(req.input, req.text, Covered(req)) = {}

\* A response is a success exactly when nothing failed on the way: a failure of one
\* of several concurrent calls is never left out.  Otherwise its status is that of
\* one of the failures, and one of the codes the service passes on or 500.
ErrorsAnswered ==
    pc = "done" =>
        /\ response.status = 200 <=> failed = {}
        /\ response.status # 200 => /\ response.status \in {Status(e) : e \in failed}
                                    /\ response.status \in PassedOn \union {500}
                                    /\ response.input = <<>> /\ response.output = <<>>

\* Every request is answered; only a request that needs a generation client that
\* is not configured ends without a response.
RequestAnswered == <>(pc = "done" \/ (pc = "panicked" /\ ~generation))
=============================================================================

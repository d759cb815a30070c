------------------- MODULE StreamingClassificationWithGen -------------------
(***************************************************************************)
(* One streaming_classification_with_gen request                           *)
(* (handlers/streaming_classification_with_gen.rs): text generation with   *)
(* detections on the input and, chunk by chunk, on the output.             *)
(*                                                                         *)
(*   handler    validation, input detection, opening the generation        *)
(*              stream; then it forwards the stream (no output detectors)  *)
(*              or spawns the two tasks below and returns;                 *)
(*   generator  consumes the generation stream: sends each text to the     *)
(*              detection pipeline and then pushes the message to the      *)
(*              shared generations vector;                                 *)
(*   responder  process_detection_batch_stream: builds a response for each *)
(*              batch from the generations of its chunk.                   *)
(*                                                                         *)
(* Message and vector indices start at 0, as in the code.  The pipeline is *)
(* what DetectionBatchStream promises for one input: batches in text       *)
(* order, then an error or the end.  Chunk boundaries may fall inside a    *)
(* text: the n-th text sent is made of the halves 2n-1 and 2n, and a chunk *)
(* is a run of consecutive halves.                                         *)
(***************************************************************************)
EXTENDS Integers, Sequences

CONSTANTS
    MaxMessages,  \* bound on the messages of the generation stream
    ResponseCap,  \* capacity of the response channel (128 in the code)
    Requests,     \* kinds of requests: [input, output : BOOLEAN]
    MayFail,      \* validation, detection, setup and the pipeline may fail, and
                  \* there may be no generation client
    GenMayFail,   \* the generation stream may carry errors
    MayLose,      \* the batch stream may lose a batch (two or more detectors)
    MayLeave      \* the client may disconnect

ASSUME GenBoundsAssumption == MaxMessages \in Nat \ {0} /\ ResponseCap \in Nat \ {0}
ASSUME GenRequestsAssumption == Requests \subseteq [input : BOOLEAN, output : BOOLEAN]

VARIABLES
    request,      \* which detectors the request names
    hpc,          \* where the handler is
    gpc,          \* where the generator is
    dpc,          \* where the responder is
    message,      \* the result the handler or the generator works on
    count,        \* results taken from the generation stream (enumerate)
    inputs,       \* indices of the texts sent to the pipeline, in order
    inputError,   \* an error was sent to the pipeline
    generations,  \* the shared vector: indices of the messages pushed
    pipe,         \* state of the batch stream
    covered,      \* how many halves of the inputs are in a batch
    batches,      \* batches waiting in the batch stream
    pending,      \* the response the handler or the responder is sending
    responses,    \* everything sent to the response channel
    consumed,     \* how many responses the client has read
    gone          \* the client has disconnected

tasks == <<request, hpc, gpc, dpc>>
genVars == <<message, count, inputs, inputError, generations>>
pipeVars == <<pipe, covered, batches>>
respVars == <<pending, responses>>
clientVars == <<consumed, gone>>
vars == <<tasks, genVars, pipeVars, respVars, clientVars>>

Tagged(t) == [tag |-> t]
Error == Tagged("error")
Range(from, upto) == [i \in 1 .. (upto - from + 1) |-> from + i - 1]
-----------------------------------------------------------------------------
Init ==
    /\ request \in Requests
    /\ hpc = "validate" /\ gpc = "idle" /\ dpc = "idle"
    /\ message = "none" /\ count = 0
    /\ inputs = <<>> /\ inputError = FALSE
    /\ generations = <<>>
    /\ pipe = "off" /\ covered = 0 /\ batches = <<>>
    /\ pending = Tagged("nothing")
    /\ responses = <<>>
    /\ consumed = 0 /\ gone = FALSE
-----------------------------------------------------------------------------
(* The response channel.                                                   *)

ResponseRoom == gone \/ Len(responses) - consumed < ResponseCap
Put(r) == responses' = IF gone THEN responses ELSE Append(responses, r)

ClientReads ==
    /\ ~gone
    /\ consumed < Len(responses)
    /\ consumed' = consumed + 1
    /\ UNCHANGED <<tasks, genVars, pipeVars, respVars, gone>>

ClientLeaves ==
    /\ MayLeave /\ ~gone
    /\ gone' = TRUE
    /\ UNCHANGED <<tasks, genVars, pipeVars, respVars, consumed>>
-----------------------------------------------------------------------------
(* The handler.                                                            *)

\* A message that ends the request: an error or the input detections.
Fail == hpc' = "last" /\ pending' = Error

\* get::<GenerationClient>("generation").unwrap(): there is no such client.
NoGenerationClient == MayFail /\ hpc' = "panicked" /\ UNCHANGED pending

Validate ==
    /\ hpc = "validate"
    /\ \/ hpc' = (IF request.input THEN "input" ELSE "open") /\ UNCHANGED pending
       \/ MayFail /\ Fail
    /\ UNCHANGED <<request, gpc, dpc, genVars, pipeVars, responses, clientVars>>

InputDetection ==
    /\ hpc = "input"
    /\ \/ hpc' = "open" /\ UNCHANGED pending
       \/ hpc' = "last" /\ pending' = Tagged("input")
       \/ MayFail /\ Fail
       \/ NoGenerationClient
    /\ UNCHANGED <<request, gpc, dpc, genVars, pipeVars, responses, clientVars>>

OpenStream ==
    /\ hpc = "open"
    /\ \/ hpc' = (IF request.output THEN "setup" ELSE "forward") /\ UNCHANGED pending
       \/ MayFail /\ Fail
       \/ NoGenerationClient
    /\ UNCHANGED <<request, gpc, dpc, genVars, pipeVars, responses, clientVars>>

SendLast ==
    /\ hpc = "last"
    /\ ResponseRoom
    /\ Put(pending)
    /\ hpc' = "stopped"
    /\ UNCHANGED <<request, gpc, dpc, genVars, pipeVars, pending, clientVars>>

\* handle_output_detection: the two tasks are spawned even if the detection
\* streams could not be created; the responder then only sends the error.
Setup ==
    /\ hpc = "setup"
    /\ hpc' = "stopped"
    /\ gpc' = "next"
    /\ \/ dpc' = "await" /\ pipe' = "running" /\ UNCHANGED pending
       \/ MayFail /\ dpc' = "last" /\ pending' = Error /\ UNCHANGED pipe
    /\ UNCHANGED <<request, genVars, covered, batches, responses, clientVars>>

\* The results the generation stream may yield.
Results == {"ok"} \union (IF GenMayFail THEN {"error"} ELSE {})

\* Mutant: the loop goes on after an error of the generation stream.
ForwardNextGoesOn(r) ==
    /\ hpc = "forward"
    /\ count < MaxMessages
    /\ count' = count + 1
    /\ pending' = IF r = "error" THEN Error ELSE [tag |-> "raw", index |-> count]
    /\ hpc' = "forward_send"
    /\ UNCHANGED <<request, gpc, dpc, message, inputs, inputError, generations,
                   pipeVars, responses, clientVars>>

\* forward_generation_stream
ForwardNext(r) ==
    /\ hpc = "forward"
    /\ count < MaxMessages
    /\ count' = count + 1
    /\ pending' = IF r = "error" THEN Error ELSE [tag |-> "raw", index |-> count]
    /\ hpc' = IF r = "error" THEN "last" ELSE "forward_send"
    /\ UNCHANGED <<request, gpc, dpc, message, inputs, inputError, generations,
                   pipeVars, responses, clientVars>>

ForwardSend ==
    /\ hpc = "forward_send"
    /\ ResponseRoom
    /\ Put(pending)
    /\ hpc' = IF gone THEN "stopped" ELSE "forward"
    /\ UNCHANGED <<request, gpc, dpc, genVars, pipeVars, pending, clientVars>>

ForwardEnd ==
    /\ hpc = "forward"
    /\ count > 0 \/ GenMayFail
    /\ hpc' = "stopped"
    /\ UNCHANGED <<request, gpc, dpc, genVars, pipeVars, respVars, clientVars>>
-----------------------------------------------------------------------------
(* The generator.                                                          *)

GenNext(r) ==
    /\ gpc = "next"
    /\ count < MaxMessages
    /\ count' = count + 1
    /\ message' = r
    /\ gpc' = "send"
    /\ UNCHANGED <<request, hpc, dpc, inputs, inputError, generations, pipeVars, respVars, clientVars>>

\* The text goes to the pipeline first ...
GenSend ==
    /\ gpc = "send"
    /\ inputs' = IF message = "ok" /\ ~inputError THEN Append(inputs, count - 1) ELSE inputs
    /\ inputError' = (inputError \/ message = "error")
    /\ gpc' = IF message = "ok" THEN "push" ELSE "next"
    /\ UNCHANGED <<request, hpc, dpc, message, count, generations, pipeVars, respVars, clientVars>>

\* ... and the message is pushed to the shared vector afterwards.
GenPush ==
    /\ gpc = "push"
    /\ generations' = Append(generations, count - 1)
    /\ gpc' = "next"
    /\ UNCHANGED <<request, hpc, dpc, message, count, inputs, inputError, pipeVars, respVars, clientVars>>

GenEnd ==
    /\ gpc = "next"
    /\ count > 0 \/ GenMayFail
    /\ gpc' = "closed"
    /\ UNCHANGED <<request, hpc, dpc, genVars, pipeVars, respVars, clientVars>>
-----------------------------------------------------------------------------
(* The pipeline.                                                           *)

\* The index of the message that half h belongs to.
MessageOf(h) == inputs[(h + 1) \div 2]

Uncovered == (covered + 1) .. (2 * Len(inputs))

\* All detectors have answered for the chunk that ends with half h.
PipeBatch(h) ==
    /\ pipe = "running"
    /\ h \in Uncovered
    /\ covered' = h
    /\ batches' = Append(batches, [tag |-> "batch", from |-> MessageOf(covered + 1), upto |-> MessageOf(h)])
    /\ UNCHANGED <<pipe, tasks, genVars, respVars, clientVars>>

\* See EveryChunkDelivered in DetectionBatchStream.
PipeLoses(h) ==
    /\ MayLose
    /\ pipe = "running"
    /\ h \in Uncovered
    /\ covered' = h
    /\ UNCHANGED <<pipe, batches, tasks, genVars, respVars, clientVars>>

PipeError ==
    /\ pipe = "running"
    /\ pipe' = "failed"
    /\ batches' = Append(batches, Error)
    /\ UNCHANGED <<covered, tasks, genVars, respVars, clientVars>>

\* A chunker or detector call fails.
PipeFails == MayFail /\ PipeError

\* The chunk stream may fail after its request stream has panicked on the error of
\* the generation stream, or stay open.
PipeForwardsError == inputError /\ PipeError

PipeCloses ==
    /\ pipe = "running"
    /\ gpc = "closed" /\ ~inputError /\ Uncovered = {}
    /\ pipe' = "closed"
    /\ UNCHANGED <<covered, batches, tasks, genVars, respVars, clientVars>>
-----------------------------------------------------------------------------
(* The responder.                                                          *)

\* Mutant: the part of the range that is there.
SliceClamped(from, upto) ==
    SubSeq(generations, from + 1, IF upto < Len(generations) THEN upto + 1 ELSE Len(generations))

\* generations.get(from..=upto).unwrap_or_default(): nothing at all when the
\* vector is shorter than the range.
Slice(from, upto) ==
    IF upto < Len(generations) THEN SubSeq(generations, from + 1, upto + 1) ELSE <<>>

MkChunk(b, used) == [tag |-> "chunk", from |-> b.from, upto |-> b.upto, used |-> used]

\* output_detection_response: first().unwrap() panics on an empty slice for a
\* chunk that starts with the first message.
Respond ==
    /\ dpc = "await"
    /\ batches # <<>>
    /\ Head(batches).tag = "batch"
    /\ batches' = Tail(batches)
    /\ LET b == Head(batches)
           used == Slice(b.from, b.upto)
       IN  IF b.from = 0 /\ used = <<>>
           THEN dpc' = "panicked" /\ UNCHANGED pending
           ELSE /\ dpc' = "send"
                /\ pending' = MkChunk(b, used)
    /\ UNCHANGED <<request, hpc, gpc, genVars, pipe, covered, responses, clientVars>>

RespondError ==
    /\ dpc = "await"
    /\ batches # <<>>
    /\ Head(batches) = Error
    /\ batches' = Tail(batches)
    /\ dpc' = "last"
    /\ pending' = Error
    /\ UNCHANGED <<request, hpc, gpc, genVars, pipe, covered, responses, clientVars>>

\* Mutant: the responder waits for more batches after an error.
ResponderSendsGoesOn ==
    /\ dpc \in {"send", "last"}
    /\ ResponseRoom
    /\ Put(pending)
    /\ dpc' = IF gone THEN "stopped" ELSE "await"
    /\ UNCHANGED <<request, hpc, gpc, genVars, pipeVars, pending, clientVars>>

\* A response, or the error that ends the task.
ResponderSends ==
    /\ dpc \in {"send", "last"}
    /\ ResponseRoom
    /\ Put(pending)
    /\ dpc' = IF dpc = "last" \/ gone THEN "stopped" ELSE "await"
    /\ UNCHANGED <<request, hpc, gpc, genVars, pipeVars, pending, clientVars>>

ResponderEnd ==
    /\ dpc = "await"
    /\ batches = <<>>
    /\ pipe = "closed"
    /\ dpc' = "stopped"
    /\ UNCHANGED <<request, hpc, gpc, genVars, pipeVars, respVars, clientVars>>

\* Every task of the request has ended: the response channel is closed.
AllDone ==
    /\ hpc \in {"stopped", "panicked"}
    /\ gpc \in {"idle", "closed"}
    /\ dpc \in {"idle", "stopped", "panicked"}

Finished ==
    /\ AllDone
    /\ pipe # "running"
    /\ gone \/ consumed = Len(responses)
    /\ UNCHANGED vars
-----------------------------------------------------------------------------
Handler ==
    \/ Validate \/ InputDetection \/ OpenStream \/ SendLast \/ Setup
    \/ \E r \in Results : ForwardNext(r)
    \/ ForwardSend \/ ForwardEnd

Generator == (\E r \in Results : GenNext(r)) \/ GenSend \/ GenPush \/ GenEnd

Pipeline ==
    \/ \E h \in Uncovered : PipeBatch(h) \/ PipeLoses(h)
    \/ PipeCloses

Responder == Respond \/ RespondError \/ ResponderSends \/ ResponderEnd

Next ==
    \/ Handler \/ Generator \/ Pipeline \/ PipeFails \/ PipeForwardsError \/ Responder
    \/ ClientReads \/ ClientLeaves
    \/ Finished

Spec == Init /\ [][Next]_vars

\* Tasks are polled.  Of the environment it is assumed that the generation stream
\* goes on or ends, that calls return and that the client reads; nothing has to fail.
Fairness ==
    /\ WF_vars(Handler) /\ WF_vars(Generator) /\ WF_vars(Pipeline)
    /\ WF_vars(Responder) /\ WF_vars(ClientReads)

FairSpec == Spec /\ Fairness
-----------------------------------------------------------------------------
(* Properties.                                                             *)

\* "Get subset of generations relevant for this chunk": a response is built
\* from exactly the messages its chunk spans, and the lookup does not panic.
ResponseUsesItsGenerations ==
    /\ dpc # "panicked"
    /\ \A i \in DOMAIN responses : responses[i].tag = "chunk" =>
           responses[i].used = Range(responses[i].from, responses[i].upto)

\* The vector lags behind the pipeline by one message at most, the one the
\* generator has just sent: the slice of a chunk is either right or, when the
\* chunk ends with that very message, empty; it never holds other messages.
SliceIsExactOrEmpty ==
    \A i \in DOMAIN responses : responses[i].tag = "chunk" =>
        responses[i].used \in {<<>>, Range(responses[i].from, responses[i].upto)}

\* "Send error to response channel and terminate": nothing follows an error,
\* from whichever of the tasks it comes.
ErrorIsLast == \A i \in 1 .. Len(responses) - 1 : responses[i] # Error

\* All tasks of a request end, also when the pipeline fails, the client leaves or
\* the responder panics: none of them waits for a task that is gone.  Only an error
\* of the generation stream, after which the chunk stream may stay open for ever,
\* can keep the responder waiting.
AllTasksEnd == <>AllDone \/ <>[](inputError /\ pipe = "running")
=============================================================================

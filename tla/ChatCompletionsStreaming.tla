---------------------- MODULE ChatCompletionsStreaming ----------------------
(***************************************************************************)
(* One streaming chat completions detection request                        *)
(* (handlers/chat_completions_detection/streaming.rs).                     *)
(*                                                                         *)
(*   handler  the task spawned by handle_streaming: validation, input      *)
(*            detection, opening the LLM stream, handle_output_detection   *)
(*            with its process_detection_batch_stream loop, the final      *)
(*            message and the closing None;                                *)
(*   reader   process_chat_completion_stream: reads the LLM stream, keeps  *)
(*            CompletionState, feeds the detection pipeline or forwards.   *)
(*            A task of its own when there are chunk detectors, otherwise  *)
(*            awaited by the handler;                                      *)
(*   pipeline chunkers, detectors and the DetectionBatchStream, reduced to *)
(*            what DetectionBatchStream promises: per choice, batches in   *)
(*            text order, then an error or the end.  Batches may be lost   *)
(*            (MayLose): see EveryChunkDelivered there;                    *)
(*   client   reads the response channel or disconnects.                   *)
(*                                                                         *)
(* Messages are numbered from 1 (message_index + 1).  Chunk boundaries may *)
(* fall inside a message: message i is made of the halves 2i-1 and 2i, and *)
(* a chunk is a run of consecutive halves of the texts of its choice.      *)
(***************************************************************************)
EXTENDS Integers, Sequences, FiniteSets

CONSTANTS
    Choices,       \* the n choices requested
    MaxMessages,   \* bound on the messages of the LLM stream
    ResponseCap,   \* capacity of the response channel (128 in the code)
    Requests,      \* kinds of requests: [input, chunk, whole : BOOLEAN]
    CallMayFail,   \* validation, unary detection and stream opening may fail
    SetupMayFail,  \* text_contents_detection_streams may fail
    PipeMayFail,   \* a chunker or detector call of the pipeline may fail
    LlmMayFail,    \* the LLM stream may carry errors and end early
    MayLose,       \* the batch stream may lose a batch
    MayLeave       \* the client may disconnect

ASSUME ChatChoicesAssumption == IsFiniteSet(Choices) /\ Choices # {}
ASSUME BoundsAssumption == MaxMessages \in Nat /\ ResponseCap \in Nat \ {0}
ASSUME RequestsAssumption == Requests \subseteq [input : BOOLEAN, chunk : BOOLEAN, whole : BOOLEAN]

VARIABLES
    request,      \* which detectors the request names
    hpc,          \* where the handler is
    outbox,       \* responses the handler sends before it goes on ...
    cont,         \* ... to this place,
    onGone,       \* ... or to this one, if it checks the send and the client is gone
    setup,        \* choices whose detection streams are still to be created
    missing,      \* choices whose detection streams could not be created
    guard,        \* the handler holds a reference into the completions map
    batch,        \* the batch the handler is working on
    rpc,          \* where the reader is
    msgs,         \* messages the reader has taken from the LLM stream
    metadata,     \* CompletionState.metadata is set
    usage,        \* CompletionState.usage is set
    completions,  \* CompletionState.completions: message numbers per choice
    texts,        \* messages sent to the input channel of each choice
    inputError,   \* an error was sent to the input channels
    pipe,         \* state of the batch stream
    covered,      \* last half of each choice that is in a batch
    batches,      \* batches waiting in the batch stream
    responses,    \* everything sent to the response channel
    consumed,     \* how many responses have left the channel
    gone          \* the client has disconnected

handlerVars == <<request, hpc, outbox, cont, onGone, setup, missing, guard, batch>>
stateVars == <<metadata, usage, completions>>
readerVars == <<rpc, msgs, stateVars, texts, inputError>>
pipeVars == <<pipe, covered, batches>>
clientVars == <<consumed, gone>>
vars == <<handlerVars, readerVars, pipeVars, responses, clientVars>>
-----------------------------------------------------------------------------
Sets == INSTANCE FiniteSetsExt

(* Messages and responses.                                                 *)

Message ==
    [kind : {"choice"}, choice : Choices, text : BOOLEAN, finish : BOOLEAN]
        \union [kind : {"usage", "nochoice", "error"}]
Current == msgs[Len(msgs)]

Response ==
    [tag : {"chunk"}, choice : Choices, upto : Nat, finish : BOOLEAN]
        \union [tag : {"finish"}, choice : Choices]
        \union [tag : {"raw"}, index : Nat]
        \union [tag : {"final"}, usage : BOOLEAN, whole : BOOLEAN]
        \union [tag : {"input", "none"}]
        \union [tag : {"error"}, cause : {"call", "setup", "pipeline", "lookup", "whole", "llm"}]
None == [tag |-> "none"]
Err(cause) == [tag |-> "error", cause |-> cause]
NoBatch == [tag |-> "nobatch"]

HasFinished(c) ==
    \E i \in DOMAIN msgs : msgs[i].kind = "choice" /\ msgs[i].choice = c /\ msgs[i].finish
Unfinished == {c \in Choices : ~HasFinished(c)}

Halves(c) == UNION {{2 * i - 1, 2 * i} : i \in texts[c]}
Uncovered(c) == {h \in Halves(c) : h > covered[c]}
MessageOf(h) == (h + 1) \div 2
-----------------------------------------------------------------------------
Init ==
    /\ request \in Requests
    /\ hpc = "validate"
    /\ outbox = <<>> /\ cont = "validate" /\ onGone = "validate"
    /\ setup = Choices /\ missing = {}
    /\ guard = FALSE
    /\ batch = NoBatch
    /\ rpc = "idle"
    /\ msgs = <<>>
    /\ metadata = FALSE /\ usage = FALSE
    /\ completions = [c \in Choices |-> {}]
    /\ texts = [c \in Choices |-> {}]
    /\ inputError = FALSE
    /\ pipe = "off"
    /\ covered = [c \in Choices |-> 0]
    /\ batches = <<>>
    /\ responses = <<>>
    /\ consumed = 0
    /\ gone = FALSE
-----------------------------------------------------------------------------
(* The response channel.                                                   *)

ResponseRoom == gone \/ Len(responses) - consumed < ResponseCap

Put(r) == responses' = IF gone THEN responses ELSE Append(responses, r)

\* The handler sends rs one after the other and goes on to next; if the result
\* of the send is checked, it goes to ifGone when the client is gone.
Say(rs, next, ifGone) ==
    /\ hpc' = "send"
    /\ outbox' = rs
    /\ cont' = next
    /\ onGone' = ifGone

HandlerSends ==
    /\ hpc = "send"
    /\ ResponseRoom
    /\ Put(Head(outbox))
    /\ outbox' = Tail(outbox)
    /\ hpc' = IF Tail(outbox) # <<>> THEN "send" ELSE IF gone THEN onGone ELSE cont
    /\ guard' = IF Tail(outbox) = <<>> THEN FALSE ELSE guard
    /\ UNCHANGED <<request, cont, onGone, setup, missing, batch, readerVars, pipeVars, clientVars>>

ClientReads ==
    /\ ~gone
    /\ consumed < Len(responses)
    /\ consumed' = consumed + 1
    /\ UNCHANGED <<handlerVars, readerVars, pipeVars, responses, gone>>

\* The receiver is dropped with the responses in it.
ClientLeaves ==
    /\ MayLeave
    /\ ~gone
    /\ gone' = TRUE
    /\ consumed' = Len(responses)
    /\ UNCHANGED <<handlerVars, readerVars, pipeVars, responses>>
-----------------------------------------------------------------------------
(* The handler up to the LLM stream.                                       *)

Goto(next) == hpc' = next /\ UNCHANGED <<outbox, cont, onGone>>

\* validate_detectors on the input and on the output detectors.
Validate ==
    /\ hpc = "validate"
    /\ \/ Goto(IF request.input THEN "input" ELSE "open")
       \/ CallMayFail /\ Say(<<Err("call"), None>>, "stopped", "stopped")
    /\ UNCHANGED <<request, setup, missing, guard, batch, readerVars, pipeVars, responses, clientVars>>

\* Mutant: the return after sending the input detections is missing.
InputDetectionGoesOn ==
    /\ hpc = "input"
    /\ \/ Goto("open")
       \/ Say(<<[tag |-> "input"]>>, "open", "open")
    /\ UNCHANGED <<request, setup, missing, guard, batch, readerVars, pipeVars, responses, clientVars>>

\* handle_input_detection: no detections, a message with the detections, or an error.
InputDetection ==
    /\ hpc = "input"
    /\ \/ Goto("open")
       \/ Say(<<[tag |-> "input"], None>>, "stopped", "stopped")
       \/ CallMayFail /\ Say(<<Err("call"), None>>, "stopped", "stopped")
    /\ UNCHANGED <<request, setup, missing, guard, batch, readerVars, pipeVars, responses, clientVars>>

\* chat_completion_stream; without chunk detectors the reader is awaited.
OpenStream ==
    /\ hpc = "open"
    /\ \/ /\ Goto(IF request.chunk THEN "setup" ELSE "await_reader")
          /\ rpc' = IF request.chunk THEN "idle" ELSE "next"
       \/ /\ CallMayFail
          /\ Say(<<Err("call"), None>>, "stopped", "stopped")
          /\ UNCHANGED rpc
    /\ UNCHANGED <<request, setup, missing, guard, batch, msgs, stateVars, texts, inputError,
                   pipeVars, responses, clientVars>>

\* handle_output_detection creates the detection streams of each choice; a
\* failure is reported and the loop goes on with the next choice.
SetupChoice(c) ==
    /\ hpc = "setup"
    /\ c \in setup
    /\ setup' = setup \ {c}
    /\ \/ Goto("setup") /\ UNCHANGED missing
       \/ /\ SetupMayFail
          /\ Say(<<Err("setup")>>, "setup", "setup")
          /\ missing' = missing \union {c}
    /\ UNCHANGED <<request, guard, batch, readerVars, pipeVars, responses, clientVars>>

\* The reader is spawned and the batch stream created.
SetupDone ==
    /\ hpc = "setup"
    /\ setup = {}
    /\ Goto("await_batch")
    /\ rpc' = "next"
    /\ pipe' = "running"
    /\ UNCHANGED <<request, setup, missing, guard, batch, msgs, stateVars, texts, inputError,
                   covered, batches, responses, clientVars>>
-----------------------------------------------------------------------------
(* The reader: process_chat_completion_stream.                             *)

\* The messages an LLM may send next: a choice ends with the message that has
\* a finish reason, the usage message comes last and has no choices.  Unless the
\* stream may end early, the bound leaves room for the messages that finish the
\* choices.
NextMessage ==
    {m \in Message :
        /\ m.kind = "choice" => m.choice \in Unfinished
        /\ m.kind = "usage" => Unfinished = {}
        /\ m.kind \in {"nochoice", "error"} => LlmMayFail
        /\ \/ LlmMayFail /\ Len(msgs) < MaxMessages
           \/ ~LlmMayFail /\ m.kind = "choice" /\ m.finish
           \/ ~LlmMayFail /\ Len(msgs) + Cardinality(Unfinished) < MaxMessages}

ReaderNext(m) ==
    /\ rpc = "next"
    /\ \A i \in DOMAIN msgs : msgs[i].kind # "usage"
    /\ msgs' = Append(msgs, m)
    /\ rpc' = IF request.chunk THEN "record" ELSE "forward"
    /\ UNCHANGED <<handlerVars, stateVars, texts, inputError, pipeVars, responses, clientVars>>

\* Without chunk detectors the message goes to the client first; if the client
\* is gone the reader returns.  Errors are sent without looking at the result.
ReaderForward ==
    /\ rpc = "forward"
    /\ ResponseRoom
    /\ Put(IF Current.kind = "error" THEN Err("llm") ELSE [tag |-> "raw", index |-> Len(msgs)])
    /\ rpc' = IF Current.kind = "error" THEN "next" ELSE IF gone THEN "closed" ELSE "record"
    /\ UNCHANGED <<handlerVars, msgs, stateVars, texts, inputError, pipeVars, clientVars>>

\* There is no CompletionState when there are no output detectors at all.
KeepsState == request.chunk \/ request.whole

ReaderRecordUsage ==
    /\ rpc = "record"
    /\ Current.kind = "usage"
    /\ usage' = KeepsState
    /\ rpc' = "next"
    /\ UNCHANGED <<handlerVars, msgs, metadata, completions, texts, inputError,
                   pipeVars, responses, clientVars>>

\* Mutant: the completion is filed under the previous message's number.
ReaderRecordOffByOne ==
    /\ rpc = "record"
    /\ Current.kind = "choice"
    /\ ~guard
    /\ metadata' = (metadata \/ (KeepsState /\ Len(msgs) = 1))
    /\ completions' = [completions EXCEPT ![Current.choice] = @ \union {Len(msgs) - 1}]
    /\ rpc' = IF request.chunk /\ Current.text THEN "send_input" ELSE "next"
    /\ UNCHANGED <<handlerVars, msgs, usage, texts, inputError, pipeVars, responses, clientVars>>

\* Metadata is taken from the first message of the stream only; the completion
\* is inserted before its text is sent to the pipeline.  The insert blocks, with
\* the thread that runs it, while the handler holds a reference into the map.
ReaderRecordChoice ==
    /\ rpc = "record"
    /\ Current.kind = "choice"
    /\ ~guard
    /\ metadata' = (metadata \/ (KeepsState /\ Len(msgs) = 1))
    /\ completions' = IF KeepsState THEN [completions EXCEPT ![Current.choice] = @ \union {Len(msgs)}]
                      ELSE completions
    /\ rpc' = IF request.chunk /\ Current.text THEN "send_input" ELSE "next"
    /\ UNCHANGED <<handlerVars, msgs, usage, texts, inputError, pipeVars, responses, clientVars>>

ReaderRecordNoChoice ==
    /\ rpc = "record"
    /\ Current.kind = "nochoice"
    /\ metadata' = (metadata \/ (KeepsState /\ Len(msgs) = 1))
    /\ rpc' = "next"
    /\ UNCHANGED <<handlerVars, msgs, usage, completions, texts, inputError,
                   pipeVars, responses, clientVars>>

\* An error of the LLM stream goes to every input channel; the loop goes on.
ReaderRecordError ==
    /\ rpc = "record"
    /\ Current.kind = "error"
    /\ inputError' = TRUE
    /\ rpc' = "next"
    /\ UNCHANGED <<handlerVars, msgs, stateVars, texts, pipeVars, responses, clientVars>>

\* The input receiver of a choice that failed to set up is dropped.
ReaderSendInput ==
    /\ rpc = "send_input"
    /\ texts' = IF Current.choice \in missing THEN texts
                ELSE [texts EXCEPT ![Current.choice] = @ \union {Len(msgs)}]
    /\ rpc' = "next"
    /\ UNCHANGED <<handlerVars, msgs, stateVars, inputError, pipeVars, responses, clientVars>>

\* The LLM stream has ended: the input channels are closed.
ReaderEnd ==
    /\ rpc = "next"
    /\ Unfinished = {} \/ LlmMayFail
    /\ rpc' = "closed"
    /\ UNCHANGED <<handlerVars, msgs, stateVars, texts, inputError, pipeVars, responses, clientVars>>
-----------------------------------------------------------------------------
(* The pipeline.                                                           *)

MkBatch(c, h) ==
    [tag |-> "batch", choice |-> c, from |-> MessageOf(Sets!Min(Uncovered(c))), upto |-> h]

\* All detectors have answered for the chunk that ends with half h.
PipeBatch(c, h) ==
    /\ pipe = "running"
    /\ h \in Uncovered(c)
    /\ covered' = [covered EXCEPT ![c] = h]
    /\ batches' = Append(batches, MkBatch(c, h))
    /\ UNCHANGED <<pipe, handlerVars, readerVars, responses, clientVars>>

PipeLoses(c, h) ==
    /\ MayLose
    /\ pipe = "running"
    /\ h \in Uncovered(c)
    /\ covered' = [covered EXCEPT ![c] = h]
    /\ UNCHANGED <<pipe, batches, handlerVars, readerVars, responses, clientVars>>

PipeError ==
    /\ pipe = "running"
    /\ pipe' = "failed"
    /\ batches' = Append(batches, [tag |-> "error"])
    /\ UNCHANGED <<covered, handlerVars, readerVars, responses, clientVars>>

\* A chunker or detector call fails.
PipeFails == PipeMayFail /\ PipeError

\* An error in the input channel makes the request stream of the chunker panic; its
\* response stream may fail then, which comes through, or stay open.
PipeForwardsError == inputError /\ missing # Choices /\ PipeError

\* Mutant: closes when the batcher is empty, without waiting for the streams.
PipeClosesEarly ==
    /\ pipe = "running"
    /\ ~inputError /\ \A c \in Choices : Uncovered(c) = {}
    /\ pipe' = "closed"
    /\ UNCHANGED <<covered, batches, handlerVars, readerVars, responses, clientVars>>

\* Mutant: waits for streams that were never created.
PipeClosesIfComplete ==
    /\ pipe = "running"
    /\ missing = {}
    /\ rpc = "closed" /\ ~inputError /\ \A c \in Choices : Uncovered(c) = {}
    /\ pipe' = "closed"
    /\ UNCHANGED <<covered, batches, handlerVars, readerVars, responses, clientVars>>

\* Every detection stream has ended and every chunk was batched; there is
\* nothing to wait for when no detection stream could be created.
PipeCloses ==
    /\ pipe = "running"
    /\ \/ missing = Choices
       \/ rpc = "closed" /\ ~inputError /\ \A c \in Choices : Uncovered(c) = {}
    /\ pipe' = "closed"
    /\ UNCHANGED <<covered, batches, handlerVars, readerVars, responses, clientVars>>
-----------------------------------------------------------------------------
(* The handler: process_detection_batch_stream.                            *)

\* Mutant: the newest batch first.
TakeNewestBatch ==
    /\ hpc = "await_batch"
    /\ batches # <<>>
    /\ batches' = SubSeq(batches, 1, Len(batches) - 1)
    /\ batches[Len(batches)].tag = "batch"
    /\ batch' = batches[Len(batches)]
    /\ Goto("respond")
    /\ UNCHANGED <<request, setup, missing, guard, readerVars, pipe, covered, responses, clientVars>>

TakeBatch ==
    /\ hpc = "await_batch"
    /\ batches # <<>>
    /\ batches' = Tail(batches)
    /\ \/ /\ Head(batches).tag = "batch"
          /\ batch' = Head(batches)
          /\ Goto("respond")
       \/ /\ Head(batches).tag = "error"
          /\ Say(<<Err("pipeline"), None>>, "final", "final")
          /\ UNCHANGED batch
    /\ UNCHANGED <<request, setup, missing, guard, readerVars, pipe, covered, responses, clientVars>>

\* Mutant: returns when the stream is closed, with batches still queued.
BatchesEndEarly ==
    /\ hpc = "await_batch"
    /\ pipe \in {"closed", "failed"}
    /\ Goto("final")
    /\ UNCHANGED <<request, setup, missing, guard, batch, readerVars, pipeVars, responses, clientVars>>

BatchesEnd ==
    /\ hpc = "await_batch"
    /\ batches = <<>>
    /\ pipe \in {"closed", "failed"}
    /\ Goto("final")
    /\ UNCHANGED <<request, setup, missing, guard, batch, readerVars, pipeVars, responses, clientVars>>

\* The completions of the chunk, looked up in CompletionState.
InChunk(b) == {i \in completions[b.choice] : b.from <= i /\ i <= MessageOf(b.upto)}

\* output_detection_response: the last completion of the chunk with the text
\* and the detections of the chunk put in.  It is an error if none is found, be
\* it that the choice has no entry at all until COMPLETION_WAIT_TIMEOUT or that
\* the entry has no message of the chunk.
Respond ==
    /\ hpc = "respond"
    /\ IF InChunk(batch) # {}
       THEN Say(<<[tag |-> "chunk", choice |-> batch.choice, upto |-> batch.upto,
                   finish |-> msgs[Sets!Max(InChunk(batch))].finish]>>, "check_finish", "final")
       ELSE Say(<<Err("lookup"), None>>, "final", "final")
    /\ UNCHANGED <<request, setup, missing, guard, batch, readerVars, pipeVars, responses, clientVars>>

\* chat_completions.keys().rev().nth(1) is the last message of the chunk and
\* the last completion has a finish reason: it is sent too, while the
\* reference into the map is held.
FinishDue(b) ==
    LET keys == completions[b.choice]
    IN  /\ Cardinality(keys) >= 2
        /\ Sets!Max(keys \ {Sets!Max(keys)}) = MessageOf(b.upto)
        /\ msgs[Sets!Max(keys)].finish

CheckFinish ==
    /\ hpc = "check_finish"
    /\ IF FinishDue(batch)
       THEN /\ Say(<<[tag |-> "finish", choice |-> batch.choice]>>, "await_batch", "await_batch")
            /\ guard' = TRUE
       ELSE Goto("await_batch") /\ UNCHANGED guard
    /\ UNCHANGED <<request, setup, missing, batch, readerVars, pipeVars, responses, clientVars>>
-----------------------------------------------------------------------------
(* The handler: the end of handle_output_detection and of handle_streaming. *)

AwaitReader ==
    /\ hpc = "await_reader"
    /\ rpc = "closed"
    /\ Goto(IF request.whole THEN "final" ELSE "end")
    /\ UNCHANGED <<request, setup, missing, guard, batch, readerVars, pipeVars, responses, clientVars>>

\* Mutant: sends None itself and leaves the caller to send it again.
FinalMessageNone ==
    /\ hpc = "final"
    /\ Say(<<[tag |-> "final", usage |-> usage, whole |-> request.whole], None>>, "end", "end")
    /\ UNCHANGED <<request, setup, missing, guard, batch, readerVars, pipeVars, responses, clientVars>>

\* handle_whole_doc_detection runs the whole-document detectors on every choice;
\* one failure is an error.
WholeDoc ==
    \/ Say(<<[tag |-> "final", usage |-> usage, whole |-> TRUE]>>, "end", "end")
    \/ CallMayFail /\ Say(<<Err("whole"), None>>, "end", "end")

\* The final message with whole-document detections and usage;
\* completion_state.id().unwrap() panics when there is no metadata.
FinalMessage ==
    /\ hpc = "final"
    /\ \/ /\ ~request.whole /\ ~usage
          /\ Goto("end")
       \/ /\ request.whole \/ usage
          /\ ~metadata
          /\ Goto("panicked")
       \/ /\ ~request.whole /\ usage /\ metadata
          /\ Say(<<[tag |-> "final", usage |-> TRUE, whole |-> FALSE]>>, "end", "end")
       \/ request.whole /\ metadata /\ WholeDoc
    /\ UNCHANGED <<request, setup, missing, guard, batch, readerVars, pipeVars, responses, clientVars>>

\* Mutant: returns without the None.
SayNothing ==
    /\ hpc = "end"
    /\ Goto("stopped")
    /\ UNCHANGED <<request, setup, missing, guard, batch, readerVars, pipeVars, responses, clientVars>>

SayNone ==
    /\ hpc = "end"
    /\ Say(<<None>>, "stopped", "stopped")
    /\ UNCHANGED <<request, setup, missing, guard, batch, readerVars, pipeVars, responses, clientVars>>

HandlerDone == hpc \in {"stopped", "panicked"}

\* The handler has returned, the reader has come to the end of the LLM stream.
Finished ==
    /\ HandlerDone
    /\ rpc \in {"idle", "closed"}
    /\ gone \/ consumed = Len(responses)
    /\ pipe # "running"
    /\ UNCHANGED vars
-----------------------------------------------------------------------------
Handler ==
    \/ HandlerSends
    \/ Validate \/ InputDetection \/ OpenStream
    \/ \E c \in Choices : SetupChoice(c)
    \/ SetupDone
    \/ TakeBatch \/ BatchesEnd \/ Respond \/ CheckFinish
    \/ AwaitReader \/ FinalMessage \/ SayNone

ReaderSteps ==
    \/ \E m \in NextMessage : ReaderNext(m)
    \/ ReaderForward
    \/ ReaderRecordUsage \/ ReaderRecordChoice \/ ReaderRecordNoChoice \/ ReaderRecordError
    \/ ReaderSendInput
    \/ ReaderEnd

Pipeline ==
    \/ \E c \in Choices : \E h \in Uncovered(c) : PipeBatch(c, h) \/ PipeLoses(c, h)
    \/ PipeCloses

Next ==
    \/ Handler
    \/ ReaderSteps
    \/ Pipeline \/ PipeFails \/ PipeForwardsError
    \/ ClientReads \/ ClientLeaves
    \/ Finished

Spec == Init /\ [][Next]_vars

\* Every task is eventually polled, also while another one blocks the thread that
\* runs it (the runtime has a thread to spare).  Of the environment it is assumed
\* that the LLM sends or ends its stream, that chunkers and detectors answer and
\* that the client reads: the request timeouts of the clients bound the wait for
\* the head of a response, not for the rest of it.  No call or stream has to fail.
Fairness ==
    /\ WF_vars(Handler)
    /\ WF_vars(ReaderSteps)
    /\ WF_vars(Pipeline)
    /\ WF_vars(ClientReads)

FairSpec == Spec /\ Fairness
-----------------------------------------------------------------------------
(* Properties.                                                             *)

Sent(t) == \E i \in DOMAIN responses : responses[i].tag = t

\* The messages a batch refers to are in CompletionState by the time the
\* handler can see the batch, so that neither the 30 s wait nor "no chat
\* completions found for chunk" is ever the outcome of a lookup.
BatchIsBacked ==
    /\ \A i \in DOMAIN batches : batches[i].tag = "batch" =>
           {batches[i].from, MessageOf(batches[i].upto)} \subseteq completions[batches[i].choice]
    /\ hpc = "respond" => {batch.from, MessageOf(batch.upto)} \subseteq completions[batch.choice]
    /\ \A i \in DOMAIN responses : responses[i] # Err("lookup")

\* The text of a choice reaches the client in order, each piece once.
ChunksInOrder ==
    \A i, j \in DOMAIN responses :
        (/\ i < j
         /\ responses[i].tag = "chunk" /\ responses[j].tag = "chunk"
         /\ responses[i].choice = responses[j].choice)
        => responses[i].upto < responses[j].upto

\* A request with chunk detectors that ends without an error has sent all text
\* the LLM generated, each piece in a message that carries its detections.
TextComplete ==
    (hpc = "stopped" /\ request.chunk /\ ~Sent("error") /\ ~Sent("input") /\ ~gone) =>
        \A i \in DOMAIN msgs :
            (msgs[i].kind = "choice" /\ msgs[i].text) =>
                \E j \in DOMAIN responses :
                    /\ responses[j].tag = "chunk"
                    /\ responses[j].choice = msgs[i].choice
                    /\ responses[j].upto >= 2 * i

\* "NOTE: at this point, the chat completions stream has been fully consumed
\* and chat completion state is final."  It is proved; what the client sees of it
\* is UsageReported, which the run checks.
StateIsFinal == hpc = "final" => rpc = "closed"

\* Usage the LLM reported is not lost: it is in the final message, which the handler
\* makes from state that the reader writes.
UsageReported ==
    (/\ hpc = "stopped" /\ KeepsState /\ ~gone
     /\ \E i \in DOMAIN msgs : msgs[i].kind = "usage")
    => \E i \in DOMAIN responses : responses[i].tag = "final" /\ responses[i].usage

\* "Send None to signal completion": nothing follows the None, which the route
\* turns into the [DONE] event.
NothingAfterNone == \A i \in 1 .. Len(responses) - 1 : responses[i] # None

\* A handler that ends has told a client that is still there, by the None.
EndsWithNone ==
    (HandlerDone /\ ~gone) => responses # <<>> /\ responses[Len(responses)] = None

\* Nothing is generated for a request whose input was found unsuitable or
\* could not be checked: the LLM stream is never opened.
InputBlocksGeneration ==
    (Sent("input") \/ \E i \in DOMAIN responses : responses[i] = Err("call")) =>
        msgs = <<>> /\ ~Sent("raw") /\ ~Sent("chunk")

\* The handler comes to its end: neither the reference it holds into the
\* completions map, nor a full response channel, nor a failure of the pipeline
\* leaves handler, reader and pipeline waiting on each other.  Only an error of the
\* LLM, after which a chunk stream may stay open for ever, can keep it waiting.
HandlerEnds == <>HandlerDone \/ <>[](inputError /\ pipe = "running")
-----------------------------------------------------------------------------
(* What three comments of the source say and the code does not keep: TLC   *)
(* refutes each of them (see the README).                                  *)

\* "Send error to response channel and terminate": when the detection streams
\* of a choice cannot be created, only the None follows the error.
SetupErrorTerminates ==
    \A i, j \in DOMAIN responses :
        i < j /\ responses[i] = Err("setup") => responses[j] = None

\* "If this is the final chat completion chunk with content, send chat
\* completion chunk with finish reason": no content follows a finish reason.
FinishReasonIsLast ==
    \A i, j \in DOMAIN responses :
        (/\ i < j
         /\ responses[i].tag = "finish" \/ (responses[i].tag = "chunk" /\ responses[i].finish)
         /\ responses[j].tag = "chunk")
        => responses[i].choice # responses[j].choice

\* ... and a choice that was answered to its end has had its finish reason.
FinishReasonSent ==
    (hpc = "stopped" /\ request.chunk /\ ~Sent("error") /\ ~Sent("input") /\ ~gone) =>
        \A c \in Choices : texts[c] # {} =>
            \E i \in DOMAIN responses :
                \/ responses[i].tag = "finish" /\ responses[i].choice = c
                \/ responses[i].tag = "chunk" /\ responses[i].choice = c /\ responses[i].finish
=============================================================================

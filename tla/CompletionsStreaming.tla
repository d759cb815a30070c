------------------------ MODULE CompletionsStreaming ------------------------
(***************************************************************************)
(* One streaming completions detection request                             *)
(* (handlers/completions_detection/streaming.rs).  Handler, reader,        *)
(* pipeline and client are those of ChatCompletionsStreaming, and so is    *)
(* the numbering: message i (message_index + 1) is made of the halves 2i-1 *)
(* and 2i, a chunk ends at a half.  What differs is                        *)
(*   - the batch tracker, and the last completion of a choice that is sent *)
(*     after the batch stream has closed;                                  *)
(*   - the empty text put into the channel of a choice that had none, and  *)
(*     the flag and warning for empty output;                              *)
(*   - errors, which are not followed by a None of their own.              *)
(***************************************************************************)
EXTENDS Integers, Sequences, FiniteSets

CONSTANTS
    Choices,       \* the n choices requested
    MaxMessages,   \* bound on the messages of the LLM stream
    ResponseCap,   \* capacity of the response channel (128 in the code)
    Requests,      \* kinds of requests: [input, chunk, whole : BOOLEAN]
    MayFail,       \* calls may fail, the LLM stream may carry errors and end early
    MayLose,       \* the batch stream may lose a batch
    MayLeave       \* the client may disconnect

ASSUME CompletionsAssumption ==
    /\ IsFiniteSet(Choices) /\ Choices # {}
    /\ MaxMessages \in Nat /\ ResponseCap \in Nat \ {0}
    /\ Requests \subseteq [input : BOOLEAN, chunk : BOOLEAN, whole : BOOLEAN]

VARIABLES
    request,     \* which detectors the request names
    hpc,         \* where the handler is
    outbox,      \* responses the handler sends before it goes on ...
    cont,        \* ... to cont.next, or to cont.gone if the client is gone
    todo,        \* choices left in the loop the handler is in
    missing,     \* choices whose detection streams could not be created
    batch,       \* the batch the handler is working on
    tracker,     \* batch_tracker: last message of the last batch of a choice, or 0
    rpc,         \* where the reader is
    msgs,        \* messages the reader has taken from the LLM stream
    state,       \* CompletionState, and the empty_output_detected flag
    texts,       \* messages sent to the input channel of each choice
    blank,       \* choices whose input channel holds the empty text
    inputError,  \* an error was sent to the input channels
    pipe,        \* state of the batch stream
    covered,     \* last half of each choice that is in a batch
    batches,     \* batches waiting in the batch stream
    lost,        \* whether the batch stream has lost a batch
    responses,   \* everything sent to the response channel
    consumed,    \* how many responses have left the channel
    gone         \* the client has disconnected

loopVars == <<request, todo, missing, batch, tracker>>
handlerVars == <<loopVars, hpc, outbox, cont>>
readerVars == <<rpc, msgs, state, texts, inputError>>
pipeVars == <<pipe, covered, batches, lost, blank>>
clientVars == <<consumed, gone>>
vars == <<handlerVars, readerVars, pipeVars, responses, clientVars>>
-----------------------------------------------------------------------------
Sets == INSTANCE FiniteSetsExt

Message ==
    [kind : {"choice"}, choice : Choices, text : BOOLEAN, finish : BOOLEAN]
        \union [kind : {"usage", "nochoice", "error"}]
Current == msgs[Len(msgs)]
None == [tag |-> "none"]
Err(cause) == [tag |-> "error", cause |-> cause]

HasFinished(c) ==
    \E i \in DOMAIN msgs : msgs[i].kind = "choice" /\ msgs[i].choice = c /\ msgs[i].finish
Unfinished == {c \in Choices : ~HasFinished(c)}

MessageOf(h) == (h + 1) \div 2
Uncovered(c) == {h \in UNION {{2 * i - 1, 2 * i} : i \in texts[c]} : h > covered[c]}

Init ==
    /\ request \in Requests
    /\ hpc = "validate" /\ outbox = <<>> /\ cont = [next |-> "validate", gone |-> "validate"]
    /\ todo = Choices /\ missing = {}
    /\ batch = None
    /\ tracker = [c \in Choices |-> 0]
    /\ rpc = "idle" /\ msgs = <<>>
    /\ state = [meta |-> FALSE, usage |-> FALSE, empty |-> FALSE,
                completions |-> [c \in Choices |-> {}]]
    /\ texts = [c \in Choices |-> {}]
    /\ blank = {} /\ inputError = FALSE
    /\ pipe = "off" /\ covered = [c \in Choices |-> 0] /\ batches = <<>> /\ lost = FALSE
    /\ responses = <<>> /\ consumed = 0 /\ gone = FALSE
-----------------------------------------------------------------------------
(* The response channel.                                                   *)

ResponseRoom == gone \/ Len(responses) - consumed < ResponseCap
Put(r) == responses' = IF gone THEN responses ELSE Append(responses, r)

Goto(next) == hpc' = next /\ UNCHANGED <<outbox, cont>>
Say(rs, next, ifGone) ==
    hpc' = "send" /\ outbox' = rs /\ cont' = [next |-> next, gone |-> ifGone]

HandlerSends ==
    /\ hpc = "send"
    /\ ResponseRoom
    /\ Put(Head(outbox))
    /\ outbox' = Tail(outbox)
    /\ hpc' = IF Tail(outbox) # <<>> THEN "send" ELSE IF gone THEN cont.gone ELSE cont.next
    /\ UNCHANGED <<loopVars, cont, readerVars, pipeVars, clientVars>>

ClientReads ==
    /\ ~gone /\ consumed < Len(responses)
    /\ consumed' = consumed + 1
    /\ UNCHANGED <<handlerVars, readerVars, pipeVars, responses, gone>>

ClientLeaves ==
    /\ MayLeave /\ ~gone
    /\ gone' = TRUE /\ consumed' = Len(responses)
    /\ UNCHANGED <<handlerVars, readerVars, pipeVars, responses>>
-----------------------------------------------------------------------------
(* The handler up to the LLM stream: an error, or input detections, and    *)
(* the None that ends the request.                                         *)

Refuse(r) == Say(<<r, None>>, "stopped", "stopped")

Validate ==
    /\ hpc = "validate"
    /\ \/ Goto(IF request.input THEN "input" ELSE "open")
       \/ MayFail /\ Refuse(Err("call"))
    /\ UNCHANGED <<loopVars, readerVars, pipeVars, responses, clientVars>>

\* handle_input_detection: the detectors, and the tokenizer if they find anything.
InputDetection ==
    /\ hpc = "input"
    /\ \/ Goto("open")
       \/ Refuse([tag |-> "input"])
       \/ MayFail /\ Refuse(Err("call"))
    /\ UNCHANGED <<loopVars, readerVars, pipeVars, responses, clientVars>>

\* completion_stream; the reader is awaited unless there are chunk detectors.
OpenStream ==
    /\ hpc = "open"
    /\ \/ /\ Goto(IF request.chunk THEN "setup" ELSE "await_reader")
          /\ rpc' = IF request.chunk THEN "idle" ELSE "next"
       \/ MayFail /\ Refuse(Err("call")) /\ UNCHANGED rpc
    /\ UNCHANGED <<loopVars, msgs, state, texts, inputError, pipeVars, responses, clientVars>>

\* The detection streams of a choice; a failure is reported and the loop goes on.
SetupChoice(c) ==
    /\ hpc = "setup" /\ c \in todo
    /\ todo' = todo \ {c}
    /\ \/ Goto("setup") /\ UNCHANGED missing
       \/ MayFail /\ Say(<<Err("setup")>>, "setup", "setup") /\ missing' = missing \union {c}
    /\ UNCHANGED <<request, batch, tracker, readerVars, pipeVars, responses, clientVars>>

SetupDone ==
    /\ hpc = "setup" /\ todo = {}
    /\ Goto("await_batch")
    /\ rpc' = "next" /\ pipe' = "running"
    /\ UNCHANGED <<loopVars, msgs, state, texts, inputError,
                   covered, batches, lost, blank, responses, clientVars>>
-----------------------------------------------------------------------------
(* The reader: process_completion_stream.                                  *)

\* What an LLM may send next: a choice ends with its finish reason, usage comes
\* last.  If the stream may not end early the bound leaves room to finish.
NextMessage ==
    {m \in Message :
        /\ m.kind = "choice" => m.choice \in Unfinished
        /\ m.kind = "usage" => Unfinished = {}
        /\ m.kind \in {"nochoice", "error"} => MayFail
        /\ \/ Len(msgs) + (IF MayFail THEN 0 ELSE Cardinality(Unfinished)) < MaxMessages
           \/ ~MayFail /\ m.kind = "choice" /\ m.finish}

ReaderNext(m) ==
    /\ rpc = "next"
    /\ \A i \in DOMAIN msgs : msgs[i].kind # "usage"
    /\ msgs' = Append(msgs, m)
    /\ rpc' = IF request.chunk THEN "record" ELSE "forward"
    /\ UNCHANGED <<handlerVars, state, texts, inputError, pipeVars, responses, clientVars>>

\* Without chunk detectors messages go to the client; the reader returns when it is gone.
ReaderForward ==
    /\ rpc = "forward"
    /\ ResponseRoom
    /\ Put(IF Current.kind = "error" THEN Err("llm") ELSE [tag |-> "raw", index |-> Len(msgs)])
    /\ rpc' = IF Current.kind = "error" THEN "next" ELSE IF gone THEN "closed" ELSE "record"
    /\ UNCHANGED <<handlerVars, msgs, state, texts, inputError, pipeVars, clientVars>>

KeepsState == request.chunk \/ request.whole

\* "If we have a finish_reason and empty text, mark empty output detected".
MarksEmpty == request.chunk /\ Current.kind = "choice" /\ ~Current.text /\ Current.finish

\* Mutant: the completion is filed under the previous message's number.
FiledUnderPrevious == Len(msgs) - 1

FiledUnder == Len(msgs)

\* Usage, or metadata from the first message and the completion, which is
\* inserted before its text is sent; an error goes to every input channel.
ReaderRecord ==
    /\ rpc = "record"
    /\ state' =
         [meta |-> state.meta \/ (KeepsState /\ Len(msgs) = 1 /\ Current.kind \in {"choice", "nochoice"}),
          usage |-> state.usage \/ (KeepsState /\ Current.kind = "usage"),
          empty |-> state.empty \/ MarksEmpty,
          completions |-> IF KeepsState /\ Current.kind = "choice"
                          THEN [state.completions EXCEPT ![Current.choice] = @ \union {FiledUnder}]
                          ELSE state.completions]
    /\ inputError' = (inputError \/ Current.kind = "error")
    /\ rpc' = IF request.chunk /\ Current.kind = "choice" /\ Current.text THEN "send_input" ELSE "next"
    /\ UNCHANGED <<handlerVars, msgs, texts, pipeVars, responses, clientVars>>

\* The input receiver of a choice that failed to set up is dropped.
ReaderSendInput ==
    /\ rpc = "send_input"
    /\ texts' = IF Current.choice \in missing THEN texts
                ELSE [texts EXCEPT ![Current.choice] = @ \union {Len(msgs)}]
    /\ rpc' = "next"
    /\ UNCHANGED <<handlerVars, msgs, state, inputError, pipeVars, responses, clientVars>>

\* The stream has ended: choices without data get (0, ""), the channels close.
ReaderEnd ==
    /\ rpc = "next"
    /\ Unfinished = {} \/ MayFail
    /\ blank' = IF request.chunk THEN {c \in Choices \ missing : texts[c] = {}} ELSE {}
    /\ rpc' = "closed"
    /\ UNCHANGED <<handlerVars, msgs, state, texts, inputError,
                   pipe, covered, batches, lost, responses, clientVars>>
-----------------------------------------------------------------------------
(* The pipeline, as the promise of DetectionBatchStream.                   *)

MkBatch(c, h) ==
    [tag |-> "batch", choice |-> c, from |-> MessageOf(Sets!Min(Uncovered(c))),
     upto |-> MessageOf(h), half |-> h]

PipeBatch(c, h) ==
    /\ pipe = "running" /\ h \in Uncovered(c)
    /\ covered' = [covered EXCEPT ![c] = h]
    /\ \/ batches' = Append(batches, MkBatch(c, h)) /\ UNCHANGED lost
       \/ MayLose /\ lost' = TRUE /\ UNCHANGED batches
    /\ UNCHANGED <<pipe, blank, handlerVars, readerVars, responses, clientVars>>

\* The chunker may or may not return a chunk for the empty text; if it does, the
\* chunk refers to message index 0, whatever choice that message belongs to.
PipeBlank(c) ==
    /\ pipe = "running" /\ c \in blank
    /\ blank' = blank \ {c}
    /\ batches' \in {batches,
           Append(batches, [tag |-> "batch", choice |-> c, from |-> 1, upto |-> 1, half |-> 0])}
    /\ UNCHANGED <<pipe, covered, lost, handlerVars, readerVars, responses, clientVars>>

PipeError ==
    /\ pipe = "running"
    /\ pipe' = "failed" /\ batches' = Append(batches, [tag |-> "error"])
    /\ UNCHANGED <<covered, lost, blank, handlerVars, readerVars, responses, clientVars>>
PipeFails == MayFail /\ PipeError

\* The chunk stream may fail after its request stream has panicked on the error.
PipeForwardsError == inputError /\ missing # Choices /\ PipeError

\* Mutant: waits for streams that were never created.
DrainedIfComplete ==
    rpc = "closed" /\ missing = {} /\ ~inputError /\ blank = {} /\ \A c \in Choices : Uncovered(c) = {}

Drained ==
    \/ missing = Choices
    \/ rpc = "closed" /\ ~inputError /\ blank = {} /\ \A c \in Choices : Uncovered(c) = {}

PipeCloses ==
    /\ pipe = "running"
    /\ Drained
    /\ pipe' = "closed"
    /\ UNCHANGED <<covered, batches, lost, blank, handlerVars, readerVars, responses, clientVars>>
-----------------------------------------------------------------------------
(* The handler: process_detection_batch_stream.                            *)

\* Mutant: the error is followed by a None of its own, as in the chat handler.
StopWithNone(cause) == <<Err(cause), None>>

\* "Send error to response channel and terminate": back to handle_output_detection.
StopWith(cause) == <<Err(cause)>>

TakeBatch ==
    /\ hpc = "await_batch" /\ batches # <<>>
    /\ batches' = Tail(batches)
    /\ batch' = Head(batches)
    /\ IF batch'.tag = "batch" THEN Goto("respond") ELSE Say(StopWith("pipeline"), "final", "final")
    /\ UNCHANGED <<request, todo, missing, tracker, readerVars, pipe, covered, lost, blank,
                   responses, clientVars>>

InChunk(b) == {i \in state.completions[b.choice] : b.from <= i /\ i <= b.upto}

\* Mutant: the first message of the batch is recorded.
TrackedStart(b) == b.from

\* "Record indices for this batch": the flush looks at the end of the last one.
Tracked(b) == b.upto

\* output_detection_response: unwrap() panics when the choice has no entry; with
\* none of the chunk's messages there it is an error; else the last one of them
\* is sent, with the chunk's text and detections put in.
Respond ==
    /\ hpc = "respond"
    /\ \/ /\ state.completions[batch.choice] = {}
          /\ Goto("panicked") /\ UNCHANGED tracker
       \/ /\ state.completions[batch.choice] # {} /\ InChunk(batch) = {}
          /\ Say(StopWith("lookup"), "final", "final") /\ UNCHANGED tracker
       \/ /\ InChunk(batch) # {}
          /\ tracker' = [tracker EXCEPT ![batch.choice] = Tracked(batch)]
          /\ Say(<<[tag |-> "chunk", choice |-> batch.choice, half |-> batch.half,
                    finish |-> msgs[Sets!Max(InChunk(batch))].finish]>>, "await_batch", "final")
    /\ UNCHANGED <<request, todo, missing, batch, readerVars, pipeVars, responses, clientVars>>

\* Mutant: the last completion is never sent on its own.
NoTail(c) == FALSE

\* last_index != end_index
TailDue(c) == Sets!Max(state.completions[c]) # tracker[c]

BatchesEnd ==
    /\ hpc = "await_batch" /\ batches = <<>> /\ pipe \in {"closed", "failed"}
    /\ todo' = {c \in Choices : tracker[c] # 0}
    /\ Goto("tail")
    /\ UNCHANGED <<request, missing, batch, tracker, readerVars, pipeVars, responses, clientVars>>

\* "Ensure the last completion chunk including finish_reason is sent for each choice."
SendTail(c) ==
    /\ hpc = "tail" /\ c \in todo
    /\ todo' = todo \ {c}
    /\ IF TailDue(c)
       THEN Say(<<[tag |-> "tail", choice |-> c, index |-> Sets!Max(state.completions[c])]>>, "tail", "final")
       ELSE Goto("tail")
    /\ UNCHANGED <<request, missing, batch, tracker, readerVars, pipeVars, responses, clientVars>>

TailDone ==
    /\ hpc = "tail" /\ todo = {}
    /\ Goto("final")
    /\ UNCHANGED <<loopVars, readerVars, pipeVars, responses, clientVars>>
-----------------------------------------------------------------------------
(* The handler: the end of handle_output_detection and of handle_streaming. *)

AwaitReader ==
    /\ hpc = "await_reader" /\ rpc = "closed"
    /\ Goto(IF KeepsState THEN "final" ELSE "end")
    /\ UNCHANGED <<loopVars, readerVars, pipeVars, responses, clientVars>>

FinalDue == request.whole \/ state.usage \/ state.empty

\* handle_whole_doc_detection runs the whole-document detectors on every choice;
\* one failure is an error, otherwise its warnings replace those already there.
WholeDoc ==
    \/ Say(<<[tag |-> "final", usage |-> state.usage, emptyWarning |-> FALSE]>>, "end", "end")
    \/ MayFail /\ Say(StopWith("whole"), "end", "end")

\* id().unwrap() panics when the first message set no metadata.
FinalMessage ==
    /\ hpc = "final"
    /\ \/ ~FinalDue /\ Goto("end")
       \/ FinalDue /\ ~state.meta /\ Goto("panicked")
       \/ /\ FinalDue /\ state.meta /\ ~request.whole
          /\ Say(<<[tag |-> "final", usage |-> state.usage, emptyWarning |-> state.empty]>>, "end", "end")
       \/ request.whole /\ state.meta /\ WholeDoc
    /\ UNCHANGED <<loopVars, readerVars, pipeVars, responses, clientVars>>

SayNone ==
    /\ hpc = "end"
    /\ Say(<<None>>, "stopped", "stopped")
    /\ UNCHANGED <<loopVars, readerVars, pipeVars, responses, clientVars>>

HandlerDone == hpc \in {"stopped", "panicked"}

Finished ==
    /\ HandlerDone /\ rpc \in {"idle", "closed"} /\ pipe # "running"
    /\ gone \/ consumed = Len(responses)
    /\ UNCHANGED vars
-----------------------------------------------------------------------------
Handler ==
    \/ HandlerSends \/ Validate \/ InputDetection \/ OpenStream
    \/ \E c \in Choices : SetupChoice(c) \/ SendTail(c)
    \/ SetupDone \/ TakeBatch \/ Respond \/ BatchesEnd \/ TailDone
    \/ AwaitReader \/ FinalMessage \/ SayNone

ReaderSteps ==
    \/ \E m \in NextMessage : ReaderNext(m)
    \/ ReaderForward \/ ReaderRecord \/ ReaderSendInput \/ ReaderEnd

Pipeline ==
    \/ \E c \in Choices : PipeBlank(c) \/ \E h \in Uncovered(c) : PipeBatch(c, h)
    \/ PipeCloses

Next ==
    \/ Handler \/ ReaderSteps \/ Pipeline \/ PipeFails \/ PipeForwardsError
    \/ ClientReads \/ ClientLeaves \/ Finished

\* Tasks are polled.  Of the environment it is assumed that the LLM sends or ends
\* its stream, that services answer and that the client reads, not that any fails.
Spec == Init /\ [][Next]_vars
FairSpec ==
    Spec /\ WF_vars(Handler) /\ WF_vars(ReaderSteps) /\ WF_vars(Pipeline) /\ WF_vars(ClientReads)
-----------------------------------------------------------------------------
(* Properties.                                                             *)

Sent(t) == \E i \in DOMAIN responses : responses[i].tag = t
RanToEnd == hpc = "stopped" /\ request.chunk /\ ~gone /\ ~lost /\ ~Sent("error") /\ ~Sent("input")

\* Whatever fails, nothing follows the None that the route turns into [DONE]
\* (the chat handler does not keep this).
NothingAfterNone == \A i \in 1 .. Len(responses) - 1 : responses[i] # None

\* "Ensure the last completion chunk including finish_reason is sent for each
\* choice": a choice with text that the LLM has finished gets its finish reason.
FinishReasonSent ==
    RanToEnd => \A c \in Choices : (texts[c] # {} /\ HasFinished(c)) =>
        \E i \in DOMAIN responses :
            \/ responses[i].tag = "chunk" /\ responses[i].choice = c /\ responses[i].finish
            \/ /\ responses[i].tag = "tail" /\ responses[i].choice = c
               /\ msgs[responses[i].index].finish

\* The completion that is sent as it was received carries no text: text only
\* reaches the client in the message of a chunk, with the chunk's detections.
NoUncheckedText ==
    (request.chunk /\ ~lost) => \A i \in DOMAIN responses :
        responses[i].tag = "tail" => ~msgs[responses[i].index].text

\* The messages of a chunk with text are in CompletionState when it is answered:
\* only the chunk of an empty text can miss them.
LookupsSucceed ==
    hpc = "respond" /\ batch.half # 0 => {batch.from, batch.upto} \subseteq state.completions[batch.choice]

\* The handler comes to its end, whatever fails and whoever leaves, unless an error
\* of the LLM has left a chunk stream open for ever.
HandlerEnds == <>HandlerDone \/ <>[](inputError /\ pipe = "running")
-----------------------------------------------------------------------------
(* What comments say and TLC refutes (see the README).                     *)

\* "One or more choices have no content": the warning is only given then.
EmptyWarningIsTrue ==
    \A i \in DOMAIN responses : (responses[i].tag = "final" /\ responses[i].emptyWarning) =>
        \E c \in Choices : \A j \in DOMAIN msgs :
            ~(msgs[j].kind = "choice" /\ msgs[j].choice = c /\ msgs[j].text)

\* "This prevents chunker StopIteration errors when the model returns empty
\* output": an empty choice does not fail the request.
EmptyChoiceIsNoError == \A i \in DOMAIN responses : responses[i] # Err("lookup")
=============================================================================

--------------------- MODULE StreamingContentDetection ---------------------
(***************************************************************************)
(* One streaming content detection request                                 *)
(* (handlers/streaming_content_detection.rs) over the streaming pipeline   *)
(* of common/tasks.rs that all streaming handlers share:                   *)
(*                                                                         *)
(*   input task -> mpsc -> broadcast ring -> chunker (gRPC bidi stream)    *)
(*     -> broadcast ring -> one detection task per detector -> mpsc        *)
(*     -> DetectionBatchStream -> responder -> client                      *)
(*                                                                         *)
(* A broadcast ring keeps its last RingCap values, drops older ones under  *)
(* a receiver that is too slow (Lagged) and gives a receiver nothing that  *)
(* was sent before it subscribed.  The chunker is one external service and *)
(* returns a chunk per message.  The batch stream is the promise of        *)
(* BatchChannel with several detectors, and keeps every batch with one.    *)
(* A client that disconnects is not noticed: the route goes on reading.    *)
(***************************************************************************)
EXTENDS Integers, Sequences, FiniteSets

CONSTANTS
    Detectors,    \* the detectors of the request, all with the same chunker
    MaxMessages,  \* bound on the client's messages
    InputCap,     \* capacity of the input channel (128 in the code)
    RingCap,      \* capacity of a broadcast channel (128)
    MayFail       \* calls may fail, messages may be invalid

ASSUME PipelineAssumption ==
    /\ IsFiniteSet(Detectors) /\ Detectors # {}
    /\ MaxMessages \in Nat \ {0} /\ InputCap \in Nat \ {0} /\ RingCap \in Nat \ {0}
    /\ MayFail \in BOOLEAN

VARIABLES
    hpc,        \* where the handler is
    opened,     \* chunk streams opened so far
    start,      \* start[d]: results broadcast before the task of d subscribed, or -1
    msgs,       \* messages the input task has put in the input channel
    inputDone,  \* the client's stream has ended
    forwarded,  \* how many of them are in the input ring
    got,        \* how many the chunker has taken
    chunker,    \* its stream: "open", "deaf" (reads no more), "failed" or "closed"
    bcast,      \* results put in the chunk ring
    pos,        \* pos[d]: how many of them the task of d has passed
    dets,       \* dets[d]: results in the detection channel of d
    ended,      \* detection tasks that have returned
    lagged,     \* ... because they lagged
    batched,    \* chunks whose batch has left the batcher
    lost,       \* a batch was lost
    responses   \* responses sent

setupVars == <<hpc, opened, start>>
inputVars == <<msgs, inputDone, forwarded>>
chunkVars == <<got, chunker, bcast>>
detectVars == <<pos, dets, ended, lagged>>
answerVars == <<batched, lost, responses>>
vars == <<setupVars, inputVars, chunkVars, detectVars, answerVars>>

Error == [tag |-> "error"]
Chunk(n) == [tag |-> "chunk", n |-> n]

Init ==
    /\ hpc = "peek" /\ opened = 0 /\ start = [d \in Detectors |-> -1]
    /\ msgs = <<>> /\ inputDone = FALSE /\ forwarded = 0
    /\ got = 0 /\ chunker = "open" /\ bcast = <<>>
    /\ pos = [d \in Detectors |-> 0] /\ dets = [d \in Detectors |-> <<>>]
    /\ ended = {} /\ lagged = {}
    /\ batched = 0 /\ lost = FALSE /\ responses = <<>>
-----------------------------------------------------------------------------
(* The handler.                                                            *)

Refuse == hpc' = "refused" /\ responses' = Append(responses, Error)

\* extract_detectors peeks at the first message: there may be none, it may be an
\* error, or have no detectors or an empty map of them.
ExtractDetectors ==
    /\ hpc = "peek"
    /\ \/ hpc' = "validate" /\ UNCHANGED responses
       \/ MayFail /\ Refuse
    /\ UNCHANGED <<opened, start, inputVars, chunkVars, detectVars, batched, lost>>

\* validate_detectors: known, text_contents, with a chunker other than whole_doc_chunker.
Validate ==
    /\ hpc = "validate"
    /\ \/ hpc' = "open" /\ UNCHANGED responses
       \/ MayFail /\ Refuse
    /\ UNCHANGED <<opened, start, inputVars, chunkVars, detectVars, batched, lost>>

\* chunk_streams: get_chunker_ids names the chunker once per detector, so that
\* many streams are opened; the map keeps the last one, and the broadcast task
\* of a stream runs as soon as it is spawned.
OpenChunkStream ==
    /\ hpc = "open" /\ opened < Cardinality(Detectors)
    /\ \/ /\ opened' = opened + 1 /\ chunker' = "open" /\ bcast' = <<>>
          /\ UNCHANGED <<hpc, responses>>
       \/ /\ MayFail /\ Refuse
          /\ UNCHANGED <<opened, chunker, bcast>>
    /\ UNCHANGED <<start, inputVars, got, detectVars, batched, lost>>

\* The detection task of d subscribes to the chunk ring and is spawned.
Subscribe(d) ==
    /\ hpc = "open" /\ opened = Cardinality(Detectors)
    /\ start[d] = -1
    /\ start' = [start EXCEPT ![d] = Len(bcast)]
    /\ pos' = [pos EXCEPT ![d] = Len(bcast)]
    /\ UNCHANGED <<hpc, opened, inputVars, chunkVars, dets, ended, lagged, answerVars>>

\* The streams are there: the responder and the input task are spawned.
SpawnTasks ==
    /\ hpc = "open" /\ \A d \in Detectors : start[d] >= 0
    /\ hpc' = "running"
    /\ UNCHANGED <<opened, start, inputVars, chunkVars, detectVars, answerVars>>
-----------------------------------------------------------------------------
(* Input task and broadcast_stream of the input.                           *)

\* Mutant: input is consumed while the streams are still being created.
FeedsEarly == hpc \in {"open", "running"}

\* The input task is spawned last.  When the streams could not be created it
\* only drains the client's messages, which is left out.
Feeds == hpc = "running"

\* A message, or the error of an invalid one, which does not end the stream.
InputNext(kind) ==
    /\ Feeds /\ ~inputDone
    /\ Len(msgs) < MaxMessages /\ Len(msgs) - forwarded < InputCap
    /\ msgs' = Append(msgs, kind)
    /\ UNCHANGED <<setupVars, inputDone, forwarded, chunkVars, detectVars, answerVars>>

InputEnd ==
    /\ Feeds /\ ~inputDone /\ msgs # <<>>
    /\ inputDone' = TRUE
    /\ UNCHANGED <<setupVars, msgs, forwarded, chunkVars, detectVars, answerVars>>

\* broadcast_stream does not wait for the receivers of the ring.
InputForward ==
    /\ forwarded < Len(msgs)
    /\ forwarded' = forwarded + 1
    /\ UNCHANGED <<setupVars, msgs, inputDone, chunkVars, detectVars, answerVars>>
-----------------------------------------------------------------------------
(* The chunker and the request stream it reads.                            *)

\* Mutant: errors in the input are skipped.
SkipsErrors(kind) == FALSE

\* result.unwrap().unwrap() panics on an error in the input.
Unwraps(kind) == kind = "error"

\* A lagging receiver or an error makes the request stream panic.  That ends what
\* the chunker is told; nothing ends its response stream.
ChunkerReads ==
    /\ chunker = "open" /\ got < forwarded
    /\ IF forwarded - got > RingCap \/ Unwraps(msgs[got + 1])
       THEN chunker' = "deaf" /\ UNCHANGED got
       ELSE got' = got + 1 /\ UNCHANGED chunker
    /\ UNCHANGED <<setupVars, inputVars, bcast, detectVars, answerVars>>

Texts == Cardinality({i \in 1 .. got : msgs[i] = "text"})

ChunkerEmits ==
    /\ chunker \in {"open", "deaf"} /\ Len(bcast) < Texts
    /\ bcast' = Append(bcast, Chunk(Len(bcast) + 1))
    /\ UNCHANGED <<setupVars, inputVars, got, chunker, detectVars, answerVars>>

\* The stream may fail as soon as it is open, before anyone has subscribed, and may
\* or may not fail once its request stream has panicked.
ChunkerFails ==
    /\ chunker = "deaf" \/ (MayFail /\ chunker = "open" /\ opened > 0)
    /\ chunker' = "failed" /\ bcast' = Append(bcast, Error)
    /\ UNCHANGED <<setupVars, inputVars, got, detectVars, answerVars>>

\* A chunker closes its stream without an error only at the end of its input.
ChunkerCloses ==
    /\ chunker = "open" /\ inputDone /\ got = Len(msgs) /\ Len(bcast) = Texts
    /\ chunker' = "closed"
    /\ UNCHANGED <<setupVars, inputVars, got, bcast, detectVars, answerVars>>
-----------------------------------------------------------------------------
(* The detection tasks of text_contents_detection_streams.                 *)

Running(d) == start[d] >= 0 /\ d \notin ended
Lagging(d) == Len(bcast) - pos[d] > RingCap

\* detect_text_contents on the chunk; errors are passed on and the loop goes on.
Detect(d) ==
    /\ Running(d) /\ ~Lagging(d) /\ pos[d] < Len(bcast)
    /\ pos' = [pos EXCEPT ![d] = @ + 1]
    /\ \/ dets' = [dets EXCEPT ![d] = Append(@, bcast[pos[d] + 1])]
       \/ MayFail /\ dets' = [dets EXCEPT ![d] = Append(@, Error)]
    /\ UNCHANGED <<setupVars, inputVars, chunkVars, ended, lagged, answerVars>>

\* "while let Ok" ends on Lagged as it does on Closed.
DetectLags(d) ==
    /\ Running(d) /\ Lagging(d)
    /\ ended' = ended \union {d} /\ lagged' = lagged \union {d}
    /\ UNCHANGED <<setupVars, inputVars, chunkVars, pos, dets, answerVars>>

\* Mutant: the task ends when there is nothing to receive at the moment.
NothingNow(d) == pos[d] = Len(bcast)

\* The ring is closed once its broadcast task has ended, and drained.
Closed(d) == chunker \in {"closed", "failed"} /\ pos[d] = Len(bcast)

DetectEnds(d) ==
    /\ Running(d) /\ hpc = "running" /\ Closed(d)
    /\ ended' = ended \union {d}
    /\ UNCHANGED <<setupVars, inputVars, chunkVars, pos, dets, lagged, answerVars>>
-----------------------------------------------------------------------------
(* Batch stream and responder.                                             *)

Answered(d, n) == \E i \in DOMAIN dets[d] : dets[d][i] = Chunk(n)

Respond ==
    /\ hpc = "running" /\ \A d \in Detectors : Answered(d, batched + 1)
    /\ batched' = batched + 1
    /\ \/ responses' = Append(responses, Chunk(batched + 1)) /\ UNCHANGED lost
       \/ Cardinality(Detectors) > 1 /\ lost' = TRUE /\ UNCHANGED responses
    /\ UNCHANGED <<setupVars, inputVars, chunkVars, detectVars>>

\* "Send error to response channel and terminate".
RespondError ==
    /\ hpc = "running"
    /\ \E d \in Detectors : \E i \in DOMAIN dets[d] : dets[d][i] = Error
    /\ hpc' = "done" /\ responses' = Append(responses, Error)
    /\ UNCHANGED <<opened, start, inputVars, chunkVars, detectVars, batched, lost>>

\* Mutant: waits for a first batch.
BatcherEmptied == batched > 0 /\ \A d \in Detectors : Len(dets[d]) = batched

BatcherEmpty == \A d \in Detectors : Len(dets[d]) = batched

\* The batch stream closes when all tasks have ended and the batcher is empty.
RespondEnd ==
    /\ hpc = "running" /\ ended = Detectors /\ BatcherEmpty
    /\ hpc' = "done"
    /\ UNCHANGED <<opened, start, inputVars, chunkVars, detectVars, answerVars>>

\* A chunk that some lagging task never answered stays in the batcher: the
\* select! loop asks is_empty() for ever.
BatchStreamSpins == hpc = "running" /\ ended = Detectors /\ ~BatcherEmpty /\ UNCHANGED vars

Done == hpc \in {"refused", "done"}
Finished == Done /\ UNCHANGED vars
-----------------------------------------------------------------------------
Handler == ExtractDetectors \/ Validate \/ OpenChunkStream \/ SpawnTasks \/ \E d \in Detectors : Subscribe(d)
Input == InputForward \/ InputEnd \/ InputNext("text") \/ (MayFail /\ InputNext("error"))
Chunker == ChunkerReads \/ ChunkerEmits \/ ChunkerCloses
DetectionTask(d) == Detect(d) \/ DetectLags(d) \/ DetectEnds(d)
Responder == Respond \/ RespondError \/ RespondEnd

Next ==
    \/ Handler \/ Input \/ Chunker \/ ChunkerFails \/ Responder
    \/ \E d \in Detectors : DetectionTask(d)
    \/ BatchStreamSpins \/ Finished

\* Tasks are polled.  Of the environment it is assumed that calls return, that the
\* client sends or ends its stream and that the chunker answers what it has read;
\* not that a chunk stream fails.
Spec == Init /\ [][Next]_vars
FairSpec ==
    /\ Spec
    /\ WF_vars(Handler) /\ WF_vars(Input) /\ WF_vars(InputForward) /\ WF_vars(InputEnd)
    /\ WF_vars(Chunker) /\ WF_vars(Responder)
    /\ \A d \in Detectors : WF_vars(DetectionTask(d))
-----------------------------------------------------------------------------
(* Properties.                                                             *)

\* A chunk is never broadcast before every detection task has subscribed, so
\* that no detector misses the beginning of the text.
NoChunkMissed == \A d \in Detectors : \A i \in 1 .. start[d] : bcast[i] = Error

\* An error was broadcast with nobody there to receive it.
ErrorMissed == \E d \in Detectors : start[d] > 0

\* A stream that closes without an error has answered every message, unless a
\* detection task lagged, a batch was lost or an error came too early.
CompleteOrError ==
    (hpc = "done" /\ lagged = {} /\ ~lost /\ ~ErrorMissed) =>
        \/ \E i \in DOMAIN responses : responses[i] = Error
        \/ inputDone /\ Len(responses) = Len(msgs) /\ \A i \in DOMAIN msgs : msgs[i] = "text"

\* Nothing from an invalid message on is answered: every chunk the client gets is
\* of the text before it (the request stream of the chunker panics on the error).
NothingPastError ==
    \A i \in DOMAIN responses :
        responses[i] # Error => \A j \in 1 .. responses[i].n : msgs[j] = "text"

\* An error in the chunk ring reaches the client, through the detection task and
\* the batch stream of any detector that had subscribed before it and does not lag.
ErrorReachesClient ==
    (hpc = "running" /\ \E i \in DOMAIN bcast : bcast[i] = Error)
        ~> (\/ \E i \in DOMAIN responses : responses[i] = Error
            \/ \A d \in Detectors : d \in lagged \/ start[d] > 0)

\* The request comes to its end, unless a detection task lags (what it has not
\* answered stays in the batcher, which is never empty) or the chunk stream stays
\* open for ever after its request stream has panicked.
RequestEnds == <>Done \/ <>(lagged # {}) \/ <>[](chunker = "deaf")
-----------------------------------------------------------------------------
(* What comments say and TLC refutes (see the README).                     *)

\* "Send error to detection channel": an error of the chunk stream is reported.
ChunkErrorReported == hpc = "done" /\ chunker = "failed" => \E i \in DOMAIN responses : responses[i] = Error

\* A closed stream without an error has answered every chunk, lag or no lag.
EveryChunkAnswered ==
    (hpc = "done" /\ ~lost /\ ~ErrorMissed /\ \A i \in DOMAIN responses : responses[i] # Error) =>
        Len(responses) = Len(msgs)
=============================================================================

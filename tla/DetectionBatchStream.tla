------------------------ MODULE DetectionBatchStream ------------------------
(***************************************************************************)
(* DetectionBatchStream::new (types/detection_batch_stream.rs): a task     *)
(* that merges the detection streams of all choices and detectors, hands   *)
(* every detection set to the actor that owns the batcher, asks the actor  *)
(* for complete batches and sends them to the batch channel.               *)
(*                                                                         *)
(* The task is a loop around a biased tokio::select!.  One pass over the   *)
(* three branches polls, in this order,                                    *)
(*   1. the merged stream (until it has completed),                        *)
(*   2. a pop() future: send Pop to the actor, wait for the reply,         *)
(*   3. an is_empty() future, once the stream has completed.               *)
(* The first branch that is ready wins and the futures of the others are   *)
(* dropped; the next iteration creates new ones.  Every poll is a step of  *)
(* its own here, because the task, the actor and the detection tasks run   *)
(* on the worker threads of a multi-threaded runtime.                      *)
(*                                                                         *)
(* The detection tasks that feed the streams and the handler that reads    *)
(* the batch channel are the environment.                                  *)
(***************************************************************************)
EXTENDS DetectionBatcher

CONSTANTS
    StreamCap,   \* capacity of a detection channel (128 in the code)
    MailboxCap,  \* capacity of the actor's request channel (32)
    BatchCap,    \* capacity of the batch channel (32)
    MayFail,     \* whether a detector or chunker call may fail
    MayEndShort, \* whether a detection stream may end before its last chunk
    MayLeave     \* whether the reader may drop the batch stream early

ASSUME CapAssumption ==
    StreamCap \in Nat \ {0} /\ MailboxCap \in Nat \ {0} /\ BatchCap \in Nat \ {0}
ASSUME SwitchAssumption == MayFail \in BOOLEAN /\ MayEndShort \in BOOLEAN /\ MayLeave \in BOOLEAN

VARIABLES
    sent,       \* sent[s]: results the detection task of stream s has sent
    failed,     \* failed[s]: which of them are errors
    ended,      \* the streams whose sender is dropped
    taken,      \* taken[s]: results read from stream s
    pc,         \* where the task is
    held,       \* the value an awaited send of the task carries
    completed,  \* stream_completed
    pop,        \* the pop() future of the current select!
    empty,      \* the is_empty() future of the current select!
    mailbox,    \* requests queued for the actor
    batcher,    \* the batcher the actor owns
    popped,     \* popped[c]: batches of choice c removed from the batcher
    out,        \* the batch channel
    received,   \* everything the reader has received
    open        \* whether the reader still holds the batch stream

streamVars == <<sent, failed, ended>>
taskVars == <<taken, pc, held, completed>>
futures == <<pop, empty>>
actorVars == <<batcher, popped>>
readerVars == <<received, open>>
vars == <<streamVars, taskVars, futures, mailbox, actorVars, out, readerVars>>
-----------------------------------------------------------------------------
Streams == Choices \X Detectors

\* An Ok((input_id, chunk, detections)) of a detection stream.
Item == [tag : {"item"}, choice : Choices, chunk : Nat, detector : Detectors]
Batch == [tag : {"batch"}, choice : Choices, chunk : Nat, dets : Seq(Detectors)]
Tagged(t) == [tag |-> t]
Error == Tagged("error")
Nothing == Tagged("nothing")

\* A oneshot: not sent yet, waiting for the reply, the reply; a pop() that
\* returned None is disabled for the rest of the select!.
PopFuture == {Tagged(t) : t \in {"unsent", "waiting", "none", "disabled"}} \union Batch
EmptyFuture == {"unsent", "waiting", "true", "false"}

Request == [op : {"push"}, item : Item] \union [op : {"pop", "is_empty"}, live : BOOLEAN]

MkItem(s, n) == [tag |-> "item", choice |-> s[1], chunk |-> n, detector |-> s[2]]
MkBatch(key, dets) == [tag |-> "batch", choice |-> key[1], chunk |-> key[2], dets |-> dets]

\* Streams with a result to read.
Available == {s \in Streams : taken[s] < sent[s]}
AllEnded == \A s \in Streams : s \in ended /\ taken[s] = sent[s]

\* The replies of dropped futures go nowhere; their requests stay queued.
Cancel(requests) ==
    [i \in DOMAIN requests |->
        IF requests[i].op = "push" THEN requests[i] ELSE [op |-> requests[i].op, live |-> FALSE]]

Room == Len(mailbox) < MailboxCap
-----------------------------------------------------------------------------
Init ==
    /\ sent = [s \in Streams |-> 0]
    /\ failed = [s \in Streams |-> {}]
    /\ ended = {}
    /\ taken = [s \in Streams |-> 0]
    /\ pc = IF Cardinality(Streams) = 1 THEN "forward" ELSE "poll_stream"
    /\ held = Nothing
    /\ completed = FALSE
    /\ pop = Tagged("unsent")
    /\ empty = "unsent"
    /\ mailbox = <<>>
    /\ batcher = EmptyBatcher
    /\ popped = [c \in Choices |-> 0]
    /\ out = <<>>
    /\ received = <<>>
    /\ open = TRUE
-----------------------------------------------------------------------------
(* The detection tasks, one per stream.  They go through the chunks in     *)
(* order and put one result per chunk in the detection channel; once the   *)
(* task has dropped the receiver their sends fail at once and are ignored. *)

CanSend(s) ==
    /\ s \notin ended
    /\ sent[s] < NumChunks[s[1]]
    /\ pc = "done" \/ sent[s] - taken[s] < StreamCap

DetectorSends(s) ==
    /\ CanSend(s)
    /\ sent' = [sent EXCEPT ![s] = @ + 1]
    /\ UNCHANGED <<failed, ended, taskVars, futures, mailbox, actorVars, out, readerVars>>

DetectorFails(s) ==
    /\ MayFail
    /\ CanSend(s)
    /\ sent' = [sent EXCEPT ![s] = @ + 1]
    /\ failed' = [failed EXCEPT ![s] = @ \union {sent[s] + 1}]
    /\ UNCHANGED <<ended, taskVars, futures, mailbox, actorVars, out, readerVars>>

\* The chunk broadcast is closed, or the receiver has lagged behind it.
DetectorEnds(s) ==
    /\ s \notin ended
    /\ sent[s] = NumChunks[s[1]] \/ MayEndShort
    /\ ended' = ended \union {s}
    /\ UNCHANGED <<sent, failed, taskVars, futures, mailbox, actorVars, out, readerVars>>
-----------------------------------------------------------------------------
(* The task.                                                               *)

\* Mutant: the result is read but stays in the channel.
ForwardNextAgain(s) ==
    /\ pc = "forward"
    /\ s \in Available
    /\ held' = MkBatch(<<s[1], taken[s] + 1>>, <<s[2]>>)
    /\ pc' = "forward_batch"
    /\ UNCHANGED <<taken, completed, streamVars, futures, mailbox, actorVars, out, readerVars>>

\* A single stream is forwarded as it is, without the batcher.
ForwardNext(s) ==
    /\ pc = "forward"
    /\ s \in Available
    /\ taken' = [taken EXCEPT ![s] = @ + 1]
    /\ \/ /\ taken[s] + 1 \notin failed[s]
          /\ held' = MkBatch(<<s[1], taken[s] + 1>>, <<s[2]>>)
          /\ pc' = "forward_batch"
       \/ /\ taken[s] + 1 \in failed[s]
          /\ held' = Error
          /\ pc' = "send_error"
    /\ UNCHANGED <<completed, streamVars, futures, mailbox, actorVars, out, readerVars>>

\* Mutant: ends as soon as the sender is dropped, with results still queued.
ForwardEndUndrained ==
    /\ pc = "forward"
    /\ ended = Streams
    /\ pc' = "done"
    /\ UNCHANGED <<taken, held, completed, streamVars, futures, mailbox, actorVars, out, readerVars>>

ForwardEnd ==
    /\ pc = "forward"
    /\ AllEnded
    /\ pc' = "done"
    /\ UNCHANGED <<taken, held, completed, streamVars, futures, mailbox, actorVars, out, readerVars>>

\* Mutant: a pop() that returned None stays disabled in later iterations.
NewSelectKeepsDisabled(target) ==
    /\ pc' = target
    /\ pop' = IF pop.tag = "disabled" THEN pop ELSE Tagged("unsent")
    /\ empty' = "unsent"
    /\ mailbox' = Cancel(mailbox)

\* A new iteration of the loop: the futures of the finished select! are
\* dropped and new ones are created.
NewSelect(target) ==
    /\ pc' = target
    /\ pop' = Tagged("unsent")
    /\ empty' = "unsent"
    /\ mailbox' = Cancel(mailbox)

\* stream_set.next() is ready: the detections are pushed, an error ends the task.
PollStreamItem(s) ==
    /\ pc = "poll_stream"
    /\ ~completed
    /\ s \in Available
    /\ taken' = [taken EXCEPT ![s] = @ + 1]
    /\ \/ /\ taken[s] + 1 \notin failed[s]
          /\ held' = MkItem(s, taken[s] + 1)
          /\ NewSelect("push")
       \/ /\ taken[s] + 1 \in failed[s]
          /\ held' = Error
          /\ NewSelect("send_error")
    /\ UNCHANGED <<completed, streamVars, actorVars, out, readerVars>>

\* Mutant: stream_completed is not set.
PollStreamEndForgets ==
    /\ pc = "poll_stream"
    /\ ~completed
    /\ AllEnded
    /\ NewSelect("poll_stream")
    /\ UNCHANGED <<taken, held, completed, streamVars, actorVars, out, readerVars>>

PollStreamEnd ==
    /\ pc = "poll_stream"
    /\ ~completed
    /\ AllEnded
    /\ completed' = TRUE
    /\ NewSelect("poll_stream")
    /\ UNCHANGED <<taken, held, streamVars, actorVars, out, readerVars>>

\* Not ready, or the branch is disabled.
PollStreamPending ==
    /\ pc = "poll_stream"
    /\ completed \/ (Available = {} /\ ~AllEnded)
    /\ pc' = "poll_pop"
    /\ UNCHANGED <<taken, held, completed, streamVars, futures, mailbox, actorVars, out, readerVars>>

\* push().await
SendPush ==
    /\ pc = "push"
    /\ Room
    /\ mailbox' = Append(mailbox, [op |-> "push", item |-> held])
    /\ held' = Nothing
    /\ pc' = "poll_stream"
    /\ UNCHANGED <<taken, completed, streamVars, futures, actorVars, out, readerVars>>

\* Mutant: the request is sent without waiting for room.
PollPopSendUnbounded ==
    /\ pc = "poll_pop"
    /\ pop.tag = "unsent"
    /\ mailbox' = Append(mailbox, [op |-> "pop", live |-> TRUE])
    /\ pop' = Tagged("waiting")
    /\ UNCHANGED <<taskVars, empty, streamVars, actorVars, out, readerVars>>

\* The first poll of pop() sends the request.
PollPopSend ==
    /\ pc = "poll_pop"
    /\ pop.tag = "unsent"
    /\ Room
    /\ mailbox' = Append(mailbox, [op |-> "pop", live |-> TRUE])
    /\ pop' = Tagged("waiting")
    /\ UNCHANGED <<taskVars, empty, streamVars, actorVars, out, readerVars>>

PollPopBatch ==
    /\ pc = "poll_pop"
    /\ pop.tag = "batch"
    /\ held' = pop
    /\ NewSelect("send_batch")
    /\ UNCHANGED <<taken, completed, streamVars, actorVars, out, readerVars>>

\* pop() returned None: the pattern does not match, the branch is disabled.
PollPopNone ==
    /\ pc = "poll_pop"
    /\ pop.tag = "none"
    /\ pop' = Tagged("disabled")
    /\ pc' = "poll_empty"
    /\ UNCHANGED <<taken, held, completed, empty, streamVars, mailbox, actorVars, out, readerVars>>

PollPopPending ==
    /\ pc = "poll_pop"
    /\ pop.tag \in {"waiting", "disabled"} \/ (pop.tag = "unsent" /\ ~Room)
    /\ pc' = "poll_empty"
    /\ UNCHANGED <<taken, held, completed, streamVars, futures, mailbox, actorVars, out, readerVars>>

PollEmptySend ==
    /\ pc = "poll_empty"
    /\ completed
    /\ empty = "unsent"
    /\ Room
    /\ mailbox' = Append(mailbox, [op |-> "is_empty", live |-> TRUE])
    /\ empty' = "waiting"
    /\ UNCHANGED <<taskVars, pop, streamVars, actorVars, out, readerVars>>

\* is_empty() is ready: leave the loop, or start over.
PollEmptyReply ==
    /\ pc = "poll_empty"
    /\ completed
    /\ empty \in {"true", "false"}
    /\ NewSelect(IF empty = "true" THEN "done" ELSE "poll_stream")
    /\ UNCHANGED <<taken, held, completed, streamVars, actorVars, out, readerVars>>

PollEmptyPending ==
    /\ pc = "poll_empty"
    /\ ~completed \/ empty = "waiting" \/ (empty = "unsent" /\ ~Room)
    /\ pc' = "parked"
    /\ UNCHANGED <<taken, held, completed, streamVars, futures, mailbox, actorVars, out, readerVars>>

\* No branch was ready: the task sleeps until one of its futures wakes it.
Wake ==
    /\ pc = "parked"
    /\ \/ ~completed /\ (Available # {} \/ AllEnded)
       \/ pop.tag \in {"batch", "none"} \/ (pop.tag = "unsent" /\ Room)
       \/ completed /\ (empty \in {"true", "false"} \/ (empty = "unsent" /\ Room))
    /\ pc' = "poll_stream"
    /\ UNCHANGED <<taken, held, completed, streamVars, futures, mailbox, actorVars, out, readerVars>>

\* A batch sent, the loop goes on; an error breaks out of it.
AfterSend ==
    IF pc = "send_error" THEN "done" ELSE IF pc = "send_batch" THEN "poll_stream" ELSE "forward"

\* Mutant: breaks out of the loop without sending the error.
SendResultDropsError ==
    /\ pc \in {"send_batch", "forward_batch", "send_error"}
    /\ ~open \/ Len(out) < BatchCap
    /\ out' = IF open /\ pc # "send_error" THEN Append(out, held) ELSE out
    /\ held' = Nothing
    /\ pc' = AfterSend
    /\ UNCHANGED <<taken, completed, streamVars, futures, mailbox, actorVars, readerVars>>

\* batch_tx.send(..).await: waits for room; fails at once, and the failure is
\* ignored, when the reader is gone.
SendResult ==
    /\ pc \in {"send_batch", "forward_batch", "send_error"}
    /\ ~open \/ Len(out) < BatchCap
    /\ out' = IF open THEN Append(out, held) ELSE out
    /\ held' = Nothing
    /\ pc' = AfterSend
    /\ UNCHANGED <<taken, completed, streamVars, futures, mailbox, actorVars, readerVars>>
-----------------------------------------------------------------------------
(* The actor: DetectionBatcherManager::run.                                *)

HandlePush ==
    /\ mailbox # <<>>
    /\ Head(mailbox).op = "push"
    /\ mailbox' = Tail(mailbox)
    /\ LET item == Head(mailbox).item
       IN  batcher' = Push(batcher, KeyOf(item.choice, item.chunk), item.detector)
    /\ UNCHANGED <<taskVars, futures, streamVars, popped, out, readerVars>>

\* The batch is removed whether or not anyone still waits for the reply.
HandlePopBatch(key) ==
    /\ mailbox # <<>>
    /\ Head(mailbox).op = "pop"
    /\ CanPop(batcher, key)
    /\ mailbox' = Tail(mailbox)
    /\ batcher' = Remove(batcher, key)
    /\ popped' = [popped EXCEPT ![key[1]] = @ + 1]
    /\ pop' = IF Head(mailbox).live THEN MkBatch(key, batcher[key]) ELSE pop
    /\ UNCHANGED <<taskVars, empty, streamVars, out, readerVars>>

HandlePopNone ==
    /\ mailbox # <<>>
    /\ Head(mailbox).op = "pop"
    /\ \A key \in Keys : ~CanPop(batcher, key)
    /\ mailbox' = Tail(mailbox)
    /\ pop' = IF Head(mailbox).live THEN Tagged("none") ELSE pop
    /\ UNCHANGED <<taskVars, empty, streamVars, actorVars, out, readerVars>>

\* Mutant: off by one.
HandleIsAlmostEmpty ==
    /\ mailbox # <<>>
    /\ Head(mailbox).op = "is_empty"
    /\ mailbox' = Tail(mailbox)
    /\ empty' = IF ~Head(mailbox).live THEN empty
                ELSE IF Cardinality(Occupied(batcher)) <= 1 THEN "true" ELSE "false"
    /\ UNCHANGED <<taskVars, pop, streamVars, actorVars, out, readerVars>>

HandleIsEmpty ==
    /\ mailbox # <<>>
    /\ Head(mailbox).op = "is_empty"
    /\ mailbox' = Tail(mailbox)
    /\ empty' = IF ~Head(mailbox).live THEN empty
                ELSE IF IsEmpty(batcher) THEN "true" ELSE "false"
    /\ UNCHANGED <<taskVars, pop, streamVars, actorVars, out, readerVars>>
-----------------------------------------------------------------------------
(* The reader of the batch stream: a process_detection_batch_stream.       *)

\* Every reader returns, and so drops the stream, on the first error.
Receive ==
    /\ open
    /\ out # <<>>
    /\ received' = Append(received, Head(out))
    /\ out' = Tail(out)
    /\ open' = (Head(out) # Error)
    /\ UNCHANGED <<taskVars, futures, streamVars, mailbox, actorVars>>

\* The client has disconnected.
Leave ==
    /\ MayLeave
    /\ open
    /\ open' = FALSE
    /\ out' = <<>>
    /\ UNCHANGED <<taskVars, futures, streamVars, mailbox, actorVars, received>>

\* Nothing is left to do: the task has returned, so the actor's request
\* channel is closed and the batch channel has been read to its end.
Finished ==
    /\ pc = "done"
    /\ mailbox = <<>>
    /\ out = <<>>
    /\ ended = Streams
    /\ UNCHANGED vars
-----------------------------------------------------------------------------
Detector(s) == DetectorSends(s) \/ DetectorFails(s) \/ DetectorEnds(s)

Task ==
    \/ \E s \in Streams : ForwardNext(s) \/ PollStreamItem(s)
    \/ ForwardEnd \/ PollStreamEnd \/ PollStreamPending
    \/ SendPush
    \/ PollPopSend \/ PollPopBatch \/ PollPopNone \/ PollPopPending
    \/ PollEmptySend \/ PollEmptyReply \/ PollEmptyPending
    \/ Wake
    \/ SendResult

Actor ==
    \/ HandlePush
    \/ \E key \in Keys : HandlePopBatch(key)
    \/ HandlePopNone \/ HandleIsEmpty

Reader == Receive \/ Leave

Next ==
    \/ \E s \in Streams : Detector(s)
    \/ Task
    \/ Actor
    \/ Reader
    \/ Finished

Spec == Init /\ [][Next]_vars

\* The runtime polls every task that can run, and the reader keeps reading.
\* Nothing is assumed about the detectors: they may stay silent for ever.
FairSpec == Spec /\ WF_vars(Task) /\ WF_vars(Actor) /\ WF_vars(Receive)
-----------------------------------------------------------------------------
(* Properties.                                                             *)

\* Type invariant: every variable keeps its type, a channel never holds more
\* than its capacity, and the value a send carries fits the send.
TypeOK ==
    /\ sent \in [Streams -> Nat]
    /\ failed \in [Streams -> SUBSET Nat]
    /\ ended \subseteq Streams
    /\ taken \in [Streams -> Nat]
    /\ pc \in {"forward", "forward_batch", "poll_stream", "push", "poll_pop", "poll_empty",
               "parked", "send_batch", "send_error", "done"}
    /\ held \in {Nothing, Error} \union Item \union Batch
    /\ pc = "push" <=> held \in Item
    /\ pc \in {"send_batch", "forward_batch"} <=> held \in Batch
    /\ pc = "send_error" <=> held = Error
    /\ completed \in BOOLEAN
    /\ pop \in PopFuture
    /\ empty \in EmptyFuture
    /\ mailbox \in Seq(Request) /\ Len(mailbox) <= MailboxCap
    /\ batcher \in [Keys -> Seq(Detectors)]
    /\ popped \in [Choices -> Nat]
    /\ out \in Seq({Error} \union Batch) /\ Len(out) <= BatchCap
    /\ received \in Seq({Error} \union Batch)
    /\ open \in BOOLEAN

\* Everything that was put in the batch channel, oldest first.
Delivered == received \o out

\* The batches of one choice reach the reader in chunk order, none of them
\* twice, whatever the order in which the detectors answer and however the
\* task, the actor and the reader interleave (BTreeMap order plus FIFO streams).
InOrder ==
    \A i, j \in DOMAIN Delivered :
        (/\ i < j
         /\ Delivered[i].tag = "batch"
         /\ Delivered[j].tag = "batch"
         /\ Delivered[i].choice = Delivered[j].choice)
        => Delivered[i].chunk < Delivered[j].chunk

\* A batch carries exactly one detection set of every detector: pop_batch only
\* counts the sets, so this rests on no detector answering twice for a chunk.
OneSetPerDetector ==
    \A i \in DOMAIN Delivered :
        Delivered[i].tag = "batch" =>
            /\ Len(Delivered[i].dets) = Cardinality(Detectors)
            /\ \A d \in Detectors : \E k \in DOMAIN Delivered[i].dets : Delivered[i].dets[k] = d

\* An error result has been read from a detection stream.
ErrorRead == \E s \in Streams : \E n \in failed[s] : n <= taken[s]

\* The task ends without an error only when every stream is drained and the
\* batcher has nothing left, in its map or in a push still queued for it: the
\* is_empty() answer it acts on is not stale.
ClosedMeansDrained ==
    (pc = "done" /\ ~ErrorRead) =>
        /\ AllEnded
        /\ IsEmpty(batcher)
        /\ \A i \in DOMAIN mailbox : mailbox[i].op # "push"

\* "Pop batches and send them to batch channel": a stream that ends without an
\* error has delivered a batch for every chunk to a reader that stayed.
EveryChunkDelivered ==
    (pc = "done" /\ ~ErrorRead /\ open) =>
        \A key \in Keys : \E i \in DOMAIN Delivered :
            /\ Delivered[i].tag = "batch"
            /\ Delivered[i].choice = key[1]
            /\ Delivered[i].chunk = key[2]

\* The calls to detectors and chunkers return and no detection stream ends before its
\* last chunk: an assumption on the services.
DetectorsAnswer ==
    /\ \A s \in Streams : WF_vars(Detector(s))
    /\ [](\A s \in ended : sent[s] = NumChunks[s[1]])

\* When all detectors answer every chunk, or one of them fails, the task ends
\* and the actor with it; the reader is not left waiting on an open channel.
StreamCloses == DetectorsAnswer => <>[](pc = "done" /\ mailbox = <<>>)

\* The reader learns of an error the task has read, even when batches are queued
\* before it: it stops reading, which it does for no other reason but to leave.
ErrorReported == ErrorRead ~> ~open

\* A complete batch at the front of the batcher is popped even if no further
\* detections arrive: a pop() that came back None is asked again after a push.
ReadyBatchPopped ==
    \A key \in Keys : CanPop(batcher, key) ~> (~CanPop(batcher, key) \/ pc = "done")
-----------------------------------------------------------------------------
(* The promise to the reader.                                              *)

Status ==
    IF \E i \in DOMAIN received : received[i] = Error THEN "failed"
    ELSE IF ~open THEN "left"
    ELSE IF pc = "done" /\ out = <<>> THEN "closed" ELSE "open"

Channel == INSTANCE BatchChannel
    WITH NumDetectors <- Cardinality(Detectors), log <- received, status <- Status

\* The task, the actor and their channels together implement BatchChannel: the
\* reader sees ordered, whole batches, then an error or the end, and nothing
\* after either, however polls, requests and replies interleave.
ImplementsBatchChannel == Channel!Spec
=============================================================================

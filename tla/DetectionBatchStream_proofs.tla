--------------------- MODULE DetectionBatchStream_proofs ---------------------
(***************************************************************************)
(* Theorems about DetectionBatchStream, for every set of detectors and     *)
(* choices, every number of chunks and every channel capacity.             *)
(***************************************************************************)
EXTENDS DetectionBatchStream, TLAPS

USE DEF Tagged, Error, Nothing

(***************************************************************************)
(* Values.                                                                 *)
(***************************************************************************)

\* What the code passes around is what the record sets say: a batch made from
\* a key of the batcher, an item made from a stream.
LEMMA KeyParts ==
    ASSUME NEW key \in Keys
    PROVE  key[1] \in Choices /\ key[2] \in Nat /\ key[2] \in 1 .. NumChunks[key[1]]
<1>1. PICK c \in Choices : key \in {c} \X (1 .. NumChunks[c])
  BY DEF Keys
<1>2. NumChunks[c] \in Nat
  BY NumChunksAssumption
<1> QED
  BY <1>1, <1>2

LEMMA MkBatchType ==
    ASSUME NEW key, key[1] \in Choices, key[2] \in Nat, NEW dets \in Seq(Detectors)
    PROVE  MkBatch(key, dets) \in Batch
  BY DEF MkBatch, Batch

LEMMA MkItemType ==
    ASSUME NEW s \in Streams, NEW n \in Nat
    PROVE  MkItem(s, n) \in Item
<1>1. s[1] \in Choices /\ s[2] \in Detectors
  BY DEF Streams
<1> QED
  BY <1>1 DEF MkItem, Item

\* Values of different kinds differ in their tag.
LEMMA Kinds ==
    /\ \A v \in Item : v.tag = "item"
    /\ \A v \in Batch : v.tag = "batch"
    /\ Item \intersect Batch = {}
    /\ Nothing \notin Item \union Batch
    /\ Error \notin Item \union Batch
    /\ Nothing # Error
<1>1. \A v \in Item : v.tag = "item"
  BY DEF Item
<1>2. \A v \in Batch : v.tag = "batch"
  BY DEF Batch
<1>3. Nothing.tag = "nothing" /\ Error.tag = "error"
  OBVIOUS
<1> QED
  BY <1>1, <1>2, <1>3

\* Dropping the futures of a select! leaves the queue as long as it was and
\* turns requests into requests.
LEMMA CancelType ==
    ASSUME NEW requests \in Seq(Request)
    PROVE  /\ Cancel(requests) \in Seq(Request)
           /\ Len(Cancel(requests)) = Len(requests)
<1>1. \A r \in Request : r.op # "push" => [op |-> r.op, live |-> FALSE] \in Request
  BY DEF Request
<1>2. \A i \in 1 .. Len(requests) : requests[i] \in Request
  OBVIOUS
<1>3. Cancel(requests) = [i \in 1 .. Len(requests) |->
        IF requests[i].op = "push" THEN requests[i] ELSE [op |-> requests[i].op, live |-> FALSE]]
  BY DEF Cancel
<1>4. Len(requests) \in Nat
  OBVIOUS
<1>5. Cancel(requests) \in [1 .. Len(requests) -> Request]
  BY <1>1, <1>2, <1>3
<1> QED
  BY <1>4, <1>5

(***************************************************************************)
(* Type correctness.                                                       *)
(***************************************************************************)

\* A new select! keeps the types of what it touches.
LEMMA NewSelectType ==
    ASSUME TypeOK, NEW target, NewSelect(target)
    PROVE  /\ pop' \in PopFuture
           /\ empty' \in EmptyFuture
           /\ mailbox' \in Seq(Request) /\ Len(mailbox') <= MailboxCap
  BY CancelType DEF NewSelect, TypeOK, PopFuture, EmptyFuture

\* One more request when there is room for it.
LEMMA AppendType ==
    ASSUME TypeOK, Room, NEW request \in Request, mailbox' = Append(mailbox, request)
    PROVE  mailbox' \in Seq(Request) /\ Len(mailbox') <= MailboxCap
<1>1. mailbox \in Seq(Request) /\ Len(mailbox) \in Nat /\ MailboxCap \in Nat
  BY CapAssumption DEF TypeOK
<1>2. Len(mailbox') = Len(mailbox) + 1 /\ mailbox' \in Seq(Request)
  BY <1>1
<1> QED
  BY <1>1, <1>2 DEF Room

\* The actor takes the oldest request.
LEMMA TailType ==
    ASSUME TypeOK, mailbox # <<>>, mailbox' = Tail(mailbox)
    PROVE  /\ Head(mailbox) \in Request
           /\ mailbox' \in Seq(Request) /\ Len(mailbox') <= MailboxCap
<1>1. mailbox \in Seq(Request) /\ Len(mailbox) \in Nat /\ MailboxCap \in Nat
  BY CapAssumption DEF TypeOK
<1>2. Head(mailbox) \in Request /\ mailbox' \in Seq(Request) /\ Len(mailbox') = Len(mailbox) - 1
  BY <1>1
<1> QED
  BY <1>1, <1>2 DEF TypeOK

LEMMA InitType == Init => TypeOK
<1> SUFFICES ASSUME Init PROVE TypeOK
  OBVIOUS
<1>1. held = Nothing /\ held \notin Item /\ held \notin Batch /\ held # Error
  BY Kinds DEF Init
<1>2. pc \in {"forward", "poll_stream"}
  BY DEF Init
<1>3. batcher \in [Keys -> Seq(Detectors)]
  BY DEF Init, EmptyBatcher
<1>4. /\ mailbox \in Seq(Request) /\ Len(mailbox) <= MailboxCap
      /\ out \in Seq({Error} \union Batch) /\ Len(out) <= BatchCap
      /\ received \in Seq({Error} \union Batch)
  BY CapAssumption DEF Init
<1>5. pop \in PopFuture /\ empty \in EmptyFuture
  BY DEF Init, PopFuture, EmptyFuture
<1> QED
  BY <1>1, <1>2, <1>3, <1>4, <1>5 DEF Init, TypeOK

\* The detection tasks.
LEMMA DetectorType ==
    ASSUME TypeOK, NEW s \in Streams, Detector(s)
    PROVE  TypeOK'
<1>1. CASE DetectorSends(s)
  BY <1>1 DEF DetectorSends, CanSend, TypeOK, taskVars, futures, actorVars, readerVars
<1>2. CASE DetectorFails(s)
  <2>1. sent[s] + 1 \in Nat
    BY DEF TypeOK
  <2>2. failed' \in [Streams -> SUBSET Nat] /\ sent' \in [Streams -> Nat]
    BY <1>2, <2>1 DEF DetectorFails, TypeOK
  <2> QED
    BY <1>2, <2>2 DEF DetectorFails, TypeOK, taskVars, futures, actorVars, readerVars
<1>3. CASE DetectorEnds(s)
  BY <1>3 DEF DetectorEnds, TypeOK, taskVars, futures, actorVars, readerVars
<1> QED
  BY <1>1, <1>2, <1>3 DEF Detector

\* Reading a result from a stream.
LEMMA TakenType ==
    ASSUME TypeOK, NEW s \in Streams
    PROVE  /\ taken[s] + 1 \in Nat
           /\ [taken EXCEPT ![s] = @ + 1] \in [Streams -> Nat]
           /\ MkItem(s, taken[s] + 1) \in Item
           /\ MkBatch(<<s[1], taken[s] + 1>>, <<s[2]>>) \in Batch
<1>1. taken[s] + 1 \in Nat /\ [taken EXCEPT ![s] = @ + 1] \in [Streams -> Nat]
  BY DEF TypeOK
<1>2. s[1] \in Choices /\ s[2] \in Detectors
  BY DEF Streams
<1>3. <<s[2]>> \in Seq(Detectors)
  BY <1>2
<1>4. <<s[1], taken[s] + 1>>[1] \in Choices /\ <<s[1], taken[s] + 1>>[2] \in Nat
  BY <1>1, <1>2
<1> QED
  BY <1>1, <1>3, <1>4, MkItemType, MkBatchType

\* The steps of the task.
LEMMA TaskType ==
    ASSUME TypeOK, Task
    PROVE  TypeOK'
<1> USE DEF streamVars, futures, actorVars, readerVars
<1>1. ASSUME NEW s \in Streams, ForwardNext(s)
      PROVE  TypeOK'
  <2>1. CASE taken[s] + 1 \notin failed[s]
    <3>1. held' \in Batch /\ pc' = "forward_batch"
      BY <1>1, <2>1, TakenType DEF ForwardNext
    <3>2. held' \notin Item /\ held' # Error
      BY <3>1, Kinds
    <3> QED
      BY <1>1, <3>1, <3>2, TakenType DEF ForwardNext, TypeOK
  <2>2. CASE taken[s] + 1 \in failed[s]
    <3>1. held' = Error /\ pc' = "send_error"
      BY <1>1, <2>2 DEF ForwardNext
    <3>2. held' \notin Item /\ held' \notin Batch
      BY <3>1, Kinds
    <3> QED
      BY <1>1, <3>1, <3>2, TakenType DEF ForwardNext, TypeOK
  <2> QED
    BY <2>1, <2>2
<1>2. ASSUME NEW s \in Streams, PollStreamItem(s)
      PROVE  TypeOK'
  <2>1. CASE taken[s] + 1 \notin failed[s]
    <3>1. held' \in Item /\ NewSelect("push")
      BY <1>2, <2>1, TakenType DEF PollStreamItem
    <3>2. held' \notin Batch /\ held' # Error /\ pc' = "push"
      BY <3>1, Kinds DEF NewSelect
    <3> QED
      BY <1>2, <3>1, <3>2, TakenType, NewSelectType DEF PollStreamItem, TypeOK
  <2>2. CASE taken[s] + 1 \in failed[s]
    <3>1. held' = Error /\ NewSelect("send_error")
      BY <1>2, <2>2 DEF PollStreamItem
    <3>2. held' \notin Batch /\ held' \notin Item /\ pc' = "send_error"
      BY <3>1, Kinds DEF NewSelect
    <3> QED
      BY <1>2, <3>1, <3>2, TakenType, NewSelectType DEF PollStreamItem, TypeOK
  <2> QED
    BY <2>1, <2>2
<1>3. CASE ForwardEnd
  BY <1>3 DEF ForwardEnd, TypeOK
<1>4. CASE PollStreamEnd
  BY <1>4, NewSelectType DEF PollStreamEnd, NewSelect, TypeOK
<1>5. CASE PollStreamPending
  BY <1>5 DEF PollStreamPending, TypeOK
<1>6. CASE SendPush
  <2>1. held \in Item
    BY <1>6 DEF SendPush, TypeOK
  <2>2. [op |-> "push", item |-> held] \in Request
    BY <2>1 DEF Request
  <2>3. mailbox' \in Seq(Request) /\ Len(mailbox') <= MailboxCap
    BY <1>6, <2>2, AppendType DEF SendPush
  <2>4. held' = Nothing /\ held' \notin Item /\ held' \notin Batch /\ held' # Error
    BY <1>6, Kinds DEF SendPush
  <2> QED
    BY <1>6, <2>3, <2>4 DEF SendPush, TypeOK
<1>7. CASE PollPopSend
  <2>1. [op |-> "pop", live |-> TRUE] \in Request
    BY DEF Request
  <2>2. mailbox' \in Seq(Request) /\ Len(mailbox') <= MailboxCap
    BY <1>7, <2>1, AppendType DEF PollPopSend
  <2>3. pop' \in PopFuture
    BY <1>7 DEF PollPopSend, PopFuture
  <2> QED
    BY <1>7, <2>2, <2>3 DEF PollPopSend, TypeOK, taskVars
<1>8. CASE PollPopBatch
  <2>1. pop \in Batch
    BY <1>8 DEF PollPopBatch, TypeOK, PopFuture
  <2>2. held' \in Batch /\ held' \notin Item /\ held' # Error
    BY <1>8, <2>1, Kinds DEF PollPopBatch
  <2>3. pc' = "send_batch" /\ NewSelect("send_batch")
    BY <1>8 DEF PollPopBatch, NewSelect
  <2> QED
    BY <1>8, <2>2, <2>3, NewSelectType DEF PollPopBatch, TypeOK
<1>9. CASE PollPopNone
  <2>1. pop' \in PopFuture
    BY <1>9 DEF PollPopNone, PopFuture
  <2> QED
    BY <1>9, <2>1 DEF PollPopNone, TypeOK
<1>10. CASE PollPopPending
  BY <1>10 DEF PollPopPending, TypeOK
<1>11. CASE PollEmptySend
  <2>1. [op |-> "is_empty", live |-> TRUE] \in Request
    BY DEF Request
  <2>2. mailbox' \in Seq(Request) /\ Len(mailbox') <= MailboxCap
    BY <1>11, <2>1, AppendType DEF PollEmptySend
  <2> QED
    BY <1>11, <2>2 DEF PollEmptySend, TypeOK, taskVars, EmptyFuture
<1>12. CASE PollEmptyReply
  <2>1. pc' \in {"done", "poll_stream"} /\ NewSelect(pc')
    BY <1>12 DEF PollEmptyReply, NewSelect
  <2> QED
    BY <1>12, <2>1, NewSelectType DEF PollEmptyReply, TypeOK
<1>13. CASE PollEmptyPending
  BY <1>13 DEF PollEmptyPending, TypeOK
<1>14. CASE Wake
  BY <1>14 DEF Wake, TypeOK
<1>15. CASE SendResult
  <2>1. held \in {Error} \union Batch
    BY <1>15 DEF SendResult, TypeOK
  <2>2. out' \in Seq({Error} \union Batch) /\ Len(out') <= BatchCap
    <3>1. out \in Seq({Error} \union Batch) /\ Len(out) \in Nat /\ BatchCap \in Nat /\ Len(out) <= BatchCap
      BY CapAssumption DEF TypeOK
    <3>2. CASE open
      <4>1. out' = Append(out, held) /\ Len(out) < BatchCap
        BY <1>15, <3>2 DEF SendResult
      <4> QED
        BY <2>1, <3>1, <4>1
    <3>3. CASE ~open
      BY <1>15, <3>1, <3>3 DEF SendResult
    <3> QED
      BY <3>2, <3>3
  <2>3. held' = Nothing /\ held' \notin Item /\ held' \notin Batch /\ held' # Error
    BY <1>15, Kinds DEF SendResult
  <2>4. pc' \in {"poll_stream", "forward", "done"}
    BY <1>15 DEF SendResult, AfterSend
  <2> QED
    BY <1>15, <2>2, <2>3, <2>4 DEF SendResult, TypeOK
<1> QED
  BY <1>1, <1>2, <1>3, <1>4, <1>5, <1>6, <1>7, <1>8, <1>9, <1>10, <1>11, <1>12, <1>13, <1>14, <1>15
     DEF Task

\* The steps of the actor.
LEMMA ActorType ==
    ASSUME TypeOK, Actor
    PROVE  TypeOK'
<1> USE DEF streamVars, taskVars, futures, actorVars, readerVars
<1>1. CASE HandlePush
  <2>1. Head(mailbox) \in Request /\ mailbox' \in Seq(Request) /\ Len(mailbox') <= MailboxCap
    BY <1>1, TailType DEF HandlePush
  <2>2. Head(mailbox).item \in Item
    BY <1>1, <2>1 DEF HandlePush, Request
  <2>3. Head(mailbox).item.detector \in Detectors
    BY <2>2 DEF Item
  <2>4. batcher' \in [Keys -> Seq(Detectors)]
    <3> DEFINE key == KeyOf(Head(mailbox).item.choice, Head(mailbox).item.chunk)
               d == Head(mailbox).item.detector
    <3>1. batcher' = [batcher EXCEPT ![key] = Append(batcher[key], d)]
      BY <1>1 DEF HandlePush, Push
    <3>2. batcher \in [Keys -> Seq(Detectors)]
      BY DEF TypeOK
    <3>3. key \in Keys => Append(batcher[key], d) \in Seq(Detectors)
      BY <2>3, <3>2
    <3> HIDE DEF key, d
    <3> QED
      BY <3>1, <3>2, <3>3
  <2> QED
    BY <1>1, <2>1, <2>4 DEF HandlePush, TypeOK
<1>2. ASSUME NEW key \in Keys, HandlePopBatch(key)
      PROVE  TypeOK'
  <2>1. mailbox' \in Seq(Request) /\ Len(mailbox') <= MailboxCap
    BY <1>2, TailType DEF HandlePopBatch
  <2>2. key[1] \in Choices /\ key[2] \in Nat /\ batcher[key] \in Seq(Detectors)
    BY KeyParts DEF TypeOK
  <2>3. pop' \in PopFuture
    BY <1>2, <2>2, MkBatchType DEF HandlePopBatch, PopFuture, TypeOK
  <2>4. batcher' \in [Keys -> Seq(Detectors)]
    BY <1>2 DEF HandlePopBatch, Remove, TypeOK
  <2>5. popped' \in [Choices -> Nat]
    BY <1>2, <2>2 DEF HandlePopBatch, TypeOK
  <2> QED
    BY <1>2, <2>1, <2>3, <2>4, <2>5 DEF HandlePopBatch, TypeOK
<1>3. CASE HandlePopNone
  <2>1. mailbox' \in Seq(Request) /\ Len(mailbox') <= MailboxCap
    BY <1>3, TailType DEF HandlePopNone
  <2>2. pop' \in PopFuture
    BY <1>3 DEF HandlePopNone, PopFuture, TypeOK
  <2> QED
    BY <1>3, <2>1, <2>2 DEF HandlePopNone, TypeOK
<1>4. CASE HandleIsEmpty
  <2>1. mailbox' \in Seq(Request) /\ Len(mailbox') <= MailboxCap
    BY <1>4, TailType DEF HandleIsEmpty
  <2>2. empty' \in EmptyFuture
    BY <1>4 DEF HandleIsEmpty, EmptyFuture, TypeOK
  <2> QED
    BY <1>4, <2>1, <2>2 DEF HandleIsEmpty, TypeOK
<1> QED
  BY <1>1, <1>2, <1>3, <1>4 DEF Actor

\* The steps of the reader.
LEMMA ReaderType ==
    ASSUME TypeOK, Reader
    PROVE  TypeOK'
<1> USE DEF streamVars, taskVars, futures, actorVars, readerVars
<1>1. CASE Receive
  <2>1. out \in Seq({Error} \union Batch) /\ Len(out) <= BatchCap /\ BatchCap \in Nat /\ out # <<>>
    BY <1>1, CapAssumption DEF Receive, TypeOK
  <2>2. Head(out) \in {Error} \union Batch /\ Tail(out) \in Seq({Error} \union Batch)
    BY <2>1
  <2>3. Len(Tail(out)) <= BatchCap
    BY <2>1
  <2>4. received' \in Seq({Error} \union Batch)
    BY <1>1, <2>2 DEF Receive, TypeOK
  <2> QED
    BY <1>1, <2>2, <2>3, <2>4 DEF Receive, TypeOK
<1>2. CASE Leave
  <2>1. out' \in Seq({Error} \union Batch) /\ Len(out') <= BatchCap
    BY <1>2, CapAssumption DEF Leave
  <2> QED
    BY <1>2, <2>1 DEF Leave, TypeOK
<1> QED
  BY <1>1, <1>2 DEF Reader

LEMMA NextType ==
    ASSUME TypeOK, [Next]_vars
    PROVE  TypeOK'
<1>1. CASE UNCHANGED vars
  BY <1>1 DEF TypeOK, vars, streamVars, taskVars, futures, actorVars, readerVars
<1> QED
  BY <1>1, DetectorType, TaskType, ActorType, ReaderType DEF Next, Finished

\* In every reachable state the variables are well typed, no channel holds
\* more than its capacity and the task holds the value its next send needs.
THEOREM TypeCorrect == Spec => []TypeOK
  BY InitType, NextType, PTL DEF Spec

(***************************************************************************)
(* The task only ends drained.                                             *)
(***************************************************************************)

NoPushQueued == \A i \in DOMAIN mailbox : mailbox[i].op # "push"

\* Once the merged stream has completed nothing more is pushed.
CompletedIsEnd ==
    completed => AllEnded /\ pc \notin {"push", "forward", "forward_batch", "send_error"}

\* is_empty() is only asked after completion, so no push is queued behind it.
EmptyAskedAtEnd ==
    \A i \in DOMAIN mailbox : mailbox[i].op = "is_empty" =>
        /\ completed
        /\ \A j \in DOMAIN mailbox : i < j => mailbox[j].op # "push"

\* A positive answer stays true until the task reads it.
EmptyAnswerHolds == empty = "true" => completed /\ IsEmpty(batcher) /\ NoPushQueued

\* The path for a single stream leaves the actor alone.
ForwardIdle == pc \in {"forward", "forward_batch"} => mailbox = <<>> /\ IsEmpty(batcher)

\* An error is only sent after one was read.
ErrorSent == pc = "send_error" => ErrorRead

\* The inductive invariant behind ClosedMeansDrained.
DrainInv ==
    /\ CompletedIsEnd
    /\ EmptyAskedAtEnd
    /\ EmptyAnswerHolds
    /\ ForwardIdle
    /\ ErrorSent
    /\ ClosedMeansDrained

\* What a step does to the queue of requests, index by index.
LEMMA QueueCancelled ==
    ASSUME TypeOK, NEW target, NewSelect(target)
    PROVE  /\ DOMAIN mailbox' = DOMAIN mailbox
           /\ \A i \in DOMAIN mailbox : mailbox'[i].op = mailbox[i].op
  BY DEF NewSelect, Cancel

LEMMA QueueTail ==
    ASSUME TypeOK, mailbox # <<>>, mailbox' = Tail(mailbox)
    PROVE  /\ 1 \in DOMAIN mailbox /\ Head(mailbox) = mailbox[1]
           /\ DOMAIN mailbox \subseteq Int
           /\ \A i \in DOMAIN mailbox' : i > 0 /\ i + 1 \in DOMAIN mailbox /\ mailbox'[i] = mailbox[i + 1]
  BY DEF TypeOK

LEMMA QueueAppended ==
    ASSUME TypeOK, NEW request, mailbox' = Append(mailbox, request)
    PROVE  \A i \in DOMAIN mailbox' :
               \/ i \in DOMAIN mailbox /\ mailbox'[i] = mailbox[i]
               \/ i \notin DOMAIN mailbox /\ mailbox'[i] = request /\ \A j \in DOMAIN mailbox' : ~(i < j)
  BY DEF TypeOK

\* Errors that were read stay read.
LEMMA ErrorReadStable ==
    ASSUME TypeOK, ErrorRead,
           \A s \in Streams : failed[s] \subseteq failed'[s] /\ taken'[s] \in Nat /\ taken[s] <= taken'[s]
    PROVE  ErrorRead'
<1>0. PICK s \in Streams : \E n \in failed[s] : n <= taken[s]
  BY DEF ErrorRead
<1>1. PICK n \in failed[s] : n <= taken[s]
  BY <1>0
<1>2. n \in Nat /\ taken[s] \in Nat
  BY <1>1 DEF TypeOK
<1>3. n \in failed'[s] /\ n <= taken'[s]
  BY <1>1, <1>2
<1> QED
  BY <1>3 DEF ErrorRead

LEMMA InitDrain == Init => DrainInv
<1> SUFFICES ASSUME Init PROVE DrainInv
  OBVIOUS
<1>1. mailbox = <<>> /\ pc \in {"forward", "poll_stream"} /\ ~completed /\ empty = "unsent"
  BY DEF Init
<1>2. IsEmpty(batcher)
  BY DEF Init, EmptyBatcher, IsEmpty, Occupied
<1> QED
  BY <1>1, <1>2 DEF DrainInv, CompletedIsEnd, EmptyAskedAtEnd, EmptyAnswerHolds, ForwardIdle,
                    ErrorSent, ClosedMeansDrained, NoPushQueued

\* A detection task that still runs shows that the streams have not ended.
LEMMA DetectorDrain ==
    ASSUME TypeOK, DrainInv, NEW s \in Streams, Detector(s)
    PROVE  DrainInv'
<1>1. s \notin ended
  BY DEF Detector, DetectorSends, DetectorFails, DetectorEnds, CanSend
<1>2. ~completed /\ empty # "true" /\ (pc = "done" => ErrorRead)
  BY <1>1 DEF DrainInv, CompletedIsEnd, EmptyAnswerHolds, ClosedMeansDrained, AllEnded
<1>3. UNCHANGED <<taskVars, futures, mailbox, actorVars>>
  BY DEF Detector, DetectorSends, DetectorFails, DetectorEnds, taskVars, futures, actorVars
<1>4. \A t \in Streams : failed[t] \subseteq failed'[t] /\ taken'[t] \in Nat /\ taken[t] <= taken'[t]
  <2>1. taken' = taken /\ taken \in [Streams -> Nat] /\ failed \in [Streams -> SUBSET Nat]
    BY <1>3 DEF TypeOK, taskVars
  <2>2. failed' = failed \/ failed' = [failed EXCEPT ![s] = failed[s] \union {sent[s] + 1}]
    BY DEF Detector, DetectorSends, DetectorFails, DetectorEnds
  <2> QED
    BY <2>1, <2>2
<1>5. ErrorRead => ErrorRead'
  BY <1>4, ErrorReadStable
<1> QED
  BY <1>2, <1>3, <1>5 DEF DrainInv, CompletedIsEnd, EmptyAskedAtEnd, EmptyAnswerHolds, ForwardIdle,
                          ErrorSent, ClosedMeansDrained, NoPushQueued, taskVars, futures, actorVars

\* Reading the streams.
LEMMA PollStreamDrain ==
    ASSUME TypeOK, DrainInv, NEW s \in Streams, ForwardNext(s) \/ PollStreamItem(s)
    PROVE  DrainInv'
<1>1. taken' = [taken EXCEPT ![s] = @ + 1] /\ failed' = failed /\ UNCHANGED completed /\ batcher' = batcher
  BY DEF ForwardNext, PollStreamItem, streamVars, actorVars
<1>2. pc \in {"forward", "poll_stream"} /\ ~completed
  BY DEF ForwardNext, PollStreamItem, DrainInv, CompletedIsEnd
<1>3. \A i \in DOMAIN mailbox : mailbox[i].op # "is_empty"
  BY <1>2 DEF DrainInv, EmptyAskedAtEnd
<1>4. \A i \in DOMAIN mailbox' : mailbox'[i].op # "is_empty"
  <2>1. CASE ForwardNext(s)
    BY <2>1, <1>3 DEF ForwardNext
  <2>2. CASE PollStreamItem(s)
    BY <2>2, <1>3, QueueCancelled DEF PollStreamItem
  <2> QED
    BY <2>1, <2>2
<1>5. empty' # "true"
  BY <1>2 DEF ForwardNext, PollStreamItem, NewSelect, DrainInv, EmptyAnswerHolds, futures
<1>6. /\ pc' \in {"forward_batch", "push", "send_error"}
      /\ pc' = "send_error" => taken[s] + 1 \in failed[s]
      /\ pc' = "forward_batch" => pc = "forward" /\ mailbox' = mailbox
  BY <1>2 DEF ForwardNext, PollStreamItem, NewSelect
<1>7. pc' = "send_error" => ErrorRead'
  <2> SUFFICES ASSUME taken[s] + 1 \in failed[s] PROVE ErrorRead'
    BY <1>6
  <2>1. taken'[s] = taken[s] + 1 /\ taken[s] \in Nat
    BY <1>1 DEF TypeOK
  <2>2. taken[s] + 1 \in failed'[s] /\ taken[s] + 1 <= taken'[s]
    BY <1>1, <2>1
  <2> QED
    BY <2>2 DEF ErrorRead
<1>8. ForwardIdle'
  BY <1>1, <1>6 DEF DrainInv, ForwardIdle
<1> QED
  BY <1>1, <1>2, <1>4, <1>5, <1>6, <1>7, <1>8
     DEF DrainInv, CompletedIsEnd, EmptyAskedAtEnd, EmptyAnswerHolds, ErrorSent, ClosedMeansDrained

LEMMA StreamsUnchanged ==
    ASSUME UNCHANGED <<sent, failed, ended, taken>>
    PROVE  (AllEnded' <=> AllEnded) /\ (ErrorRead' <=> ErrorRead)
  BY DEF AllEnded, ErrorRead

\* Steps that only move the task or its futures along, between places where
\* it neither pushes, forwards nor has ended.
LEMMA QuietDrain ==
    ASSUME TypeOK, DrainInv,
           UNCHANGED <<sent, failed, ended, taken, completed, mailbox, batcher>>,
           empty' \in {empty, "unsent"},
           pc' \in {"poll_stream", "poll_pop", "poll_empty", "parked"}
    PROVE  DrainInv'
  BY StreamsUnchanged
     DEF DrainInv, CompletedIsEnd, EmptyAskedAtEnd, EmptyAnswerHolds, ForwardIdle, ErrorSent,
         ClosedMeansDrained, NoPushQueued

\* The remaining steps of the task.
LEMMA TaskDrain ==
    ASSUME TypeOK, DrainInv, Task
    PROVE  DrainInv'
<1> USE DEF streamVars, taskVars, futures, actorVars
<1>1. ASSUME NEW s \in Streams, ForwardNext(s) \/ PollStreamItem(s)
      PROVE  DrainInv'
  BY <1>1, PollStreamDrain
<1>2. CASE ForwardEnd
  <2>1. AllEnded /\ IsEmpty(batcher) /\ mailbox = <<>> /\ ~completed /\ empty # "true"
    BY <1>2 DEF ForwardEnd, DrainInv, ForwardIdle, CompletedIsEnd, EmptyAnswerHolds
  <2>2. UNCHANGED <<sent, failed, ended, taken, completed, mailbox, batcher, empty>> /\ pc' = "done"
    BY <1>2 DEF ForwardEnd
  <2> QED
    BY <2>1, <2>2, StreamsUnchanged
       DEF DrainInv, CompletedIsEnd, EmptyAskedAtEnd, EmptyAnswerHolds, ForwardIdle, ErrorSent,
           ClosedMeansDrained, NoPushQueued
<1>3. CASE PollStreamEnd
  <2>1. AllEnded /\ completed' /\ pc' = "poll_stream" /\ empty' = "unsent"
    BY <1>3 DEF PollStreamEnd, NewSelect
  <2>2. UNCHANGED <<sent, failed, ended, taken, batcher>>
    BY <1>3 DEF PollStreamEnd
  <2>3. \A i \in DOMAIN mailbox' : mailbox'[i].op # "is_empty"
    BY <1>3, QueueCancelled DEF PollStreamEnd, DrainInv, EmptyAskedAtEnd
  <2> QED
    BY <2>1, <2>2, <2>3, StreamsUnchanged
       DEF DrainInv, CompletedIsEnd, EmptyAskedAtEnd, EmptyAnswerHolds, ForwardIdle, ErrorSent,
           ClosedMeansDrained
<1>4. CASE PollStreamPending
  BY <1>4, QuietDrain DEF PollStreamPending
<1>5. CASE SendPush
  <2>1. ~completed /\ empty # "true" /\ pc' = "poll_stream"
    BY <1>5 DEF SendPush, DrainInv, CompletedIsEnd, EmptyAnswerHolds
  <2>2. \A i \in DOMAIN mailbox : mailbox[i].op # "is_empty"
    BY <2>1 DEF DrainInv, EmptyAskedAtEnd
  <2>3. \A i \in DOMAIN mailbox' : mailbox'[i].op # "is_empty"
    BY <1>5, <2>2, QueueAppended DEF SendPush
  <2> QED
    BY <1>5, <2>1, <2>3
       DEF SendPush, DrainInv, CompletedIsEnd, EmptyAskedAtEnd, EmptyAnswerHolds, ForwardIdle, ErrorSent,
           ClosedMeansDrained
<1>6. CASE PollPopSend \/ PollEmptySend
  <2>1. PICK request : /\ mailbox' = Append(mailbox, request)
                       /\ request.op # "push"
                       /\ request.op = "is_empty" => completed
    BY <1>6 DEF PollPopSend, PollEmptySend
  <2>2. /\ UNCHANGED <<sent, failed, ended, taken, completed, pc, batcher>>
        /\ empty' \in {empty, "waiting"}
        /\ pc \in {"poll_pop", "poll_empty"}
    BY <1>6 DEF PollPopSend, PollEmptySend
  <2>3. EmptyAskedAtEnd'
    BY <2>1, <2>2, QueueAppended DEF DrainInv, EmptyAskedAtEnd
  <2>4. NoPushQueued => NoPushQueued'
    BY <2>1, QueueAppended DEF NoPushQueued
  <2> QED
    BY <2>2, <2>3, <2>4, StreamsUnchanged
       DEF DrainInv, CompletedIsEnd, EmptyAnswerHolds, ForwardIdle, ErrorSent, ClosedMeansDrained
<1>7. CASE PollPopBatch
  <2>1. /\ UNCHANGED <<sent, failed, ended, taken, completed, batcher>>
        /\ empty' = "unsent" /\ pc' = "send_batch"
    BY <1>7 DEF PollPopBatch, NewSelect
  <2>2. EmptyAskedAtEnd'
    BY <1>7, <2>1, QueueCancelled DEF PollPopBatch, DrainInv, EmptyAskedAtEnd
  <2> QED
    BY <1>7, <2>1, <2>2, StreamsUnchanged
       DEF PollPopBatch, DrainInv, CompletedIsEnd, EmptyAnswerHolds, ForwardIdle, ErrorSent, ClosedMeansDrained
<1>8. CASE PollPopNone \/ PollPopPending \/ PollEmptyPending \/ Wake
  BY <1>8, QuietDrain DEF PollPopNone, PollPopPending, PollEmptyPending, Wake
<1>9. CASE PollEmptyReply
  <2>1. /\ UNCHANGED <<sent, failed, ended, taken, completed, batcher>>
        /\ empty' = "unsent" /\ completed
        /\ pc' = (IF empty = "true" THEN "done" ELSE "poll_stream")
    BY <1>9 DEF PollEmptyReply, NewSelect
  <2>2. PICK target : NewSelect(target)
    BY <1>9 DEF PollEmptyReply
  <2>3. EmptyAskedAtEnd'
    BY <2>1, <2>2, QueueCancelled DEF DrainInv, EmptyAskedAtEnd
  <2>4. NoPushQueued => NoPushQueued'
    BY <2>2, QueueCancelled DEF NoPushQueued
  <2>5. CompletedIsEnd' /\ EmptyAnswerHolds' /\ ForwardIdle' /\ ErrorSent'
    BY <2>1, StreamsUnchanged DEF DrainInv, CompletedIsEnd, EmptyAnswerHolds, ForwardIdle, ErrorSent
  <2>6. ClosedMeansDrained'
    BY <2>1, <2>4, StreamsUnchanged
       DEF DrainInv, CompletedIsEnd, EmptyAnswerHolds, ClosedMeansDrained, NoPushQueued
  <2> QED
    BY <2>3, <2>5, <2>6 DEF DrainInv
<1>10. CASE SendResult
  <2>1. UNCHANGED <<sent, failed, ended, taken, completed, mailbox, batcher, empty>> /\ pc' = AfterSend
    BY <1>10 DEF SendResult
  <2>2. pc \in {"send_batch", "forward_batch", "send_error"}
    BY <1>10 DEF SendResult
  <2> QED
    BY <2>1, <2>2, StreamsUnchanged
       DEF AfterSend, DrainInv, CompletedIsEnd, EmptyAskedAtEnd, EmptyAnswerHolds, ForwardIdle, ErrorSent,
           ClosedMeansDrained, NoPushQueued
<1> QED
  BY <1>1, <1>2, <1>3, <1>4, <1>5, <1>6, <1>7, <1>8, <1>9, <1>10 DEF Task

\* The steps of the actor: a push only comes while the streams run.
LEMMA ActorDrain ==
    ASSUME TypeOK, DrainInv, Actor
    PROVE  DrainInv'
<1> USE DEF streamVars, taskVars, futures, actorVars
<1>1. mailbox # <<>> /\ mailbox' = Tail(mailbox)
  BY DEF Actor, HandlePush, HandlePopBatch, HandlePopNone, HandleIsEmpty
<1>2. UNCHANGED <<sent, failed, ended, taken, completed, pc>>
  BY DEF Actor, HandlePush, HandlePopBatch, HandlePopNone, HandleIsEmpty
<1>3. EmptyAskedAtEnd'
  <2> SUFFICES ASSUME NEW i \in DOMAIN mailbox', mailbox'[i].op = "is_empty"
               PROVE  completed /\ \A j \in DOMAIN mailbox' : i < j => mailbox'[j].op # "push"
    BY <1>2 DEF EmptyAskedAtEnd
  <2>1. i + 1 \in DOMAIN mailbox /\ mailbox[i + 1].op = "is_empty"
    BY <1>1, QueueTail
  <2>2. completed /\ \A j \in DOMAIN mailbox : i + 1 < j => mailbox[j].op # "push"
    BY <2>1 DEF DrainInv, EmptyAskedAtEnd
  <2> SUFFICES ASSUME NEW j \in DOMAIN mailbox', i < j PROVE mailbox'[j].op # "push"
    BY <2>2
  <2>3. j + 1 \in DOMAIN mailbox /\ mailbox'[j] = mailbox[j + 1]
    BY <1>1, QueueTail
  <2>4. i + 1 \in Int /\ j + 1 \in Int /\ i \in Int /\ j \in Int
    BY <1>1, TailType DEF TypeOK
  <2> QED
    BY <2>2, <2>3, <2>4
<1>4. NoPushQueued => NoPushQueued'
  BY <1>1, QueueTail DEF NoPushQueued
<1>5. ForwardIdle'
  BY <1>1, <1>2 DEF DrainInv, ForwardIdle
<1>6. CompletedIsEnd' /\ ErrorSent'
  BY <1>2, StreamsUnchanged DEF DrainInv, CompletedIsEnd, ErrorSent
<1>7. CASE HandlePush
  <2>1. ~NoPushQueued
    BY <1>1, <1>7, QueueTail DEF HandlePush, NoPushQueued
  <2>2. empty' # "true" /\ (pc' = "done" => ErrorRead')
    BY <1>2, <1>7, <2>1, StreamsUnchanged
       DEF HandlePush, DrainInv, EmptyAnswerHolds, ClosedMeansDrained, NoPushQueued
  <2> QED
    BY <1>3, <1>5, <1>6, <2>2 DEF DrainInv, EmptyAnswerHolds, ClosedMeansDrained
<1>8. CASE (\E key \in Keys : HandlePopBatch(key)) \/ HandlePopNone
  <2>1. empty' = empty
    BY <1>8 DEF HandlePopBatch, HandlePopNone
  <2>2. IsEmpty(batcher) => IsEmpty(batcher')
    <3>1. ASSUME NEW key \in Keys, HandlePopBatch(key)
          PROVE  ~IsEmpty(batcher)
      BY <3>1 DEF HandlePopBatch, CanPop, IsFirstKey, IsEmpty
    <3> QED
      BY <1>8, <3>1 DEF HandlePopNone
  <2> QED
    BY <1>2, <1>3, <1>4, <1>5, <1>6, <2>1, <2>2, StreamsUnchanged
       DEF DrainInv, EmptyAnswerHolds, ClosedMeansDrained, NoPushQueued
<1>9. CASE HandleIsEmpty
  <2>1. mailbox[1].op = "is_empty" /\ 1 \in DOMAIN mailbox
    BY <1>1, <1>9, QueueTail DEF HandleIsEmpty
  <2>2. completed /\ \A j \in DOMAIN mailbox : 1 < j => mailbox[j].op # "push"
    BY <2>1 DEF DrainInv, EmptyAskedAtEnd
  <2>3. NoPushQueued'
    <3> SUFFICES ASSUME NEW i \in DOMAIN mailbox' PROVE mailbox'[i].op # "push"
      BY DEF NoPushQueued
    <3>1. i > 0 /\ i + 1 \in DOMAIN mailbox /\ mailbox'[i] = mailbox[i + 1]
      BY <1>1, QueueTail
    <3>2. i \in Int
      BY <1>1, TailType DEF TypeOK
    <3> QED
      BY <2>2, <3>1, <3>2
  <2>4. batcher' = batcher /\ (empty' = "true" => empty = "true" \/ IsEmpty(batcher))
    BY <1>9 DEF HandleIsEmpty
  <2> QED
    BY <1>2, <1>3, <1>5, <1>6, <2>2, <2>3, <2>4, StreamsUnchanged
       DEF DrainInv, EmptyAnswerHolds, ClosedMeansDrained, NoPushQueued
<1> QED
  BY <1>7, <1>8, <1>9 DEF Actor

LEMMA NextDrain ==
    ASSUME TypeOK, DrainInv, [Next]_vars
    PROVE  DrainInv'
<1>1. CASE UNCHANGED vars \/ Reader
  <2>1. UNCHANGED <<sent, failed, ended, taken, completed, pc, mailbox, batcher, empty>>
    BY <1>1 DEF vars, Reader, Receive, Leave, streamVars, taskVars, futures, actorVars
  <2> QED
    BY <2>1, StreamsUnchanged
       DEF DrainInv, CompletedIsEnd, EmptyAskedAtEnd, EmptyAnswerHolds, ForwardIdle, ErrorSent,
           ClosedMeansDrained, NoPushQueued
<1> QED
  BY <1>1, DetectorDrain, TaskDrain, ActorDrain DEF Next, Finished

\* The task never ends on a stale is_empty() answer: when it has ended and no
\* error was read, the streams are drained, the batcher is empty and no push is
\* queued for it.
THEOREM EndsDrained == Spec => []ClosedMeansDrained
<1>1. TypeOK /\ DrainInv /\ [Next]_vars => DrainInv'
  BY NextDrain
<1>2. DrainInv => ClosedMeansDrained
  BY DEF DrainInv
<1> QED
  BY <1>1, <1>2, InitDrain, TypeCorrect, PTL DEF Spec
==============================================================================

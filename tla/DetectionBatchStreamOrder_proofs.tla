----------------- MODULE DetectionBatchStreamOrder_proofs -----------------
(***************************************************************************)
(* The batches of a choice leave DetectionBatchStream in chunk order, each *)
(* with one detection set of every detector; what the reader sees is what  *)
(* BatchChannel promises; and a single stream is forwarded completely.     *)
(* For every set of detectors and choices, every number of chunks and      *)
(* every channel capacity.                                                 *)
(***************************************************************************)
EXTENDS DetectionBatchStream_proofs, FiniteSetTheorems

USE DEF Tagged, Error, Nothing

StreamOf(item) == <<item.choice, item.detector>>
PushAt(i) == i \in DOMAIN mailbox /\ mailbox[i].op = "push"

\* Detection sets of one stream are queued in the order of their chunks, the
\* one the task is about to push last.
QueueOrder ==
    /\ \A i \in DOMAIN mailbox : PushAt(i) =>
           mailbox[i].item.chunk <= taken[StreamOf(mailbox[i].item)]
    /\ \A i, j \in DOMAIN mailbox :
           (i < j /\ PushAt(i) /\ PushAt(j) /\ StreamOf(mailbox[i].item) = StreamOf(mailbox[j].item))
           => mailbox[i].item.chunk < mailbox[j].item.chunk
    /\ held \in Item =>
           /\ held.chunk = taken[StreamOf(held)]
           /\ \A i \in DOMAIN mailbox : (PushAt(i) /\ StreamOf(mailbox[i].item) = StreamOf(held))
                  => mailbox[i].item.chunk < held.chunk

\* What the batcher holds of a stream is older than what is still queued.
BatcherOrder ==
    \A key \in Keys : \A k \in DOMAIN batcher[key] :
        /\ key[2] <= taken[<<key[1], batcher[key][k]>>]
        /\ \A i \in DOMAIN mailbox : (PushAt(i) /\ StreamOf(mailbox[i].item) = <<key[1], batcher[key][k]>>)
               => key[2] < mailbox[i].item.chunk
        /\ (held \in Item /\ StreamOf(held) = <<key[1], batcher[key][k]>>) => key[2] < held.chunk

\* No detector is in an entry of the batcher twice.
BatcherSets ==
    \A key \in Keys : \A k, l \in DOMAIN batcher[key] :
        batcher[key][k] = batcher[key][l] => k = l

\* Everything of the choice of b up to b is done with: read, pushed and popped.
Past(b) ==
    /\ \A d \in Detectors : b.chunk <= taken[<<b.choice, d>>]
    /\ \A i \in DOMAIN mailbox : (PushAt(i) /\ mailbox[i].item.choice = b.choice)
           => b.chunk < mailbox[i].item.chunk
    /\ (held \in Item /\ held.choice = b.choice) => b.chunk < held.chunk
    /\ \A key \in Keys : (key[1] = b.choice /\ key[2] <= b.chunk) => batcher[key] = <<>>

Whole(b) ==
    /\ Len(b.dets) = Cardinality(Detectors)
    /\ \A d \in Detectors : \E k \in DOMAIN b.dets : b.dets[k] = d

After(b, a) == a.choice = b.choice => a.chunk < b.chunk

\* The batches on their way: the ones sent, the one the task is sending and the
\* one in the reply to pop().
Emitted == {Delivered[i] : i \in DOMAIN Delivered} \union {held, pop}

EmittedPast == \A b \in Emitted : b \in Batch => Past(b) /\ Whole(b)

EmittedOrder ==
    /\ \A i \in DOMAIN Delivered :
           Delivered[i] \in Batch =>
               /\ held \in Batch => After(held, Delivered[i])
               /\ pop \in Batch => After(pop, Delivered[i])
    /\ (held \in Batch /\ pop \in Batch) => After(pop, held)

\* The path for a single stream does not use pop().
ForwardSingle ==
    pc \in {"forward", "forward_batch"} => Cardinality(Streams) = 1 /\ pop \notin Batch

\* The inductive invariant behind InOrder and OneSetPerDetector.
OrderInv ==
    /\ QueueOrder
    /\ BatcherOrder
    /\ BatcherSets
    /\ EmittedPast
    /\ EmittedOrder
    /\ ForwardSingle
    /\ InOrder
-----------------------------------------------------------------------------
(* The batch channel.                                                      *)

LEMMA ConcatIndex ==
    ASSUME NEW S, NEW r \in Seq(S), NEW o \in Seq(S)
    PROVE  /\ Len(r) \in Nat /\ Len(o) \in Nat
           /\ DOMAIN (r \o o) = 1 .. (Len(r) + Len(o))
           /\ \A i \in 1 .. (Len(r) + Len(o)) :
                  /\ (r \o o)[i] = IF i <= Len(r) THEN r[i] ELSE o[i - Len(r)]
                  /\ (r \o o)[i] \in S
  OBVIOUS

LEMMA DeliveredIndex ==
    ASSUME TypeOK
    PROVE  /\ DOMAIN Delivered = 1 .. (Len(received) + Len(out))
           /\ Len(received) \in Nat /\ Len(out) \in Nat
           /\ \A i \in DOMAIN Delivered :
                  /\ Delivered[i] = IF i <= Len(received) THEN received[i] ELSE out[i - Len(received)]
                  /\ Delivered[i] \in {Error} \union Batch
  BY ConcatIndex DEF TypeOK, Delivered

LEMMA DeliveredIndexNext ==
    ASSUME TypeOK'
    PROVE  /\ DOMAIN Delivered' = 1 .. (Len(received') + Len(out'))
           /\ \A i \in DOMAIN Delivered' :
                  Delivered'[i] = IF i <= Len(received') THEN received'[i] ELSE out'[i - Len(received')]
  BY ConcatIndex DEF TypeOK, Delivered

LEMMA DeliveredSent ==
    ASSUME TypeOK, TypeOK', out' = Append(out, held), received' = received
    PROVE  \A i \in DOMAIN Delivered' :
               \/ i \in DOMAIN Delivered /\ Delivered'[i] = Delivered[i]
               \/ /\ i \notin DOMAIN Delivered /\ Delivered'[i] = held
                  /\ \A j \in DOMAIN Delivered' : j <= i
<1>1. Len(out') = Len(out) + 1 /\ out'[Len(out) + 1] = held /\ \A k \in 1 .. Len(out) : out'[k] = out[k]
  BY DEF TypeOK
<1>2. /\ DOMAIN Delivered = 1 .. (Len(received) + Len(out))
      /\ DOMAIN Delivered' = 1 .. (Len(received) + Len(out) + 1)
      /\ Len(received) \in Nat /\ Len(out) \in Nat
  BY <1>1, DeliveredIndex, DeliveredIndexNext
<1>3. \A i \in DOMAIN Delivered : Delivered[i] = IF i <= Len(received) THEN received[i] ELSE out[i - Len(received)]
  BY DeliveredIndex
<1>4. \A i \in DOMAIN Delivered' :
          Delivered'[i] = IF i <= Len(received) THEN received[i] ELSE out'[i - Len(received)]
  BY DeliveredIndexNext
<1>5. ASSUME NEW i \in DOMAIN Delivered', i <= Len(received)
      PROVE  i \in DOMAIN Delivered /\ Delivered'[i] = Delivered[i]
  BY <1>2, <1>3, <1>4, <1>5
<1>6. ASSUME NEW i \in DOMAIN Delivered', ~(i <= Len(received)), i <= Len(received) + Len(out)
      PROVE  i \in DOMAIN Delivered /\ Delivered'[i] = Delivered[i]
  <2>1. i \in DOMAIN Delivered /\ i - Len(received) \in 1 .. Len(out)
    BY <1>2, <1>6
  <2>2. Delivered'[i] = out'[i - Len(received)] /\ Delivered[i] = out[i - Len(received)]
    BY <1>3, <1>4, <1>6, <2>1
  <2> QED
    BY <1>1, <2>1, <2>2
<1>7. ASSUME NEW i \in DOMAIN Delivered', ~(i <= Len(received) + Len(out))
      PROVE  /\ i \notin DOMAIN Delivered /\ Delivered'[i] = held
             /\ \A j \in DOMAIN Delivered' : j <= i
  <2>1. i = Len(received) + Len(out) + 1
    BY <1>2, <1>7
  <2>2. Delivered'[i] = out'[i - Len(received)] /\ i - Len(received) = Len(out) + 1
    BY <1>2, <1>4, <2>1
  <2> QED
    BY <1>1, <1>2, <2>1, <2>2
<1> QED
  BY <1>5, <1>6, <1>7

LEMMA DeliveredReceived ==
    ASSUME TypeOK, TypeOK', Receive
    PROVE  DOMAIN Delivered' = DOMAIN Delivered /\ \A i \in DOMAIN Delivered : Delivered'[i] = Delivered[i]
<1>1. /\ out \in Seq({Error} \union Batch) /\ received \in Seq({Error} \union Batch)
      /\ out # <<>> /\ out' = Tail(out) /\ received' = Append(received, Head(out))
  BY DEF Receive, TypeOK
<1>2. /\ Len(out) \in Nat /\ Len(received) \in Nat /\ Len(out) > 0
      /\ Len(out') = Len(out) - 1 /\ Len(received') = Len(received) + 1
      /\ \A k \in 1 .. Len(received) : received'[k] = received[k]
      /\ received'[Len(received) + 1] = out[1]
      /\ \A k \in 1 .. (Len(out) - 1) : out'[k] = out[k + 1]
  BY <1>1
<1>3. /\ DOMAIN Delivered = 1 .. (Len(received) + Len(out))
      /\ \A i \in DOMAIN Delivered : Delivered[i] = IF i <= Len(received) THEN received[i] ELSE out[i - Len(received)]
  BY DeliveredIndex
<1>4. /\ DOMAIN Delivered' = 1 .. (Len(received') + Len(out'))
      /\ \A i \in DOMAIN Delivered' :
             Delivered'[i] = IF i <= Len(received') THEN received'[i] ELSE out'[i - Len(received')]
  BY DeliveredIndexNext
<1>5. DOMAIN Delivered' = DOMAIN Delivered
  BY <1>2, <1>3, <1>4
<1>6. ASSUME NEW i \in DOMAIN Delivered
      PROVE  Delivered'[i] = Delivered[i]
  <2>1. i \in Int /\ i <= Len(received) + Len(out) /\ i > 0
    BY <1>2, <1>3
  <2>2. CASE i <= Len(received)
    BY <1>2, <1>3, <1>4, <1>5, <2>1, <2>2
  <2>3. CASE i = Len(received) + 1
    BY <1>2, <1>3, <1>4, <1>5, <2>1, <2>3
  <2>4. CASE i > Len(received) + 1
    BY <1>2, <1>3, <1>4, <1>5, <2>1, <2>4
  <2> QED
    BY <1>2, <2>1, <2>2, <2>3, <2>4
<1> QED
  BY <1>5, <1>6

LEMMA DeliveredLeft ==
    ASSUME TypeOK, TypeOK', Leave
    PROVE  \A i \in DOMAIN Delivered' : i \in DOMAIN Delivered /\ Delivered'[i] = Delivered[i]
<1>1. out' = <<>> /\ received' = received
  BY DEF Leave
<1>2. /\ DOMAIN Delivered' = 1 .. (Len(received') + Len(out'))
      /\ \A i \in DOMAIN Delivered' :
             Delivered'[i] = IF i <= Len(received') THEN received'[i] ELSE out'[i - Len(received')]
  BY DeliveredIndexNext
<1> QED
  BY <1>1, <1>2, DeliveredIndex
-----------------------------------------------------------------------------
(* Steps that do not move detection sets or batches.                       *)

LEMMA NeutralOrder ==
    ASSUME TypeOK, OrderInv,
           UNCHANGED <<taken, held, batcher>>,
           pop' = pop \/ pop' \notin Batch,
           \A i \in DOMAIN mailbox' : mailbox'[i].op = "push" => i \in DOMAIN mailbox /\ mailbox'[i] = mailbox[i],
           \A i \in DOMAIN Delivered' : i \in DOMAIN Delivered /\ Delivered'[i] = Delivered[i],
           pc' \in {"forward", "forward_batch"} => pc \in {"forward", "forward_batch"}
    PROVE  OrderInv'
<1>1. \A i \in DOMAIN mailbox' : PushAt(i)' => PushAt(i) /\ mailbox'[i] = mailbox[i] /\ i \in DOMAIN mailbox
  BY DEF PushAt
<1>2. QueueOrder'
  BY <1>1 DEF OrderInv, QueueOrder
<1>3. BatcherOrder'
  BY <1>1 DEF OrderInv, BatcherOrder
<1>4. BatcherSets'
  BY DEF OrderInv, BatcherSets
<1>5. \A b : Past(b) => Past(b)'
  BY <1>1 DEF Past
<1>6. \A b \in Emitted' : b \in Batch => b \in Emitted
  BY DEF Emitted
<1>7. EmittedPast'
  BY <1>5, <1>6 DEF OrderInv, EmittedPast, Whole
<1>8. EmittedOrder'
  BY DEF OrderInv, EmittedOrder, After
<1>9. InOrder'
  BY DEF OrderInv, InOrder
<1>10. ForwardSingle'
  BY DEF OrderInv, ForwardSingle
<1> QED
  BY <1>2, <1>3, <1>4, <1>7, <1>8, <1>9, <1>10 DEF OrderInv

LEMMA InitOrder == Init => OrderInv
<1> SUFFICES ASSUME Init PROVE OrderInv
  OBVIOUS
<1>1. mailbox = <<>> /\ held = Nothing /\ pop = Tagged("unsent") /\ Delivered = <<>>
  BY DEF Init, Delivered
<1>2. held \notin Item /\ held \notin Batch /\ pop \notin Batch
  <2>1. \A v \in Batch : v.tag = "batch"
    BY Kinds
  <2> QED
    BY <1>1, <2>1, Kinds
<1>3. \A key \in Keys : batcher[key] = <<>>
  BY DEF Init, EmptyBatcher
<1>4. QueueOrder /\ BatcherOrder /\ BatcherSets
  BY <1>1, <1>2, <1>3 DEF QueueOrder, BatcherOrder, BatcherSets
<1>5. EmittedPast /\ EmittedOrder /\ InOrder
  BY <1>1, <1>2 DEF EmittedPast, EmittedOrder, InOrder, Emitted
<1>6. ForwardSingle
  BY <1>2 DEF Init, ForwardSingle
<1> QED
  BY <1>4, <1>5, <1>6 DEF OrderInv
-----------------------------------------------------------------------------
(* Queued detection sets.                                                  *)

LEMMA ItemParts ==
    ASSUME TypeOK, NEW item \in Item
    PROVE  /\ item.choice \in Choices /\ item.detector \in Detectors /\ item.chunk \in Nat
           /\ StreamOf(item) \in Streams /\ taken[StreamOf(item)] \in Nat
<1>1. item.choice \in Choices /\ item.detector \in Detectors /\ item.chunk \in Nat
  BY DEF Item
<1>2. StreamOf(item) \in Streams
  BY <1>1 DEF StreamOf, Streams
<1> QED
  BY <1>1, <1>2 DEF TypeOK

LEMMA PushParts ==
    ASSUME TypeOK, NEW i \in DOMAIN mailbox, PushAt(i)
    PROVE  mailbox[i].item \in Item
<1>1. mailbox[i] \in Request
  BY DEF TypeOK
<1> QED
  BY <1>1 DEF Request, PushAt

LEMMA BatchParts ==
    ASSUME TypeOK, NEW b \in Batch
    PROVE  /\ b.choice \in Choices /\ b.chunk \in Nat
           /\ \A d \in Detectors : <<b.choice, d>> \in Streams /\ taken[<<b.choice, d>>] \in Nat
<1>1. b.choice \in Choices /\ b.chunk \in Nat
  BY DEF Batch
<1>2. \A d \in Detectors : <<b.choice, d>> \in Streams
  BY <1>1 DEF Streams
<1> QED
  BY <1>1, <1>2 DEF TypeOK

LEMMA KeyStream ==
    ASSUME TypeOK, NEW key \in Keys, NEW k \in DOMAIN batcher[key]
    PROVE  /\ batcher[key][k] \in Detectors /\ key[2] \in Nat
           /\ <<key[1], batcher[key][k]>> \in Streams
           /\ taken[<<key[1], batcher[key][k]>>] \in Nat
<1>1. batcher[key][k] \in Detectors
  BY DEF TypeOK
<1>2. key[1] \in Choices /\ key[2] \in Nat
  BY KeyParts
<1>3. <<key[1], batcher[key][k]>> \in Streams
  BY <1>1, <1>2 DEF Streams
<1> QED
  BY <1>1, <1>2, <1>3 DEF TypeOK

LEMMA StreamPair ==
    ASSUME NEW s \in Streams
    PROVE  s = <<s[1], s[2]>> /\ s[1] \in Choices /\ s[2] \in Detectors
  BY DEF Streams

LEMMA CancelledPushes ==
    ASSUME TypeOK, NEW target, NewSelect(target)
    PROVE  \A i \in DOMAIN mailbox' :
               mailbox'[i].op = "push" => i \in DOMAIN mailbox /\ mailbox'[i] = mailbox[i]
  BY DEF NewSelect, Cancel

\* Reading one more result of a stream only moves its counter up.
LEMMA TakenGrows ==
    ASSUME TypeOK, NEW s \in Streams, taken' = [taken EXCEPT ![s] = @ + 1]
    PROVE  /\ taken[s] \in Nat /\ taken'[s] = taken[s] + 1
           /\ \A t \in Streams : taken[t] \in Nat /\ taken'[t] \in Nat /\ taken[t] <= taken'[t]
  BY DEF TypeOK

\* The task takes a detection set to push, or an error.
LEMMA PollStreamItemOrder ==
    ASSUME TypeOK, OrderInv, NEW s \in Streams, PollStreamItem(s)
    PROVE  OrderInv'
<1>1. /\ taken' = [taken EXCEPT ![s] = @ + 1]
      /\ UNCHANGED <<batcher, out, received>>
      /\ pop' = Tagged("unsent")
      /\ pc' \in {"push", "send_error"}
      /\ held' \in {MkItem(s, taken[s] + 1), Error}
  BY DEF PollStreamItem, NewSelect, actorVars, readerVars
<1>2. \A i \in DOMAIN mailbox' : PushAt(i)' => PushAt(i) /\ mailbox'[i] = mailbox[i] /\ i \in DOMAIN mailbox
  BY CancelledPushes DEF PollStreamItem, PushAt
<1>3. pop' \notin Batch /\ held' \notin Batch
  <2>1. pop'.tag # "batch" /\ held'.tag # "batch"
    BY <1>1 DEF MkItem
  <2> QED
    BY <2>1, Kinds
<1>4. held' \in Item => /\ StreamOf(held') = s /\ held'.choice = s[1] /\ held'.chunk = taken[s] + 1
  <2>1. Error \notin Item
    BY Kinds
  <2> QED
    BY <1>1, <2>1, StreamPair DEF MkItem, StreamOf
<1>5. /\ taken[s] \in Nat /\ taken'[s] = taken[s] + 1
      /\ \A t \in Streams : taken[t] \in Nat /\ taken'[t] \in Nat /\ taken[t] <= taken'[t]
  BY <1>1, TakenGrows
<1>6. QueueOrder'
  <2>1. ASSUME NEW i \in DOMAIN mailbox', PushAt(i)'
        PROVE  /\ mailbox'[i].item.chunk \in Nat
               /\ mailbox'[i].item.chunk <= taken[StreamOf(mailbox'[i].item)]
               /\ mailbox'[i].item.chunk <= taken'[StreamOf(mailbox'[i].item)]
    <3>1. PushAt(i) /\ mailbox'[i] = mailbox[i] /\ i \in DOMAIN mailbox
      BY <1>2, <2>1
    <3>2. /\ mailbox[i].item.chunk \in Nat /\ StreamOf(mailbox[i].item) \in Streams
      BY <3>1, PushParts, ItemParts
    <3>3. mailbox[i].item.chunk <= taken[StreamOf(mailbox[i].item)]
      BY <3>1 DEF OrderInv, QueueOrder
    <3> QED
      BY <1>5, <3>1, <3>2, <3>3
  <2>2. \A i, j \in DOMAIN mailbox' :
          (i < j /\ PushAt(i)' /\ PushAt(j)' /\ StreamOf(mailbox'[i].item) = StreamOf(mailbox'[j].item))
          => mailbox'[i].item.chunk < mailbox'[j].item.chunk
    BY <1>2 DEF OrderInv, QueueOrder
  <2>3. held' \in Item =>
           /\ held'.chunk = taken'[StreamOf(held')]
           /\ \A i \in DOMAIN mailbox' : (PushAt(i)' /\ StreamOf(mailbox'[i].item) = StreamOf(held'))
                  => mailbox'[i].item.chunk < held'.chunk
    BY <1>4, <1>5, <2>1
  <2> QED
    BY <2>1, <2>2, <2>3 DEF QueueOrder
<1>7. BatcherOrder'
  <2> SUFFICES ASSUME NEW key \in Keys, NEW k \in DOMAIN batcher[key]
               PROVE  /\ key[2] <= taken'[<<key[1], batcher[key][k]>>]
                      /\ \A i \in DOMAIN mailbox' :
                            (PushAt(i)' /\ StreamOf(mailbox'[i].item) = <<key[1], batcher[key][k]>>)
                            => key[2] < mailbox'[i].item.chunk
                      /\ (held' \in Item /\ StreamOf(held') = <<key[1], batcher[key][k]>>) => key[2] < held'.chunk
    BY <1>1 DEF BatcherOrder
  <2>1. key[2] <= taken[<<key[1], batcher[key][k]>>] /\ key[2] \in Nat /\ <<key[1], batcher[key][k]>> \in Streams
    BY KeyStream DEF OrderInv, BatcherOrder
  <2>2. \A i \in DOMAIN mailbox' :
            (PushAt(i)' /\ StreamOf(mailbox'[i].item) = <<key[1], batcher[key][k]>>)
            => key[2] < mailbox'[i].item.chunk
    BY <1>2 DEF OrderInv, BatcherOrder
  <2> QED
    BY <1>4, <1>5, <2>1, <2>2
<1>8. BatcherSets'
  BY <1>1 DEF OrderInv, BatcherSets
<1>9. ASSUME NEW b \in Batch, Past(b)
      PROVE  Past(b)'
  <2>1. \A d \in Detectors : b.chunk <= taken'[<<b.choice, d>>]
    BY <1>5, <1>9, BatchParts DEF Past
  <2>2. (held' \in Item /\ held'.choice = b.choice) => b.chunk < held'.chunk
    BY <1>4, <1>5, <1>9, StreamPair, BatchParts DEF Past
  <2> QED
    BY <1>1, <1>2, <1>9, <2>1, <2>2 DEF Past
<1>10. \A b \in Emitted' : b \in Batch => b \in Emitted
  BY <1>1, <1>3 DEF Emitted, Delivered
<1>11. EmittedPast'
  BY <1>9, <1>10 DEF OrderInv, EmittedPast, Whole
<1>12. EmittedOrder' /\ InOrder' /\ ForwardSingle'
  BY <1>1, <1>3 DEF OrderInv, EmittedOrder, InOrder, ForwardSingle, Delivered
<1> QED
  BY <1>6, <1>7, <1>8, <1>11, <1>12 DEF OrderInv

\* The detection set is queued.
LEMMA SendPushOrder ==
    ASSUME TypeOK, OrderInv, SendPush
    PROVE  OrderInv'
<1>1. /\ held \in Item
      /\ mailbox' = Append(mailbox, [op |-> "push", item |-> held])
      /\ held' = Nothing /\ pc' = "poll_stream"
      /\ UNCHANGED <<taken, batcher, pop, out, received>>
  BY DEF SendPush, TypeOK, streamVars, futures, actorVars, readerVars
<1>2. held' \notin Item /\ held' \notin Batch
  BY <1>1, Kinds
<1>3. \A i \in DOMAIN mailbox' : PushAt(i)' =>
          \/ PushAt(i) /\ i \in DOMAIN mailbox /\ mailbox'[i] = mailbox[i]
          \/ mailbox'[i].item = held /\ \A j \in DOMAIN mailbox' : ~(i < j)
  <2>1. \A i \in DOMAIN mailbox' :
            \/ i \in DOMAIN mailbox /\ mailbox'[i] = mailbox[i]
            \/ /\ i \notin DOMAIN mailbox /\ mailbox'[i] = [op |-> "push", item |-> held]
               /\ \A j \in DOMAIN mailbox' : ~(i < j)
    BY <1>1, QueueAppended
  <2> QED
    BY <2>1 DEF PushAt
<1>4. held.chunk = taken[StreamOf(held)] /\ held.chunk \in Nat
  BY <1>1, ItemParts DEF OrderInv, QueueOrder
<1>5. QueueOrder'
  <2>1. ASSUME NEW i \in DOMAIN mailbox', PushAt(i)'
        PROVE  mailbox'[i].item.chunk <= taken[StreamOf(mailbox'[i].item)]
    BY <1>3, <1>4, <2>1 DEF OrderInv, QueueOrder
  <2>2. ASSUME NEW i \in DOMAIN mailbox', NEW j \in DOMAIN mailbox', i < j, PushAt(i)', PushAt(j)',
               StreamOf(mailbox'[i].item) = StreamOf(mailbox'[j].item)
        PROVE  mailbox'[i].item.chunk < mailbox'[j].item.chunk
    <3>1. PushAt(i) /\ i \in DOMAIN mailbox /\ mailbox'[i] = mailbox[i]
      BY <1>3, <2>2
    <3>2. CASE PushAt(j) /\ j \in DOMAIN mailbox /\ mailbox'[j] = mailbox[j]
      BY <2>2, <3>1, <3>2 DEF OrderInv, QueueOrder
    <3>3. CASE mailbox'[j].item = held
      BY <1>1, <2>2, <3>1, <3>3 DEF OrderInv, QueueOrder
    <3> QED
      BY <1>3, <2>2, <3>2, <3>3
  <2> QED
    BY <1>1, <1>2, <2>1, <2>2 DEF QueueOrder
<1>6. BatcherOrder'
  <2> SUFFICES ASSUME NEW key \in Keys, NEW k \in DOMAIN batcher[key]
               PROVE  /\ key[2] <= taken[<<key[1], batcher[key][k]>>]
                      /\ \A i \in DOMAIN mailbox' :
                            (PushAt(i)' /\ StreamOf(mailbox'[i].item) = <<key[1], batcher[key][k]>>)
                            => key[2] < mailbox'[i].item.chunk
    BY <1>1, <1>2 DEF BatcherOrder
  <2>1. /\ key[2] <= taken[<<key[1], batcher[key][k]>>]
        /\ \A i \in DOMAIN mailbox : (PushAt(i) /\ StreamOf(mailbox[i].item) = <<key[1], batcher[key][k]>>)
               => key[2] < mailbox[i].item.chunk
        /\ StreamOf(held) = <<key[1], batcher[key][k]>> => key[2] < held.chunk
    BY <1>1 DEF OrderInv, BatcherOrder
  <2> QED
    BY <1>3, <2>1
<1>7. BatcherSets'
  BY <1>1 DEF OrderInv, BatcherSets
<1>8. \A b : Past(b) => Past(b)'
  BY <1>1, <1>2, <1>3 DEF Past
<1>9. \A b \in Emitted' : b \in Batch => b \in Emitted
  BY <1>1, <1>2 DEF Emitted, Delivered
<1>10. EmittedPast'
  BY <1>8, <1>9 DEF OrderInv, EmittedPast, Whole
<1>11. EmittedOrder' /\ InOrder' /\ ForwardSingle'
  BY <1>1, <1>2 DEF OrderInv, EmittedOrder, InOrder, ForwardSingle, Delivered
<1> QED
  BY <1>5, <1>6, <1>7, <1>10, <1>11 DEF OrderInv
-----------------------------------------------------------------------------
(* Batches.                                                                *)

\* The task takes the batch that pop() returned.
LEMMA PollPopBatchOrder ==
    ASSUME TypeOK, OrderInv, PollPopBatch
    PROVE  OrderInv'
<1>1. /\ pop \in Batch /\ held' = pop /\ pop' = Tagged("unsent") /\ pc' = "send_batch"
      /\ UNCHANGED <<taken, batcher, out, received>>
  BY DEF PollPopBatch, NewSelect, TypeOK, PopFuture, actorVars, readerVars
<1>2. \A i \in DOMAIN mailbox' : PushAt(i)' => PushAt(i) /\ mailbox'[i] = mailbox[i] /\ i \in DOMAIN mailbox
  BY CancelledPushes DEF PollPopBatch, PushAt
<1>3. held' \notin Item /\ pop' \notin Batch
  <2>1. pop'.tag # "batch"
    BY <1>1
  <2> QED
    BY <1>1, <2>1, Kinds
<1>4. QueueOrder' /\ BatcherOrder' /\ BatcherSets'
  BY <1>1, <1>2, <1>3 DEF OrderInv, QueueOrder, BatcherOrder, BatcherSets
<1>5. \A b : Past(b) => Past(b)'
  BY <1>1, <1>2, <1>3 DEF Past
<1>6. \A b \in Emitted' : b \in Batch => b \in Emitted
  BY <1>1, <1>3 DEF Emitted, Delivered
<1>7. EmittedPast'
  BY <1>5, <1>6 DEF OrderInv, EmittedPast, Whole
<1>8. EmittedOrder' /\ InOrder' /\ ForwardSingle'
  BY <1>1, <1>3 DEF OrderInv, EmittedOrder, InOrder, ForwardSingle, Delivered, After
<1> QED
  BY <1>4, <1>7, <1>8 DEF OrderInv

\* The task sends what it holds, a batch or an error.
LEMMA SendResultOrder ==
    ASSUME TypeOK, TypeOK', OrderInv, SendResult
    PROVE  OrderInv'
<1>1. /\ held \in {Error} \union Batch /\ held' = Nothing
      /\ UNCHANGED <<taken, batcher, mailbox, pop, received>>
      /\ pc' \in {"forward", "forward_batch"} => pc \in {"forward", "forward_batch"}
  BY DEF SendResult, AfterSend, TypeOK, futures, actorVars, readerVars
<1>2. held \notin Item /\ held' \notin Item /\ held' \notin Batch
  BY <1>1, Kinds
<1>3. \A i \in DOMAIN Delivered' :
          \/ i \in DOMAIN Delivered /\ Delivered'[i] = Delivered[i]
          \/ Delivered'[i] = held /\ \A j \in DOMAIN Delivered' : j <= i
  <2>1. CASE open
    BY <1>1, <2>1, DeliveredSent DEF SendResult
  <2>2. CASE ~open
    BY <1>1, <2>2 DEF SendResult, Delivered
  <2> QED
    BY <2>1, <2>2
<1>4. QueueOrder' /\ BatcherOrder' /\ BatcherSets'
  BY <1>1, <1>2 DEF OrderInv, QueueOrder, BatcherOrder, BatcherSets, PushAt
<1>5. \A b : Past(b) => Past(b)'
  BY <1>1, <1>2 DEF Past, PushAt
<1>6. \A b \in Emitted' : b \in Batch => b \in Emitted
  BY <1>1, <1>2, <1>3 DEF Emitted
<1>7. EmittedPast'
  BY <1>5, <1>6 DEF OrderInv, EmittedPast, Whole
<1>8. EmittedOrder'
  BY <1>1, <1>2, <1>3 DEF OrderInv, EmittedOrder
<1>9. InOrder'
  <2> SUFFICES ASSUME NEW i \in DOMAIN Delivered', NEW j \in DOMAIN Delivered', i < j,
                      Delivered'[i].tag = "batch", Delivered'[j].tag = "batch",
                      Delivered'[i].choice = Delivered'[j].choice
               PROVE  Delivered'[i].chunk < Delivered'[j].chunk
    BY DEF InOrder
  <2>0. i \in Int /\ j \in Int
    BY DeliveredIndexNext
  <2>1. i \in DOMAIN Delivered /\ Delivered'[i] = Delivered[i] /\ Delivered[i] \in Batch
    <3>1. i \in DOMAIN Delivered /\ Delivered'[i] = Delivered[i]
      BY <1>3, <2>0
    <3>2. Delivered[i] \in {Error} \union Batch
      BY <3>1, DeliveredIndex
    <3> QED
      BY <3>1, <3>2
  <2>2. CASE j \in DOMAIN Delivered /\ Delivered'[j] = Delivered[j]
    BY <2>1, <2>2 DEF OrderInv, InOrder
  <2>3. CASE Delivered'[j] = held
    <3>1. held \in Batch
      BY <1>1, <2>3
    <3> QED
      BY <2>1, <2>3, <3>1 DEF OrderInv, EmittedOrder, After
  <2> QED
    BY <1>3, <2>2, <2>3
<1>10. ForwardSingle'
  BY <1>1 DEF OrderInv, ForwardSingle
<1> QED
  BY <1>4, <1>7, <1>8, <1>9, <1>10 DEF OrderInv

\* A detection set of the only stream becomes a batch by itself.
LEMMA ForwardNextOrder ==
    ASSUME TypeOK, DrainInv, OrderInv, NEW s \in Streams, ForwardNext(s)
    PROVE  OrderInv'
<1>1. /\ taken' = [taken EXCEPT ![s] = @ + 1]
      /\ UNCHANGED <<batcher, mailbox, pop, out, received>>
      /\ pc = "forward" /\ pc' \in {"forward_batch", "send_error"}
      /\ held' \in {MkBatch(<<s[1], taken[s] + 1>>, <<s[2]>>), Error}
  BY DEF ForwardNext, futures, actorVars, readerVars
<1>2. mailbox = <<>> /\ (\A key \in Keys : batcher[key] = <<>>) /\ pop \notin Batch
  BY <1>1 DEF DrainInv, ForwardIdle, IsEmpty, Occupied, OrderInv, ForwardSingle
<1>3. Streams = {s}
  <2>1. IsFiniteSet(Streams)
    BY FS_Product, ChoicesAssumption, DetectorsAssumption DEF Streams
  <2>2. Cardinality(Streams) = 1
    BY <1>1 DEF OrderInv, ForwardSingle
  <2>3. PICK t : Streams = {t}
    BY <2>1, <2>2, FS_Singleton
  <2> QED
    BY <2>3
<1>4. Detectors = {s[2]}
  <2>1. \A d \in Detectors : <<s[1], d>> \in Streams
    BY StreamPair DEF Streams
  <2>2. \A d \in Detectors : <<s[1], d>> = s
    BY <1>3, <2>1
  <2>3. \A d \in Detectors : d = s[2]
    BY <2>2
  <2> QED
    BY <2>3, StreamPair
<1>5. held' \notin Item
  <2>1. held'.tag # "item"
    BY <1>1 DEF MkBatch
  <2> QED
    BY <2>1, Kinds
<1>6. held' \in Batch =>
          held'.choice = s[1] /\ held'.chunk = taken[s] + 1 /\ held'.dets = <<s[2]>>
  <2>1. Error \notin Batch
    BY Kinds
  <2> QED
    BY <1>1, <2>1 DEF MkBatch
<1>7. /\ taken[s] \in Nat /\ taken'[s] = taken[s] + 1
      /\ \A t \in Streams : taken[t] \in Nat /\ taken'[t] \in Nat /\ taken[t] <= taken'[t]
  BY <1>1, TakenGrows
<1>8. QueueOrder' /\ BatcherOrder' /\ BatcherSets'
  BY <1>1, <1>2, <1>5 DEF QueueOrder, BatcherOrder, BatcherSets
<1>9. ASSUME NEW b \in Batch, Past(b)
      PROVE  Past(b)' /\ b.chunk <= taken[<<b.choice, s[2]>>] /\ b.chunk \in Nat
  <2>1. \A d \in Detectors : b.chunk <= taken'[<<b.choice, d>>]
    BY <1>7, <1>9, BatchParts DEF Past
  <2>2. Past(b)'
    BY <1>1, <1>2, <1>5, <2>1 DEF Past
  <2> QED
    BY <1>9, <2>2, StreamPair, BatchParts DEF Past
<1>10. ASSUME NEW b \in Batch, b = held'
       PROVE  Past(b)' /\ Whole(b)
  <2>0. b.choice = s[1] /\ b.chunk = taken[s] + 1 /\ b.dets = <<s[2]>>
    BY <1>6, <1>10
  <2>1. \A d \in Detectors : b.chunk <= taken'[<<b.choice, d>>]
    <3>1. \A d \in Detectors : <<b.choice, d>> = s
      BY <1>4, <2>0, StreamPair
    <3> QED
      BY <1>7, <2>0, <3>1
  <2>2. Past(b)'
    BY <1>1, <1>2, <1>5, <2>1 DEF Past
  <2>3. Cardinality(Detectors) = 1
    BY <1>4, FS_Singleton
  <2>4. Len(b.dets) = 1 /\ 1 \in DOMAIN b.dets /\ b.dets[1] = s[2]
    BY <2>0
  <2> QED
    BY <1>4, <2>2, <2>3, <2>4 DEF Whole
<1>11. \A b \in Emitted' : b \in Batch => b \in Emitted \/ b = held'
  BY <1>1 DEF Emitted, Delivered
<1>12. EmittedPast'
  BY <1>9, <1>10, <1>11 DEF OrderInv, EmittedPast, Whole
<1>13. EmittedOrder'
  <2> SUFFICES ASSUME NEW i \in DOMAIN Delivered, Delivered[i] \in Batch, held' \in Batch
               PROVE  After(held', Delivered[i])
    BY <1>1, <1>2 DEF EmittedOrder, Delivered
  <2>1. Past(Delivered[i])
    BY DEF OrderInv, EmittedPast, Emitted
  <2>2. Delivered[i].chunk <= taken[<<Delivered[i].choice, s[2]>>] /\ Delivered[i].chunk \in Nat
    BY <1>9, <2>1
  <2> QED
    BY <1>6, <1>7, <2>2, StreamPair DEF After
<1>14. InOrder' /\ ForwardSingle'
  BY <1>1 DEF OrderInv, InOrder, ForwardSingle, Delivered
<1> QED
  BY <1>8, <1>12, <1>13, <1>14 DEF OrderInv
-----------------------------------------------------------------------------
(* The actor.                                                              *)

\* Handling a request that is not a push.
LEMMA TailPushes ==
    ASSUME TypeOK, mailbox # <<>>, mailbox' = Tail(mailbox)
    PROVE  /\ \A i \in DOMAIN mailbox' : PushAt(i)' =>
                  i \in Int /\ i > 0 /\ i + 1 \in DOMAIN mailbox /\ PushAt(i + 1) /\ mailbox'[i] = mailbox[i + 1]
           /\ \A i \in DOMAIN mailbox' : i \in Int
           /\ 1 \in DOMAIN mailbox /\ Head(mailbox) = mailbox[1]
<1>1. \A i \in DOMAIN mailbox' : i \in Int
  BY TailType DEF TypeOK
<1> QED
  BY <1>1, QueueTail DEF PushAt

LEMMA TailOrder ==
    ASSUME TypeOK, OrderInv, mailbox # <<>>, mailbox' = Tail(mailbox), UNCHANGED <<taken, held>>
    PROVE  QueueOrder'
<1>1. \A i \in DOMAIN mailbox' : PushAt(i)' =>
          i \in Int /\ i > 0 /\ i + 1 \in DOMAIN mailbox /\ PushAt(i + 1) /\ mailbox'[i] = mailbox[i + 1]
  BY TailPushes
<1>2. \A i \in DOMAIN mailbox' : PushAt(i)' =>
          mailbox'[i].item.chunk <= taken[StreamOf(mailbox'[i].item)]
  BY <1>1 DEF OrderInv, QueueOrder
<1>3. \A i, j \in DOMAIN mailbox' :
          (i < j /\ PushAt(i)' /\ PushAt(j)' /\ StreamOf(mailbox'[i].item) = StreamOf(mailbox'[j].item))
          => mailbox'[i].item.chunk < mailbox'[j].item.chunk
  <2> SUFFICES ASSUME NEW i \in DOMAIN mailbox', NEW j \in DOMAIN mailbox', i < j, PushAt(i)', PushAt(j)',
                      StreamOf(mailbox'[i].item) = StreamOf(mailbox'[j].item)
               PROVE  mailbox'[i].item.chunk < mailbox'[j].item.chunk
    OBVIOUS
  <2>1. i + 1 < j + 1
    BY <1>1
  <2> QED
    BY <1>1, <2>1 DEF OrderInv, QueueOrder
<1>4. held \in Item =>
          /\ held.chunk = taken[StreamOf(held)]
          /\ \A i \in DOMAIN mailbox' : (PushAt(i)' /\ StreamOf(mailbox'[i].item) = StreamOf(held))
                 => mailbox'[i].item.chunk < held.chunk
  BY <1>1 DEF OrderInv, QueueOrder
<1> QED
  BY <1>2, <1>3, <1>4 DEF QueueOrder

\* pop(), answered None, and is_empty().
LEMMA HandleOtherOrder ==
    ASSUME TypeOK, OrderInv, HandlePopNone \/ HandleIsEmpty
    PROVE  OrderInv'
<1>1. /\ mailbox # <<>> /\ mailbox' = Tail(mailbox)
      /\ UNCHANGED <<taken, held, pc, batcher, out, received>>
      /\ pop' \in {pop, Tagged("none")}
  BY DEF HandlePopNone, HandleIsEmpty, taskVars, futures, actorVars, readerVars
<1>2. pop' = pop \/ pop' \notin Batch
  BY <1>1, Kinds
<1>3. \A i \in DOMAIN mailbox' : PushAt(i)' =>
          i + 1 \in DOMAIN mailbox /\ PushAt(i + 1) /\ mailbox'[i] = mailbox[i + 1]
  BY <1>1, TailPushes
<1>4. QueueOrder'
  BY <1>1, TailOrder
<1>5. BatcherOrder' /\ BatcherSets'
  BY <1>1, <1>3 DEF OrderInv, BatcherOrder, BatcherSets
<1>6. \A b : Past(b) => Past(b)'
  BY <1>1, <1>3 DEF Past
<1>7. \A b \in Emitted' : b \in Batch => b \in Emitted
  BY <1>1, <1>2 DEF Emitted, Delivered
<1>8. EmittedPast'
  BY <1>6, <1>7 DEF OrderInv, EmittedPast, Whole
<1>9. EmittedOrder' /\ InOrder' /\ ForwardSingle'
  BY <1>1, <1>2 DEF OrderInv, EmittedOrder, InOrder, ForwardSingle, Delivered
<1> QED
  BY <1>4, <1>5, <1>8, <1>9 DEF OrderInv

\* Either batcher files the detections of a chunk under that chunk.
LEMMA KeyOfPair ==
    ASSUME NEW c \in Choices, NEW n
    PROVE  KeyOf(c, n) = <<c, n>>
  BY BatcherKindAssumption DEF KeyOf, CompletionKey, MaxProcessedIndexKey

\* push(): one more detection set in the batcher.
LEMMA HandlePushOrder ==
    ASSUME TypeOK, OrderInv, HandlePush
    PROVE  OrderInv'
<1> DEFINE item == mailbox[1].item
           new == <<item.choice, item.chunk>>
<1>1. /\ mailbox # <<>> /\ mailbox' = Tail(mailbox)
      /\ UNCHANGED <<taken, held, pc, pop, out, received>>
  BY DEF HandlePush, taskVars, futures, readerVars
<1>2. 1 \in DOMAIN mailbox /\ PushAt(1) /\ Head(mailbox) = mailbox[1]
  BY <1>1, TailPushes DEF HandlePush, PushAt
<1>3. item \in Item
  BY <1>2, PushParts
<1>4. /\ item.choice \in Choices /\ item.detector \in Detectors /\ item.chunk \in Nat
      /\ StreamOf(item) = <<item.choice, item.detector>>
  BY <1>3, ItemParts DEF StreamOf
<1>5. \A i \in DOMAIN mailbox' : PushAt(i)' =>
          i \in Int /\ i > 0 /\ i + 1 \in DOMAIN mailbox /\ PushAt(i + 1) /\ mailbox'[i] = mailbox[i + 1]
  BY <1>1, TailPushes
<1>6. batcher' = [batcher EXCEPT ![new] = Append(batcher[new], item.detector)]
  BY <1>2, <1>4, KeyOfPair DEF HandlePush, Push
<1>7. item.chunk <= taken[StreamOf(item)]
  BY <1>2 DEF OrderInv, QueueOrder
<1>8. /\ \A i \in DOMAIN mailbox' : (PushAt(i)' /\ StreamOf(mailbox'[i].item) = StreamOf(item))
             => item.chunk < mailbox'[i].item.chunk
      /\ (held \in Item /\ StreamOf(held) = StreamOf(item)) => item.chunk < held.chunk
  <2>1. ASSUME NEW i \in DOMAIN mailbox', PushAt(i)', StreamOf(mailbox'[i].item) = StreamOf(item)
        PROVE  item.chunk < mailbox'[i].item.chunk
    <3>1. /\ i + 1 \in DOMAIN mailbox /\ PushAt(i + 1) /\ mailbox'[i] = mailbox[i + 1]
          /\ 1 < i + 1
      BY <1>5, <2>1
    <3> QED
      BY <1>2, <2>1, <3>1 DEF OrderInv, QueueOrder
  <2>2. (held \in Item /\ StreamOf(held) = StreamOf(item)) => item.chunk < held.chunk
    BY <1>2 DEF OrderInv, QueueOrder
  <2> QED
    BY <2>1, <2>2
<1> HIDE DEF item
<1>9. \A key \in Keys : \A k \in DOMAIN batcher'[key] :
          \/ k \in DOMAIN batcher[key] /\ batcher'[key][k] = batcher[key][k]
          \/ /\ key = new /\ batcher'[key][k] = item.detector
             /\ k \notin DOMAIN batcher[key] /\ k = Len(batcher[key]) + 1
  <2> SUFFICES ASSUME NEW key \in Keys, NEW k \in DOMAIN batcher'[key]
               PROVE  \/ k \in DOMAIN batcher[key] /\ batcher'[key][k] = batcher[key][k]
                      \/ /\ key = new /\ batcher'[key][k] = item.detector
                         /\ k \notin DOMAIN batcher[key] /\ k = Len(batcher[key]) + 1
    OBVIOUS
  <2>1. batcher[key] \in Seq(Detectors) /\ batcher \in [Keys -> Seq(Detectors)]
    BY DEF TypeOK
  <2>2. CASE key = new
    <3>1. batcher'[key] = Append(batcher[key], item.detector)
      BY <1>6, <2>1, <2>2
    <3> QED
      BY <2>1, <2>2, <3>1
  <2>3. CASE key # new
    BY <1>6, <2>1, <2>3
  <2> QED
    BY <2>2, <2>3
<1>10. QueueOrder'
  BY <1>1, TailOrder
<1>11. BatcherOrder'
  <2> SUFFICES ASSUME NEW key \in Keys, NEW k \in DOMAIN batcher'[key]
               PROVE  /\ key[2] <= taken[<<key[1], batcher'[key][k]>>]
                      /\ \A i \in DOMAIN mailbox' :
                            (PushAt(i)' /\ StreamOf(mailbox'[i].item) = <<key[1], batcher'[key][k]>>)
                            => key[2] < mailbox'[i].item.chunk
                      /\ (held \in Item /\ StreamOf(held) = <<key[1], batcher'[key][k]>>) => key[2] < held.chunk
    BY <1>1 DEF BatcherOrder
  <2>1. CASE k \in DOMAIN batcher[key] /\ batcher'[key][k] = batcher[key][k]
    BY <1>5, <2>1 DEF OrderInv, BatcherOrder
  <2>2. CASE key = new /\ batcher'[key][k] = item.detector
    <3>1. <<key[1], batcher'[key][k]>> = StreamOf(item) /\ key[2] = item.chunk
      BY <1>4, <2>2
    <3> QED
      BY <1>7, <1>8, <3>1
  <2> QED
    BY <1>9, <2>1, <2>2
<1>12. BatcherSets'
  <2> SUFFICES ASSUME NEW key \in Keys, NEW k \in DOMAIN batcher'[key], NEW l \in DOMAIN batcher'[key],
                      batcher'[key][k] = batcher'[key][l]
               PROVE  k = l
    BY DEF BatcherSets
  <2>1. \A m \in DOMAIN batcher[key] : key = new => batcher[key][m] # item.detector
    <3> SUFFICES ASSUME NEW m \in DOMAIN batcher[key], key = new, batcher[key][m] = item.detector
                 PROVE  FALSE
      OBVIOUS
    <3>1. StreamOf(mailbox[1].item) = <<key[1], batcher[key][m]>> /\ key[2] = item.chunk
      BY <1>4 DEF item
    <3>2. key[2] < mailbox[1].item.chunk
      BY <1>2, <3>1 DEF OrderInv, BatcherOrder
    <3> QED
      BY <1>4, <3>1, <3>2 DEF item
  <2>2. CASE k \in DOMAIN batcher[key] /\ l \in DOMAIN batcher[key]
    BY <1>9, <2>2 DEF OrderInv, BatcherSets
  <2>3. CASE ~(k \in DOMAIN batcher[key] /\ l \in DOMAIN batcher[key])
    BY <1>9, <2>1, <2>3
  <2> QED
    BY <2>2, <2>3
<1>13. ASSUME NEW b \in Batch, Past(b)
       PROVE  Past(b)'
  <2>1. item.choice = b.choice => b.chunk < item.chunk
    BY <1>2, <1>13 DEF Past, item
  <2>2. b.chunk \in Nat
    BY BatchParts
  <2>3. ASSUME NEW key \in Keys, key[1] = b.choice, key[2] <= b.chunk
        PROVE  batcher'[key] = <<>>
    <3>1. key # new
      <4>1. key = new => key[1] = item.choice /\ key[2] = item.chunk
        OBVIOUS
      <4> QED
        BY <1>4, <2>1, <2>2, <2>3, <4>1
    <3>2. batcher'[key] = batcher[key]
      BY <1>6, <3>1 DEF TypeOK
    <3> QED
      BY <1>13, <2>3, <3>2 DEF Past
  <2> QED
    BY <1>1, <1>5, <1>13, <2>3 DEF Past
<1>14. Emitted' = Emitted
  BY <1>1 DEF Emitted, Delivered
<1>15. EmittedPast'
  BY <1>13, <1>14 DEF OrderInv, EmittedPast, Whole
<1>16. EmittedOrder' /\ InOrder' /\ ForwardSingle'
  BY <1>1 DEF OrderInv, EmittedOrder, InOrder, ForwardSingle, Delivered
<1> QED
  BY <1>10, <1>11, <1>12, <1>15, <1>16 DEF OrderInv

\* As many sets as detectors, none of them twice: a set of every detector.
LEMMA EveryDetector ==
    ASSUME NEW dets \in Seq(Detectors), Len(dets) = Cardinality(Detectors),
           \A k, l \in DOMAIN dets : dets[k] = dets[l] => k = l,
           NEW d \in Detectors
    PROVE  \E k \in DOMAIN dets : dets[k] = d
<1> SUFFICES ASSUME \A k \in DOMAIN dets : dets[k] # d PROVE FALSE
  OBVIOUS
<1> DEFINE S == 1 .. Len(dets)
           T == Detectors \ {d}
<1>1. Len(dets) \in Nat /\ DOMAIN dets = S /\ dets \in [S -> T]
  OBVIOUS
<1>2. IsFiniteSet(S) /\ (Len(dets) > 0 => Cardinality(S) = Len(dets))
  BY <1>1, FS_Interval
<1>3. IsFiniteSet(T) /\ Cardinality(T) = Cardinality(Detectors) - 1
  BY DetectorsAssumption, FS_RemoveElement
<1>4. Len(dets) > 0
  <2>1. Cardinality(Detectors) # 0
    BY DetectorsAssumption, FS_EmptySet
  <2> QED
    BY <1>1, <2>1
<1>5. Cardinality(T) < Cardinality(S)
  BY <1>1, <1>2, <1>3, <1>4
<1> HIDE DEF S, T
<1>6. \E x, y \in S : x # y /\ dets[x] = dets[y]
  BY <1>1, <1>2, <1>3, <1>5, FS_PigeonHole
<1> QED
  BY <1>1, <1>6

\* The chunks of a choice before the first key of the batcher have no entry.
LEMMA EarlierEmpty ==
    ASSUME NEW key \in Keys, IsFirstKey(batcher, key),
           NEW other \in Keys, other[1] = key[1], other[2] < key[2]
    PROVE  batcher[other] = <<>>
<1>1. /\ key[1] \in Choices /\ key[2] \in 1 .. NumChunks[key[1]]
      /\ other[2] \in 1 .. NumChunks[key[1]] /\ key[2] \in Nat
  BY KeyParts
<1>2. /\ ChunkRank[key[1]][other[2]] < ChunkRank[key[1]][key[2]]
      /\ ChunkRank[key[1]][other[2]] \in Nat /\ ChunkRank[key[1]][key[2]] \in Nat
  BY <1>1, ChunkRankAssumption
<1>3. ~KeyBefore(key, other)
  BY <1>2 DEF KeyBefore, ChunkBefore, SameChunkPlace
<1>4. other # key
  BY <1>1
<1> QED
  BY <1>3, <1>4 DEF IsFirstKey, Occupied

\* pop(): the first entry leaves the batcher as a batch.
LEMMA HandlePopBatchOrder ==
    ASSUME TypeOK, DrainInv, OrderInv, NEW key \in Keys, HandlePopBatch(key)
    PROVE  OrderInv'
<1> DEFINE new == MkBatch(key, batcher[key])
<1>1. /\ mailbox # <<>> /\ mailbox' = Tail(mailbox)
      /\ UNCHANGED <<taken, held, pc, out, received>>
      /\ batcher' = [batcher EXCEPT ![key] = <<>>]
      /\ pop' \in {pop, new}
      /\ IsFirstKey(batcher, key) /\ Len(batcher[key]) = Cardinality(Detectors)
  BY DEF HandlePopBatch, Remove, CanPop, taskVars, readerVars
<1>2. batcher[key] \in Seq(Detectors) /\ batcher \in [Keys -> Seq(Detectors)]
  BY DEF TypeOK
<1>3. key[1] \in Choices /\ key[2] \in Nat
  BY KeyParts
<1>4. /\ new \in Batch
      /\ new.choice = key[1] /\ new.chunk = key[2] /\ new.dets = batcher[key]
  BY <1>2, <1>3, MkBatchType DEF MkBatch
<1> HIDE DEF new
<1>5. \A d \in Detectors : \E k \in DOMAIN batcher[key] : batcher[key][k] = d
  BY <1>1, <1>2, EveryDetector DEF OrderInv, BatcherSets
<1>6. \A i \in DOMAIN mailbox' : PushAt(i)' =>
          i + 1 \in DOMAIN mailbox /\ PushAt(i + 1) /\ mailbox'[i] = mailbox[i + 1]
  BY <1>1, TailPushes
<1>7. \A other \in Keys : batcher'[other] = IF other = key THEN <<>> ELSE batcher[other]
  BY <1>1, <1>2
<1>8. QueueOrder'
  BY <1>1, TailOrder
<1>9. BatcherOrder'
  <2> SUFFICES ASSUME NEW other \in Keys, NEW k \in DOMAIN batcher'[other]
               PROVE  /\ other[2] <= taken[<<other[1], batcher'[other][k]>>]
                      /\ \A i \in DOMAIN mailbox' :
                            (PushAt(i)' /\ StreamOf(mailbox'[i].item) = <<other[1], batcher'[other][k]>>)
                            => other[2] < mailbox'[i].item.chunk
                      /\ (held \in Item /\ StreamOf(held) = <<other[1], batcher'[other][k]>>)
                            => other[2] < held.chunk
    BY <1>1 DEF BatcherOrder
  <2>1. batcher'[other] = batcher[other]
    BY <1>7
  <2> QED
    BY <1>6, <2>1 DEF OrderInv, BatcherOrder
<1>10. BatcherSets'
  BY <1>7 DEF OrderInv, BatcherSets
<1>11. ASSUME NEW b, Past(b)
       PROVE  Past(b)'
  BY <1>1, <1>6, <1>7, <1>11 DEF Past
<1>12. ASSUME NEW b, b = new
       PROVE  Past(b)' /\ Whole(b)
  <2>1. b.choice = key[1] /\ b.chunk = key[2] /\ b.dets = batcher[key]
    BY <1>4, <1>12
  <2>2. \A d \in Detectors : b.chunk <= taken[<<b.choice, d>>]
    BY <1>5, <2>1 DEF OrderInv, BatcherOrder
  <2>3. ASSUME NEW i \in DOMAIN mailbox', PushAt(i)', mailbox'[i].item.choice = b.choice
        PROVE  b.chunk < mailbox'[i].item.chunk
    <3>1. i + 1 \in DOMAIN mailbox /\ PushAt(i + 1) /\ mailbox'[i] = mailbox[i + 1]
      BY <1>6, <2>3
    <3>2. mailbox[i + 1].item.detector \in Detectors
      BY <3>1, PushParts, ItemParts
    <3>3. PICK k \in DOMAIN batcher[key] : batcher[key][k] = mailbox[i + 1].item.detector
      BY <1>5, <3>2
    <3>4. StreamOf(mailbox[i + 1].item) = <<key[1], batcher[key][k]>>
      BY <2>1, <2>3, <3>1, <3>3 DEF StreamOf
    <3>5. key[2] < mailbox[i + 1].item.chunk
      BY <3>1, <3>4 DEF OrderInv, BatcherOrder
    <3> QED
      BY <2>1, <3>1, <3>5
  <2>4. ASSUME held \in Item, held.choice = b.choice
        PROVE  b.chunk < held.chunk
    <3>1. held.detector \in Detectors
      BY <2>4, ItemParts
    <3>2. PICK k \in DOMAIN batcher[key] : batcher[key][k] = held.detector
      BY <1>5, <3>1
    <3>3. StreamOf(held) = <<key[1], batcher[key][k]>>
      BY <2>1, <2>4, <3>2 DEF StreamOf
    <3> QED
      BY <2>1, <2>4, <3>3 DEF OrderInv, BatcherOrder
  <2>5. ASSUME NEW other \in Keys, other[1] = b.choice, other[2] <= b.chunk
        PROVE  batcher'[other] = <<>>
    <3>1. CASE other = key
      BY <1>7, <3>1
    <3>2. CASE other # key
      <4>1. other[2] # key[2]
        <5>1. other = <<other[1], other[2]>> /\ key = <<key[1], key[2]>>
          BY DEF Keys
        <5> QED
          BY <2>1, <2>5, <3>2, <5>1
      <4>2. other[2] < key[2]
        BY <2>1, <2>5, <4>1, KeyParts
      <4>3. batcher[other] = <<>>
        BY <1>1, <2>1, <2>5, <4>2, EarlierEmpty
      <4> QED
        BY <1>7, <3>2, <4>3
    <3> QED
      BY <3>1, <3>2
  <2>6. Past(b)'
    BY <1>1, <2>2, <2>3, <2>4, <2>5 DEF Past
  <2>7. Whole(b)
    BY <1>1, <1>5, <2>1 DEF Whole
  <2> QED
    BY <2>6, <2>7
<1>13. ASSUME NEW a \in Emitted, a \in Batch
       PROVE  After(new, a)
  <2>1. Past(a)
    BY <1>13 DEF OrderInv, EmittedPast
  <2>2. batcher[key] # <<>>
    BY <1>1 DEF IsFirstKey, Occupied
  <2>3. ~(key[1] = a.choice /\ key[2] <= a.chunk)
    BY <2>1, <2>2 DEF Past
  <2>4. a.chunk \in Nat
    BY <1>13, BatchParts
  <2> QED
    BY <1>3, <1>4, <2>3, <2>4 DEF After
<1>14. Emitted' \subseteq Emitted \union {new}
  BY <1>1 DEF Emitted, Delivered
<1>15. EmittedPast'
  BY <1>11, <1>12, <1>14 DEF OrderInv, EmittedPast, Whole
<1>16. EmittedOrder'
  <2>1. \A i \in DOMAIN Delivered : Delivered[i] \in Emitted
    BY DEF Emitted
  <2>2. held \in Emitted
    BY DEF Emitted
  <2>3. CASE pop' = pop
    BY <1>1, <2>3 DEF OrderInv, EmittedOrder, Delivered
  <2>4. CASE pop' = new
    BY <1>1, <1>13, <2>1, <2>2, <2>4 DEF OrderInv, EmittedOrder, Delivered
  <2> QED
    BY <1>1, <2>3, <2>4
<1>17. InOrder'
  BY <1>1 DEF OrderInv, InOrder, Delivered
<1>18. ForwardSingle'
  BY <1>1 DEF DrainInv, ForwardIdle, ForwardSingle
<1> QED
  BY <1>8, <1>9, <1>10, <1>15, <1>16, <1>17, <1>18 DEF OrderInv
-----------------------------------------------------------------------------
(* Every step.                                                             *)

\* The steps that only move the task or its requests.
LEMMA QuietOrder ==
    ASSUME TypeOK, OrderInv,
           \/ ForwardEnd \/ PollStreamEnd \/ PollStreamPending
           \/ PollPopSend \/ PollPopNone \/ PollPopPending
           \/ PollEmptySend \/ PollEmptyReply \/ PollEmptyPending \/ Wake
    PROVE  OrderInv'
<1> USE DEF taskVars, futures, actorVars, readerVars
<1>1. UNCHANGED <<taken, held, batcher, out, received>>
  BY DEF ForwardEnd, PollStreamEnd, PollStreamPending, PollPopSend, PollPopNone, PollPopPending,
         PollEmptySend, PollEmptyReply, PollEmptyPending, Wake
<1>2. pop' = pop \/ pop'.tag \in {"unsent", "waiting", "disabled"}
  BY DEF ForwardEnd, PollStreamEnd, PollStreamPending, PollPopSend, PollPopNone, PollPopPending,
         PollEmptySend, PollEmptyReply, PollEmptyPending, Wake, NewSelect
<1>3. pop' = pop \/ pop' \notin Batch
  BY <1>2, Kinds
<1>4. pc' \notin {"forward", "forward_batch"} \/ pc' = pc
  BY DEF ForwardEnd, PollStreamEnd, PollStreamPending, PollPopSend, PollPopNone, PollPopPending,
         PollEmptySend, PollEmptyReply, PollEmptyPending, Wake, NewSelect
<1>5. \A i \in DOMAIN mailbox' : mailbox'[i].op = "push" => i \in DOMAIN mailbox /\ mailbox'[i] = mailbox[i]
  <2>1. CASE mailbox' = mailbox
    BY <2>1
  <2>2. CASE \E target : NewSelect(target)
    BY <2>2, CancelledPushes
  <2>3. CASE PollPopSend \/ PollEmptySend
    <3>1. PICK op \in {"pop", "is_empty"} : mailbox' = Append(mailbox, [op |-> op, live |-> TRUE])
      BY <2>3 DEF PollPopSend, PollEmptySend
    <3> QED
      BY <3>1, QueueAppended
  <2> QED
    BY <2>1, <2>2, <2>3
       DEF ForwardEnd, PollStreamEnd, PollStreamPending, PollPopNone, PollPopPending,
           PollEmptyReply, PollEmptyPending, Wake
<1>6. \A i \in DOMAIN Delivered' : i \in DOMAIN Delivered /\ Delivered'[i] = Delivered[i]
  BY <1>1 DEF Delivered
<1> QED
  BY <1>1, <1>3, <1>4, <1>5, <1>6, NeutralOrder

LEMMA TaskOrder ==
    ASSUME TypeOK, TypeOK', DrainInv, OrderInv, Task
    PROVE  OrderInv'
  BY QuietOrder, ForwardNextOrder, PollStreamItemOrder, SendPushOrder, PollPopBatchOrder, SendResultOrder
     DEF Task

\* The detection tasks, the reader and idle steps.
LEMMA OutsideOrder ==
    ASSUME TypeOK, TypeOK', OrderInv, (\E s \in Streams : Detector(s)) \/ Reader \/ UNCHANGED vars
    PROVE  OrderInv'
<1> USE DEF taskVars, futures, actorVars, readerVars
<1>1. UNCHANGED <<taken, held, batcher, pop, pc, mailbox>>
  BY DEF Detector, DetectorSends, DetectorFails, DetectorEnds, Reader, Receive, Leave, vars
<1>2. \A i \in DOMAIN Delivered' : i \in DOMAIN Delivered /\ Delivered'[i] = Delivered[i]
  <2>1. CASE Receive
    BY <2>1, DeliveredReceived
  <2>2. CASE Leave
    BY <2>2, DeliveredLeft
  <2>3. CASE UNCHANGED <<out, received>>
    BY <2>3 DEF Delivered
  <2> QED
    BY <2>1, <2>2, <2>3 DEF Detector, DetectorSends, DetectorFails, DetectorEnds, Reader, vars
<1> QED
  BY <1>1, <1>2, NeutralOrder

LEMMA NextOrder ==
    ASSUME TypeOK, TypeOK', DrainInv, OrderInv, [Next]_vars
    PROVE  OrderInv'
  BY TaskOrder, OutsideOrder, HandlePushOrder, HandlePopBatchOrder, HandleOtherOrder
     DEF Next, Actor, Finished

\* Every reachable state satisfies the inductive invariant.
THEOREM OrderInvariant == Spec => []OrderInv
<1>1. TypeOK /\ TypeOK' /\ DrainInv /\ OrderInv /\ [Next]_vars => OrderInv'
  BY NextOrder
<1>2. TypeOK /\ DrainInv /\ [Next]_vars => DrainInv'
  BY NextDrain
<1> QED
  BY <1>1, <1>2, InitOrder, InitDrain, TypeCorrect, PTL DEF Spec

\* The batches of a choice reach the reader in chunk order and none twice.
THEOREM BatchesInOrder == Spec => []InOrder
<1>1. OrderInv => InOrder
  BY DEF OrderInv
<1> QED
  BY <1>1, OrderInvariant, PTL

\* Every batch the reader gets has exactly one detection set per detector.
THEOREM BatchesWhole == Spec => []OneSetPerDetector
<1>1. TypeOK /\ OrderInv => OneSetPerDetector
  <2> SUFFICES ASSUME TypeOK, OrderInv, NEW i \in DOMAIN Delivered, Delivered[i].tag = "batch"
               PROVE  /\ Len(Delivered[i].dets) = Cardinality(Detectors)
                      /\ \A d \in Detectors : \E k \in DOMAIN Delivered[i].dets : Delivered[i].dets[k] = d
    BY DEF OneSetPerDetector
  <2>1. Delivered[i] \in Batch
    <3>1. Delivered[i] \in {Error} \union Batch
      BY DeliveredIndex
    <3> QED
      BY <3>1
  <2>2. Whole(Delivered[i])
    BY <2>1 DEF OrderInv, EmittedPast, Emitted
  <2> QED
    BY <2>2 DEF Whole
<1> QED
  BY <1>1, OrderInvariant, TypeCorrect, PTL

(***************************************************************************)
(* DetectionBatchStream implements BatchChannel.  Only Receive moves the   *)
(* log, and what it moves is in order and whole because the channel's      *)
(* content is (InOrder, OneSetPerDetector); the other steps can only close *)
(* the stream or have the reader leave it.                                 *)
(***************************************************************************)

HasError == \E i \in DOMAIN received : received[i] = Error

\* A reader that has an error has dropped the stream.
ReaderStops == HasError => ~open

LEMMA ReceivedNext ==
    ASSUME TypeOK, Receive
    PROVE  /\ received' = Append(received, Head(out))
           /\ Len(received) \in Nat
           /\ DOMAIN received = 1 .. Len(received)
           /\ DOMAIN received' = 1 .. (Len(received) + 1)
           /\ \A i \in 1 .. Len(received) : received'[i] = received[i]
           /\ received'[Len(received) + 1] = Head(out)
           /\ Head(out) = out[1] /\ Len(out) > 0
           /\ Head(out) \in {Error} \union Batch
  BY DEF Receive, TypeOK

\* The next result is the element of Delivered after those received.
LEMMA HeadDelivered ==
    ASSUME TypeOK, Receive
    PROVE  /\ Len(received) + 1 \in DOMAIN Delivered
           /\ Delivered[Len(received) + 1] = Head(out)
           /\ \A i \in DOMAIN received : i \in DOMAIN Delivered /\ Delivered[i] = received[i] /\ i < Len(received) + 1
<1>1. /\ Len(received) \in Nat /\ Len(out) \in Nat /\ Len(out) > 0 /\ Head(out) = out[1]
      /\ DOMAIN received = 1 .. Len(received)
      /\ out \in Seq({Error} \union Batch)
  BY ReceivedNext DEF TypeOK
<1>2. /\ DOMAIN Delivered = 1 .. (Len(received) + Len(out))
      /\ \A i \in DOMAIN Delivered : Delivered[i] = IF i <= Len(received) THEN received[i] ELSE out[i - Len(received)]
  BY DeliveredIndex
<1>3. Len(received) + 1 \in DOMAIN Delivered /\ ~(Len(received) + 1 <= Len(received))
      /\ (Len(received) + 1) - Len(received) = 1
  BY <1>1, <1>2
<1>4. ASSUME NEW i \in DOMAIN received
      PROVE  i \in DOMAIN Delivered /\ Delivered[i] = received[i] /\ i < Len(received) + 1
  BY <1>1, <1>2
<1> QED
  BY <1>1, <1>2, <1>3, <1>4

LEMMA InitStops == Init => ReaderStops
  BY DEF Init, ReaderStops, HasError

\* Apart from Receive, no step changes what was received or reopens the stream.
LEMMA OthersKeepLog ==
    ASSUME Next \/ UNCHANGED vars, ~Receive
    PROVE  received' = received /\ (open' = open \/ (open /\ ~open'))
<1> USE DEF readerVars, vars
<1>1. CASE UNCHANGED vars \/ Finished
  BY <1>1 DEF Finished
<1>2. CASE \E s \in Streams : Detector(s)
  BY <1>2 DEF Detector, DetectorSends, DetectorFails, DetectorEnds
<1>3. CASE Task
  BY <1>3 DEF Task, ForwardNext, PollStreamItem, ForwardEnd, PollStreamEnd, PollStreamPending, SendPush,
              PollPopSend, PollPopBatch, PollPopNone, PollPopPending, PollEmptySend, PollEmptyReply,
              PollEmptyPending, Wake, SendResult
<1>4. CASE Actor
  BY <1>4 DEF Actor, HandlePush, HandlePopBatch, HandlePopNone, HandleIsEmpty
<1>5. CASE Reader
  BY <1>5 DEF Reader, Leave
<1> QED
  BY <1>1, <1>2, <1>3, <1>4, <1>5 DEF Next

LEMMA NextStops ==
    ASSUME TypeOK, ReaderStops, [Next]_vars
    PROVE  ReaderStops'
<1>1. CASE Receive
  <2>1. ~HasError
    BY <1>1 DEF ReaderStops, Receive
  <2>2. CASE Head(out) = Error
    BY <1>1, <2>2 DEF Receive, ReaderStops
  <2>3. CASE Head(out) # Error
    <3>1. ASSUME NEW i \in DOMAIN received', received'[i] = Error
          PROVE  FALSE
      <4>1. i \in 1 .. Len(received) \/ i = Len(received) + 1
        BY <1>1, ReceivedNext
      <4> QED
        BY <1>1, <2>1, <2>3, <3>1, <4>1, ReceivedNext DEF HasError
    <3> QED
      BY <3>1 DEF ReaderStops, HasError
  <2> QED
    BY <2>2, <2>3
<1>2. CASE ~Receive
  BY <1>2, OthersKeepLog DEF ReaderStops, HasError
<1> QED
  BY <1>1, <1>2

\* Once the task is done and the channel is empty, both stay so.
LEMMA ClosedForGood ==
    ASSUME Next \/ UNCHANGED vars, pc = "done", out = <<>>
    PROVE  pc' = "done" /\ out' = <<>>
<1> USE DEF taskVars, readerVars, vars
<1>1. CASE UNCHANGED vars \/ Finished
  BY <1>1 DEF Finished
<1>2. CASE \E s \in Streams : Detector(s)
  BY <1>2 DEF Detector, DetectorSends, DetectorFails, DetectorEnds
<1>3. CASE Task
  BY <1>3 DEF Task, ForwardNext, PollStreamItem, ForwardEnd, PollStreamEnd, PollStreamPending, SendPush,
              PollPopSend, PollPopBatch, PollPopNone, PollPopPending, PollEmptySend, PollEmptyReply,
              PollEmptyPending, Wake, SendResult
<1>4. CASE Actor
  BY <1>4 DEF Actor, HandlePush, HandlePopBatch, HandlePopNone, HandleIsEmpty
<1>5. CASE Reader
  BY <1>5 DEF Reader, Receive, Leave
<1> QED
  BY <1>1, <1>2, <1>3, <1>4, <1>5 DEF Next

LEMMA InitChannel == Init => Channel!Init
<1> SUFFICES ASSUME Init PROVE Channel!Init
  OBVIOUS
<1>1. received = <<>> /\ open /\ pc # "done"
  BY DEF Init
<1>2. Status = "open"
  BY <1>1 DEF Status
<1> QED
  BY <1>1, <1>2 DEF Channel!Init

\* A batch is received.
LEMMA DeliverStep ==
    ASSUME TypeOK, InOrder, OneSetPerDetector, ReaderStops, Receive, Head(out) # Error
    PROVE  Channel!Next
<1>1. open /\ ~HasError /\ open'
  BY DEF Receive, ReaderStops
<1>2. Head(out) \in Batch /\ Head(out).tag = "batch"
  BY ReceivedNext, Kinds
<1>3. ~HasError'
  <2> SUFFICES ASSUME NEW i \in DOMAIN received', received'[i] = Error PROVE FALSE
    BY DEF HasError
  <2>1. i \in 1 .. Len(received) \/ i = Len(received) + 1
    BY ReceivedNext
  <2> QED
    BY <1>1, <2>1, ReceivedNext DEF HasError
<1>4. Status = "open" /\ Status' \in {"open", "closed"}
  <2>1. out # <<>>
    BY DEF Receive
  <2> QED
    BY <1>1, <1>3, <2>1 DEF Status, HasError
<1>5. \A i \in DOMAIN received :
          (received[i].tag = "batch" /\ received[i].choice = Head(out).choice) => received[i].chunk < Head(out).chunk
  BY <1>2, HeadDelivered DEF InOrder
<1>6. Channel!OneOfEach(Head(out).dets)
  BY <1>2, HeadDelivered DEF OneSetPerDetector, Channel!OneOfEach
<1>7. Head(out) \in Channel!Batch
  BY <1>2 DEF Batch, Channel!Batch
<1>8. Channel!Deliver(Head(out))
  BY <1>4, <1>5, <1>6, <1>7, ReceivedNext DEF Channel!Deliver
<1>9. Len(received) + 1 \in DOMAIN received' /\ received'[Len(received) + 1] = Head(out)
  BY ReceivedNext
<1> QED
  BY <1>8, <1>9 DEF Channel!Next

\* An error is received.
LEMMA FailStep ==
    ASSUME TypeOK, ReaderStops, Receive, Head(out) = Error
    PROVE  Channel!Next
<1>1. open /\ ~HasError /\ out # <<>>
  BY DEF Receive, ReaderStops
<1>2. Status = "open"
  BY <1>1 DEF Status, HasError
<1>3. HasError'
  <2>1. Len(received) + 1 \in DOMAIN received' /\ received'[Len(received) + 1] = Error
    BY ReceivedNext
  <2> QED
    BY <2>1, Zenon DEF HasError
<1>4. Status' = "failed"
  BY <1>3 DEF Status, HasError
<1>5. received' = Append(received, [tag |-> "error"])
  BY ReceivedNext DEF Error, Tagged
<1>6. Channel!Fail
  BY <1>2, <1>4, <1>5 DEF Channel!Fail
<1> QED
  BY <1>6 DEF Channel!Next

\* Every other step leaves the log alone; it may close the stream or leave it.
LEMMA QuietStep ==
    ASSUME Next \/ UNCHANGED vars, ~Receive, ReaderStops
    PROVE  Channel!Next \/ UNCHANGED <<received, Status>>
<1>1. received' = received /\ (open' = open \/ (open /\ ~open'))
  BY OthersKeepLog
<1>2. HasError' = HasError
  BY <1>1 DEF HasError
<1>3. CASE HasError
  BY <1>1, <1>2, <1>3 DEF Status, HasError
<1>4. CASE ~HasError /\ ~open
  BY <1>1, <1>2, <1>4 DEF Status, HasError
<1>5. CASE ~HasError /\ open /\ ~open'
  <2>1. Status \in {"open", "closed"} /\ Status' = "left"
    BY <1>1, <1>5 DEF Status, HasError
  <2> QED
    BY <1>1, <2>1 DEF Channel!Next, Channel!Leave
<1>6. CASE ~HasError /\ open /\ open' /\ pc = "done" /\ out = <<>>
  BY <1>1, <1>6, ClosedForGood DEF Status, HasError
<1>7. CASE ~HasError /\ open /\ open' /\ ~(pc = "done" /\ out = <<>>)
  <2>1. Status = "open" /\ Status' \in {"open", "closed"}
    BY <1>1, <1>7 DEF Status, HasError
  <2> QED
    BY <1>1, <2>1 DEF Channel!Next, Channel!Close
<1> QED
  BY <1>1, <1>3, <1>4, <1>5, <1>6, <1>7

\* The task, the actor and their channels implement the promise that the
\* handlers rely on: ordered, whole batches, then an error or the end.
THEOREM BatchStreamRefines == Spec => ImplementsBatchChannel
<1>1. TypeOK /\ ReaderStops /\ [Next]_vars => ReaderStops'
  BY NextStops
<1>2. TypeOK /\ InOrder /\ OneSetPerDetector /\ ReaderStops /\ [Next]_vars
          => [Channel!Next]_(Channel!channelVars)
  BY DeliverStep, FailStep, QuietStep DEF Channel!channelVars
<1> QED
  BY <1>1, <1>2, InitStops, InitChannel, TypeCorrect, BatchesInOrder, BatchesWhole, PTL
     DEF Spec, ImplementsBatchChannel, Channel!Spec

(***************************************************************************)
(* A single detection stream: the branch of new() that forwards it.        *)
(***************************************************************************)

Carries(value, choice, n) == value.tag = "batch" /\ value.choice = choice /\ value.chunk = n

\* Only the forwarding branch runs, and no stream ends before its last chunk.
Forwarding ==
    /\ pc \in {"forward", "forward_batch", "send_error", "done"}
    /\ \A s \in ended : sent[s] = NumChunks[s[1]]

\* A result is accounted for: it was an error, it is what the task is about to
\* send, or it is in the batch channel or beyond it.
Passed(s, n) ==
    \/ n \in failed[s]
    \/ Carries(held, s[1], n)
    \/ \E i \in DOMAIN Delivered : Carries(Delivered[i], s[1], n)

\* While the reader stays, this is so of every result read.
Forwarded == open => \A s \in Streams : \A n \in 1 .. taken[s] : Passed(s, n)

LEMMA InitForward ==
    ASSUME Init, Cardinality(Streams) = 1
    PROVE  Forwarding /\ Forwarded
  BY DEF Init, Forwarding, Forwarded

LEMMA NextForwarding ==
    ASSUME TypeOK, Forwarding, ~MayEndShort, [Next]_vars
    PROVE  Forwarding'
<1>1. ASSUME NEW s \in Streams, DetectorSends(s) \/ DetectorFails(s)
      PROVE  Forwarding'
  <2>1. s \notin ended /\ sent' = [sent EXCEPT ![s] = @ + 1] /\ pc' = pc /\ ended' = ended
    BY <1>1 DEF DetectorSends, DetectorFails, CanSend, taskVars
  <2> QED
    BY <2>1 DEF Forwarding, TypeOK
<1>2. ASSUME NEW s \in Streams, DetectorEnds(s)
      PROVE  Forwarding'
  BY <1>2 DEF DetectorEnds, Forwarding, taskVars
<1>3. CASE Task
  BY <1>3 DEF Task, ForwardNext, ForwardEnd, SendResult, AfterSend, Forwarding, streamVars,
              PollStreamItem, PollStreamEnd, PollStreamPending, SendPush, PollPopSend,
              PollPopBatch, PollPopNone, PollPopPending, PollEmptySend, PollEmptyReply,
              PollEmptyPending, Wake
<1>4. CASE Actor \/ Reader \/ UNCHANGED vars
  BY <1>4 DEF Actor, Reader, HandlePush, HandlePopBatch, HandlePopNone, HandleIsEmpty, Receive,
              Leave, taskVars, streamVars, vars, Forwarding
<1> QED
  BY <1>1, <1>2, <1>3, <1>4 DEF Next, Detector, Finished

LEMMA NextForwarded ==
    ASSUME TypeOK, TypeOK', Forwarding, Forwarded, [Next]_vars
    PROVE  Forwarded'
<1> SUFFICES ASSUME open', NEW s \in Streams, NEW n \in 1 .. taken'[s]
             PROVE  Passed(s, n)'
  BY DEF Forwarded
<1>1. n \in Nat /\ n >= 1 /\ taken[s] \in Nat /\ open
  <2>1. taken'[s] \in Nat /\ taken[s] \in Nat
    BY DEF TypeOK
  <2>2. open
    BY DEF Next, Detector, DetectorSends, DetectorFails, DetectorEnds, Task, ForwardNext,
           ForwardEnd, SendResult, PollStreamItem, PollStreamEnd, PollStreamPending, SendPush,
           PollPopSend, PollPopBatch, PollPopNone, PollPopPending, PollEmptySend, PollEmptyReply,
           PollEmptyPending, Wake, Actor, HandlePush, HandlePopBatch, HandlePopNone,
           HandleIsEmpty, Reader, Receive, Leave, Finished, readerVars, vars
  <2> QED
    BY <2>1, <2>2
<1>2. CASE received' = received /\ out' = out /\ held' = held /\ taken' = taken
  <2>1. failed[s] \subseteq failed'[s]
    BY DEF Next, Detector, DetectorSends, DetectorFails, DetectorEnds, Task, ForwardNext,
           ForwardEnd, SendResult, PollStreamItem, PollStreamEnd, PollStreamPending, SendPush,
           PollPopSend, PollPopBatch, PollPopNone, PollPopPending, PollEmptySend, PollEmptyReply,
           PollEmptyPending, Wake, Actor, HandlePush, HandlePopBatch, HandlePopNone,
           HandleIsEmpty, Reader, Receive, Leave, Finished, streamVars, vars, TypeOK
  <2>2. Delivered' = Delivered
    BY <1>2 DEF Delivered
  <2> QED
    BY <1>1, <1>2, <2>1, <2>2 DEF Passed, Forwarded
<1>3. ASSUME NEW t \in Streams, ForwardNext(t)
      PROVE  Passed(s, n)'
  <2>1. /\ pc = "forward" /\ taken' = [taken EXCEPT ![t] = @ + 1]
        /\ failed' = failed /\ Delivered' = Delivered
        /\ \/ held' = MkBatch(<<t[1], taken[t] + 1>>, <<t[2]>>)
           \/ taken[t] + 1 \in failed[t]
    BY <1>3 DEF ForwardNext, streamVars, readerVars, Delivered
  <2>2. ~Carries(held, s[1], n)
    <3>1. held \notin Item \union Batch
      BY <2>1 DEF TypeOK
    <3>2. held = Nothing \/ held = Error
      BY <3>1 DEF TypeOK
    <3> QED
      BY <3>2 DEF Carries, Tagged, Error, Nothing
  <2>3. CASE n \in 1 .. taken[s]
    <3>1. Passed(s, n)
      BY <1>1, <2>3 DEF Forwarded
    <3> QED
      BY <2>1, <2>2, <3>1 DEF Passed
  <2>4. CASE n \notin 1 .. taken[s]
    <3>1. s = t /\ n = taken[t] + 1
      BY <1>1, <2>1, <2>4 DEF TypeOK
    <3>2. CASE held' = MkBatch(<<t[1], taken[t] + 1>>, <<t[2]>>)
      BY <3>1, <3>2 DEF MkBatch, Carries, Passed
    <3> QED
      BY <2>1, <3>1, <3>2 DEF Passed
  <2> QED
    BY <2>3, <2>4
<1>4. CASE SendResult
  <2>1. /\ held' = Nothing /\ taken' = taken /\ failed' = failed /\ received' = received
        /\ out' = Append(out, held) /\ held \in {Error} \union Batch
    <3>1. held \in {Error} \union Batch
      BY <1>4 DEF SendResult, TypeOK
    <3> QED
      BY <1>1, <1>4, <3>1 DEF SendResult, streamVars, readerVars
  <2>2. Passed(s, n)
    BY <1>1, <2>1 DEF Forwarded
  <2>3. /\ \A i \in DOMAIN Delivered : i \in DOMAIN Delivered' /\ Delivered'[i] = Delivered[i]
        /\ \E i \in DOMAIN Delivered' : Delivered'[i] = held
    <3>1. /\ received \in Seq({Error} \union Batch) /\ out \in Seq({Error} \union Batch)
      BY DEF TypeOK
    <3>2. Len(out') = Len(out) + 1 /\ out'[Len(out) + 1] = held /\ \A i \in 1 .. Len(out) : out'[i] = out[i]
      BY <2>1, <3>1
    <3>3. Len(received) \in Nat /\ Len(out) \in Nat
      BY <3>1
    <3>4. /\ DOMAIN Delivered' = 1 .. (Len(received) + Len(out) + 1)
          /\ \A i \in DOMAIN Delivered' : Delivered'[i] = IF i <= Len(received) THEN received[i] ELSE out'[i - Len(received)]
      BY <2>1, <3>2, <3>3, DeliveredIndexNext
    <3>5. /\ DOMAIN Delivered = 1 .. (Len(received) + Len(out))
          /\ \A i \in DOMAIN Delivered : Delivered[i] = IF i <= Len(received) THEN received[i] ELSE out[i - Len(received)]
      BY DeliveredIndex
    <3>6. Len(received) + Len(out) + 1 \in DOMAIN Delivered' /\ Delivered'[Len(received) + Len(out) + 1] = held
      BY <3>2, <3>3, <3>4
    <3>7. ASSUME NEW i \in DOMAIN Delivered
          PROVE  i \in DOMAIN Delivered' /\ Delivered'[i] = Delivered[i]
      <4>1. i \in 1 .. (Len(received) + Len(out)) /\ i \in DOMAIN Delivered'
        BY <3>3, <3>4, <3>5
      <4>2. ~(i <= Len(received)) => i - Len(received) \in 1 .. Len(out)
        BY <3>3, <4>1
      <4> QED
        BY <3>2, <3>4, <3>5, <4>1, <4>2
    <3> QED
      BY <3>6, <3>7
  <2> QED
    BY <2>1, <2>2, <2>3 DEF Passed
<1>5. CASE Receive
  <2>1. held' = held /\ taken' = taken /\ failed' = failed
    BY <1>5 DEF Receive, taskVars, streamVars
  <2>2. Passed(s, n)
    BY <1>1, <2>1 DEF Forwarded
  <2>3. DOMAIN Delivered' = DOMAIN Delivered /\ \A i \in DOMAIN Delivered : Delivered'[i] = Delivered[i]
    BY <1>5, DeliveredReceived
  <2> QED
    BY <2>1, <2>2, <2>3 DEF Passed
<1> QED
  BY <1>2, <1>3, <1>4, <1>5
     DEF Next, Detector, DetectorSends, DetectorFails, DetectorEnds, Task,
         ForwardEnd, PollStreamItem, PollStreamEnd, PollStreamPending, SendPush,
         PollPopSend, PollPopBatch, PollPopNone, PollPopPending, PollEmptySend, PollEmptyReply,
         PollEmptyPending, Wake, Actor, HandlePush, HandlePopBatch, HandlePopNone,
         HandleIsEmpty, Reader, Leave, Finished, readerVars, taskVars, vars, Forwarding

LEMMA ForwardedAll ==
    ASSUME TypeOK, Forwarded, Forwarding, ClosedMeansDrained
    PROVE  EveryChunkDelivered
<1> SUFFICES ASSUME pc = "done", ~ErrorRead, open, NEW key \in Keys
             PROVE  \E i \in DOMAIN Delivered : Carries(Delivered[i], key[1], key[2])
  BY DEF EveryChunkDelivered, Carries
<1>1. PICK d : d \in Detectors
  BY DetectorsAssumption
<1>2. PICK s : s = <<key[1], d>>
  OBVIOUS
<1>3. s \in Streams /\ s[1] = key[1] /\ key[2] \in 1 .. NumChunks[s[1]]
  BY <1>1, <1>2, KeyParts DEF Streams
<1>4. s \in ended /\ taken[s] = sent[s] /\ sent[s] = NumChunks[s[1]]
  BY <1>3 DEF ClosedMeansDrained, AllEnded, Forwarding
<1>5. Passed(s, key[2])
  BY <1>3, <1>4 DEF Forwarded
<1>6. key[2] \notin failed[s]
  <2>1. key[2] <= taken[s]
    BY <1>3, <1>4, NumChunksAssumption DEF Streams
  <2> QED
    BY <1>3, <2>1 DEF ErrorRead
<1>7. ~Carries(held, s[1], key[2])
  <2>1. held = Nothing \/ held = Error
    BY DEF TypeOK
  <2> QED
    BY <2>1 DEF Carries, Tagged, Error, Nothing
<1> QED
  BY <1>3, <1>5, <1>6, <1>7 DEF Passed

\* With a single detection stream, which is forwarded without the batcher, a reader
\* that stays until the stream ends without an error has got a batch for every chunk.
\* (With more streams a batch may be lost: the run batch_loss.)
THEOREM SingleStreamDelivered ==
    ASSUME Cardinality(Streams) = 1, ~MayEndShort
    PROVE  Spec => []EveryChunkDelivered
<1>1. Init => Forwarding /\ Forwarded
  BY InitForward
<1>2. TypeOK /\ TypeOK' /\ Forwarding /\ Forwarded /\ [Next]_vars => Forwarding' /\ Forwarded'
  BY NextForwarding, NextForwarded
<1>3. TypeOK /\ Forwarded /\ Forwarding /\ ClosedMeansDrained => EveryChunkDelivered
  BY ForwardedAll
<1> QED
  BY <1>1, <1>2, <1>3, TypeCorrect, EndsDrained, PTL DEF Spec
=============================================================================

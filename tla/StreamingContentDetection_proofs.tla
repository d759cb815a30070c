------------------- MODULE StreamingContentDetection_proofs -------------------
(***************************************************************************)
(* No detection task misses a chunk, and a stream that closes without an   *)
(* error is complete, for any number of detectors and messages and every   *)
(* capacity of the channels.                                               *)
(***************************************************************************)
EXTENDS StreamingContentDetection, FiniteSetTheorems, TLAPS

Item == {Error} \cup {Chunk(n) : n \in Nat}

Types ==
    /\ start \in [Detectors -> {-1} \cup Nat] /\ pos \in [Detectors -> Nat] /\ dets \in [Detectors -> Seq(Item)]
    /\ msgs \in Seq({"text", "error"}) /\ forwarded \in Nat /\ got \in Nat /\ batched \in Nat
    /\ bcast \in Seq(Item) /\ responses \in Seq(Item)
    /\ inputDone \in BOOLEAN /\ lost \in BOOLEAN

Late == hpc \in {"running", "done"}

\* Until all tasks are spawned nothing is read from the client, and only errors
\* are broadcast.
Early ==
    /\ hpc \in {"peek", "validate", "open", "refused", "running", "done"}
    /\ ~Late => /\ msgs = <<>> /\ forwarded = 0 /\ got = 0 /\ batched = 0 /\ ~lost
                /\ hpc # "refused" => responses = <<>>
                /\ \A i \in 1 .. Len(bcast) : bcast[i] = Error

\* Tasks subscribe to the ring of the last chunk stream opened, before they run.
Subscribed ==
    /\ \A d \in Detectors : start[d] >= 0 => opened = Cardinality(Detectors) /\ start[d] <= Len(bcast)
    /\ Late => \A d \in Detectors : start[d] >= 0

\* The chunks in order, and at most one error, at the end.
Broadcast ==
    /\ chunker \in {"open", "deaf", "closed", "failed"}
    /\ chunker # "failed" => \A i \in 1 .. Len(bcast) : bcast[i] = Chunk(i)
    /\ chunker = "failed" => /\ Len(bcast) > 0 /\ bcast[Len(bcast)] = Error
                             /\ \A i \in 1 .. Len(bcast) - 1 : bcast[i] = Chunk(i)

\* The chunker gets past text only, and closes after all of it.
Reading ==
    /\ got <= forwarded /\ forwarded <= Len(msgs)
    /\ \A i \in 1 .. got : msgs[i] = "text"
    /\ chunker = "closed" => inputDone /\ got = Len(msgs) /\ Len(bcast) = got

\* A task has answered what it has passed since it subscribed, and ends at the end
\* unless it lags.
Detected ==
    \A d \in Detectors :
        /\ start[d] = -1 => dets[d] = <<>> /\ d \notin ended
        /\ start[d] >= 0 =>
             /\ start[d] <= pos[d] /\ pos[d] <= Len(bcast) /\ Len(dets[d]) = pos[d] - start[d]
             /\ \A i \in 1 .. Len(dets[d]) : dets[d][i] \in {bcast[start[d] + i], Error}
        /\ d \in ended \ lagged => chunker \in {"closed", "failed"} /\ pos[d] = Len(bcast)

Batched ==
    /\ \A n \in 1 .. batched : \A d \in Detectors : Answered(d, n)
    /\ hpc = "running" /\ ~lost => Len(responses) = batched

Inv ==
    /\ Types /\ Early /\ Subscribed /\ Broadcast /\ Reading /\ Detected /\ Batched
    /\ NoChunkMissed /\ CompleteOrError
-----------------------------------------------------------------------------
(* Values.                                                                 *)

LEMMA Items ==
    /\ Error \in Item /\ \A n \in Nat : Chunk(n) \in Item /\ Chunk(n) # Error
    /\ \A m, n \in Nat : Chunk(m) = Chunk(n) => m = n
<1>1. Error.tag = "error" /\ \A n : Chunk(n).tag = "chunk" /\ Chunk(n).n = n
  BY DEF Error, Chunk
<1>2. Error \in Item /\ \A n \in Nat : Chunk(n) \in Item
  BY DEF Item
<1> QED
  BY <1>1, <1>2

LEMMA Appended ==
    ASSUME NEW S, NEW s \in Seq(S), NEW e \in S
    PROVE  /\ Append(s, e) \in Seq(S) /\ Len(s) \in Nat /\ Len(Append(s, e)) = Len(s) + 1
           /\ Append(s, e)[Len(s) + 1] = e
           /\ \A i \in 1 .. Len(s) : Append(s, e)[i] = s[i]
  OBVIOUS

LEMMA Lengths ==
    ASSUME Types
    PROVE  /\ Len(msgs) \in Nat /\ Len(bcast) \in Nat /\ Len(responses) \in Nat
           /\ \A d \in Detectors : Len(dets[d]) \in Nat /\ DOMAIN dets[d] = 1 .. Len(dets[d])
           /\ DOMAIN responses = 1 .. Len(responses) /\ DOMAIN msgs = 1 .. Len(msgs)
  BY DEF Types

\* All that was read was text.
LEMMA TextsRead == ASSUME Inv PROVE Texts = got
<1>1. {i \in 1 .. got : msgs[i] = "text"} = 1 .. got
  BY DEF Inv, Reading
<1>2. Cardinality(1 .. got) = got
  <2>1. got \in Int /\ 1 \in Int
    BY DEF Inv, Types
  <2>2. Cardinality(1 .. got) = IF 1 > got THEN 0 ELSE got - 1 + 1
    BY <2>1, FS_Interval
  <2> QED
    BY <2>2 DEF Inv, Types
<1> QED
  BY <1>1, <1>2 DEF Texts

\* Chunks that every task has answered.
LEMMA BatchedKept ==
    ASSUME Batched, Types, UNCHANGED batched, hpc' = hpc, UNCHANGED <<lost, responses>>,
           \A d \in Detectors : \A i \in DOMAIN dets[d] : i \in DOMAIN dets'[d] /\ dets'[d][i] = dets[d][i]
    PROVE  Batched'
  BY DEF Batched, Answered

LEMMA CompleteKept ==
    ASSUME Inv, hpc' = hpc, UNCHANGED <<start, responses, lost>>, lagged \subseteq lagged',
           hpc # "done" \/ UNCHANGED <<msgs, inputDone>>
    PROVE  CompleteOrError'
  BY DEF Inv, CompleteOrError, ErrorMissed
-----------------------------------------------------------------------------
(* The handler.                                                            *)

LEMMA PeekStep == ASSUME Inv, ExtractDetectors \/ Validate PROVE Inv'
<1>1. /\ hpc \in {"peek", "validate"}
      /\ \/ hpc' \in {"validate", "open"} /\ responses' = responses
         \/ hpc' = "refused" /\ responses' = Append(responses, Error)
      /\ UNCHANGED <<opened, start, msgs, inputDone, forwarded, got, chunker, bcast, pos, dets, ended, lagged, batched, lost>>
  BY DEF ExtractDetectors, Validate, Refuse, inputVars, chunkVars, detectVars
<1>2. responses' \in Seq(Item)
  <2>1. responses \in Seq(Item) /\ Append(responses, Error) \in Seq(Item)
    BY Items, Appended DEF Inv, Types
  <2> QED
    BY <1>1, <2>1
<1>3. Types'
  BY <1>1, <1>2 DEF Inv, Types
<1>4. Early' /\ Subscribed'
  BY <1>1 DEF Inv, Early, Subscribed, Late
<1>5. Broadcast' /\ Reading' /\ Detected' /\ NoChunkMissed'
  BY <1>1 DEF Inv, Broadcast, Reading, Detected, NoChunkMissed
<1>6. Batched' /\ CompleteOrError'
  BY <1>1 DEF Inv, Batched, CompleteOrError, Answered
<1> QED
  BY <1>3, <1>4, <1>5, <1>6 DEF Inv

LEMMA OpenStep == ASSUME Inv, OpenChunkStream PROVE Inv'
<1>1. /\ hpc = "open" /\ \A d \in Detectors : start[d] = -1
      /\ UNCHANGED <<start, msgs, inputDone, forwarded, got, pos, dets, ended, lagged, batched, lost>>
  <2>1. /\ hpc = "open" /\ opened < Cardinality(Detectors)
        /\ UNCHANGED <<start, msgs, inputDone, forwarded, got, pos, dets, ended, lagged, batched, lost>>
    BY DEF OpenChunkStream, inputVars, detectVars
  <2>2. Cardinality(Detectors) \in Nat
    BY PipelineAssumption, FS_CardinalityType
  <2>3. opened # Cardinality(Detectors)
    BY <2>1, <2>2
  <2> QED
    BY <2>1, <2>3 DEF Inv, Subscribed, Types
<1>2. CASE opened' = opened + 1 /\ chunker' = "open" /\ bcast' = <<>> /\ UNCHANGED <<hpc, responses>>
  <2>1. Len(bcast') = 0 /\ bcast' \in Seq(Item)
    BY <1>2
  <2>2. Types' /\ Early' /\ Subscribed'
    BY <1>1, <1>2, <2>1 DEF Inv, Types, Early, Subscribed, Late
  <2>3. Broadcast' /\ Reading' /\ Detected' /\ NoChunkMissed'
    BY <1>1, <1>2, <2>1 DEF Inv, Broadcast, Reading, Detected, NoChunkMissed
  <2>4. Batched' /\ CompleteOrError'
    BY <1>1, <1>2 DEF Inv, Batched, CompleteOrError, Answered
  <2> QED
    BY <2>2, <2>3, <2>4 DEF Inv
<1>3. CASE hpc' = "refused" /\ responses' = Append(responses, Error) /\ UNCHANGED <<opened, chunker, bcast>>
  <2>1. responses' \in Seq(Item)
    BY <1>3, Items DEF Inv, Types
  <2>2. Types' /\ Early' /\ Subscribed'
    BY <1>1, <1>3, <2>1 DEF Inv, Types, Early, Subscribed, Late
  <2>3. Broadcast' /\ Reading' /\ Detected' /\ NoChunkMissed'
    BY <1>1, <1>3 DEF Inv, Broadcast, Reading, Detected, NoChunkMissed
  <2>4. Batched' /\ CompleteOrError'
    BY <1>1, <1>3 DEF Inv, Batched, CompleteOrError, Answered
  <2> QED
    BY <2>2, <2>3, <2>4 DEF Inv
<1> QED
  BY <1>2, <1>3 DEF OpenChunkStream, Refuse

LEMMA SubscribeStep == ASSUME Inv, NEW d \in Detectors, Subscribe(d) PROVE Inv'
<1>1. /\ hpc = "open" /\ opened = Cardinality(Detectors) /\ start[d] = -1
      /\ start' = [start EXCEPT ![d] = Len(bcast)] /\ pos' = [pos EXCEPT ![d] = Len(bcast)]
      /\ UNCHANGED <<hpc, opened, msgs, inputDone, forwarded, got, chunker, bcast, dets, ended, lagged, batched, lost, responses>>
  BY DEF Subscribe, inputVars, chunkVars, answerVars
<1>2. Len(bcast) \in Nat
  BY Lengths DEF Inv
<1>3. Types'
  BY <1>1, <1>2 DEF Inv, Types
<1>4. /\ start'[d] = Len(bcast) /\ pos'[d] = Len(bcast)
      /\ \A e \in Detectors \ {d} : start'[e] = start[e] /\ pos'[e] = pos[e]
  BY <1>1 DEF Inv, Types
<1>5. Early' /\ Subscribed'
  BY <1>1, <1>2, <1>4 DEF Inv, Early, Subscribed, Late
<1>6. Broadcast' /\ Reading' /\ Batched' /\ CompleteOrError'
  BY <1>1 DEF Inv, Broadcast, Reading, Batched, CompleteOrError, Answered
<1>7. Detected'
  <2> SUFFICES ASSUME NEW e \in Detectors PROVE
        /\ start'[e] = -1 => dets[e] = <<>> /\ e \notin ended
        /\ start'[e] >= 0 =>
             /\ start'[e] <= pos'[e] /\ pos'[e] <= Len(bcast) /\ Len(dets[e]) = pos'[e] - start'[e]
             /\ \A i \in 1 .. Len(dets[e]) : dets[e][i] \in {bcast[start'[e] + i], Error}
        /\ e \in ended \ lagged => chunker \in {"closed", "failed"} /\ pos'[e] = Len(bcast)
    BY <1>1 DEF Detected
  <2>1. CASE e = d
    <3>1. dets[d] = <<>> /\ d \notin ended /\ Len(dets[d]) = 0
      BY <1>1 DEF Inv, Detected
    <3> QED
      BY <1>2, <1>4, <2>1, <3>1
  <2>2. CASE e # d
    BY <1>4, <2>2 DEF Inv, Detected
  <2> QED
    BY <2>1, <2>2
<1>8. NoChunkMissed'
  <2>1. \A i \in 1 .. Len(bcast) : bcast[i] = Error
    BY <1>1 DEF Inv, Early, Late
  <2> QED
    BY <1>1, <1>4, <2>1 DEF Inv, NoChunkMissed
<1> QED
  BY <1>3, <1>5, <1>6, <1>7, <1>8 DEF Inv

LEMMA SpawnStep == ASSUME Inv, SpawnTasks PROVE Inv'
<1>1. /\ hpc = "open" /\ hpc' = "running" /\ \A d \in Detectors : start[d] >= 0
      /\ UNCHANGED <<opened, start, msgs, inputDone, forwarded, got, chunker, bcast, pos, dets, ended, lagged, batched, lost, responses>>
  BY DEF SpawnTasks, inputVars, chunkVars, detectVars, answerVars
<1>2. Types' /\ Early' /\ Subscribed'
  BY <1>1 DEF Inv, Types, Early, Subscribed, Late
<1>3. Broadcast' /\ Reading' /\ Detected' /\ NoChunkMissed' /\ CompleteOrError'
  BY <1>1 DEF Inv, Broadcast, Reading, Detected, NoChunkMissed, CompleteOrError
<1>4. Batched'
  <2>1. batched = 0 /\ Len(responses) = 0
    BY <1>1 DEF Inv, Early, Late
  <2> QED
    BY <1>1, <2>1 DEF Batched
<1> QED
  BY <1>2, <1>3, <1>4 DEF Inv
-----------------------------------------------------------------------------
(* Input.                                                                  *)

LEMMA InputStep == ASSUME Inv, Input PROVE Inv'
<1>1. /\ UNCHANGED <<hpc, opened, start, got, chunker, bcast, pos, dets, ended, lagged, batched, lost, responses>>
      /\ \/ hpc = "running" /\ ~inputDone /\ UNCHANGED <<inputDone, forwarded>>
            /\ \E kind \in {"text", "error"} : msgs' = Append(msgs, kind)
         \/ hpc = "running" /\ inputDone' = TRUE /\ UNCHANGED <<msgs, forwarded>>
         \/ forwarded < Len(msgs) /\ forwarded' = forwarded + 1 /\ UNCHANGED <<msgs, inputDone>>
  BY DEF Input, InputNext, InputEnd, InputForward, Feeds, setupVars, chunkVars, detectVars, answerVars
<1>2. /\ msgs' \in Seq({"text", "error"}) /\ Len(msgs) \in Nat /\ Len(msgs') \in Nat /\ Len(msgs') >= Len(msgs)
      /\ \A i \in 1 .. Len(msgs) : msgs'[i] = msgs[i]
      /\ forwarded' \in Nat /\ inputDone' \in BOOLEAN
  <2>1. msgs \in Seq({"text", "error"}) /\ forwarded \in Nat /\ inputDone \in BOOLEAN
    BY DEF Inv, Types
  <2>2. forwarded' \in Nat /\ inputDone' \in BOOLEAN
    <3>1. forwarded' = forwarded \/ forwarded' = forwarded + 1
      BY <1>1
    <3>2. inputDone' = inputDone \/ inputDone' = TRUE
      BY <1>1, Zenon
    <3>3. inputDone' \in BOOLEAN
      BY <2>1, <3>2, Zenon
    <3> QED
      BY <2>1, <3>1, <3>3
  <2>3. CASE msgs' = msgs
    BY <2>1, <2>2, <2>3
  <2>4. CASE \E kind \in {"text", "error"} : msgs' = Append(msgs, kind)
    <3>1. PICK kind \in {"text", "error"} : msgs' = Append(msgs, kind)
      BY <2>4
    <3>2. /\ msgs' \in Seq({"text", "error"}) /\ Len(msgs) \in Nat /\ Len(msgs') = Len(msgs) + 1
          /\ \A i \in 1 .. Len(msgs) : msgs'[i] = msgs[i]
      BY <2>1, <3>1, Appended
    <3> QED
      BY <2>2, <3>2
  <2> QED
    BY <1>1, <2>3, <2>4
<1>3. Types'
  BY <1>1, <1>2 DEF Inv, Types
<1>4. Early'
  <2>1. ~Late => forwarded' = forwarded /\ msgs' = msgs
    <3>1. ~Late => Len(msgs) = 0 /\ forwarded = 0
      BY DEF Inv, Early
    <3> QED
      BY <1>1, <3>1 DEF Late
  <2> QED
    BY <1>1, <2>1 DEF Inv, Early, Late
<1>5. Subscribed' /\ Broadcast' /\ Detected' /\ NoChunkMissed' /\ Batched'
  BY <1>1 DEF Inv, Subscribed, Late, Broadcast, Detected, NoChunkMissed, Batched, Answered
<1>6. Reading'
  <2>1. got \in Nat /\ forwarded \in Nat /\ got <= forwarded /\ forwarded <= Len(msgs)
    BY DEF Inv, Types, Reading
  <2>2. got' <= forwarded' /\ forwarded' <= Len(msgs')
    BY <1>1, <1>2, <2>1
  <2>3. \A i \in 1 .. got' : msgs'[i] = "text"
    BY <1>1, <1>2, <2>1 DEF Inv, Reading
  <2>4. chunker' = "closed" => inputDone' /\ got' = Len(msgs') /\ Len(bcast') = got'
    BY <1>1 DEF Inv, Reading
  <2> QED
    BY <2>2, <2>3, <2>4 DEF Reading
<1>7. CompleteOrError'
  BY <1>1, CompleteKept
<1> QED
  BY <1>3, <1>4, <1>5, <1>6, <1>7 DEF Inv
-----------------------------------------------------------------------------
(* The chunker.                                                            *)

\* One more result in the ring.
LEMMA BroadcastMore ==
    ASSUME Inv, NEW e \in Item, chunker \in {"open", "deaf"}, bcast' = Append(bcast, e),
           \/ chunker' = "failed" /\ e = Error
           \/ chunker' = chunker /\ e = Chunk(Len(bcast) + 1) /\ Late,
           UNCHANGED <<hpc, opened, start, msgs, inputDone, forwarded, got, pos, dets, ended, lagged, batched, lost, responses>>
    PROVE  Inv'
<1>1. /\ bcast' \in Seq(Item) /\ Len(bcast) \in Nat /\ Len(bcast') = Len(bcast) + 1
      /\ bcast'[Len(bcast) + 1] = e /\ \A i \in 1 .. Len(bcast) : bcast'[i] = bcast[i]
  BY Appended DEF Inv, Types
<1>2. Types'
  BY <1>1 DEF Inv, Types
<1>3. Early'
  <2>1. ASSUME ~Late, NEW i \in 1 .. Len(bcast') PROVE bcast'[i] = Error
    <3>1. CASE i = Len(bcast) + 1
      BY <1>1, <2>1, <3>1
    <3>2. CASE i \in 1 .. Len(bcast)
      BY <1>1, <2>1, <3>2 DEF Inv, Early
    <3> QED
      BY <1>1, <3>1, <3>2
  <2> QED
    BY <2>1 DEF Inv, Early, Late
<1>4. Subscribed'
  <2>1. ASSUME NEW d \in Detectors, start[d] >= 0 PROVE start[d] <= Len(bcast')
    <3>1. start[d] \in {-1} \cup Nat
      BY DEF Inv, Types
    <3>2. start[d] <= Len(bcast)
      BY <2>1 DEF Inv, Subscribed
    <3> QED
      BY <1>1, <3>1, <3>2
  <2> QED
    BY <2>1 DEF Inv, Subscribed, Late
<1>5. Broadcast'
  <2>1. \A i \in 1 .. Len(bcast) : bcast'[i] = Chunk(i)
    BY <1>1 DEF Inv, Broadcast
  <2>2. CASE chunker' = "failed" /\ e = Error
    <3>1. Len(bcast') > 0 /\ bcast'[Len(bcast')] = Error /\ 1 .. Len(bcast') - 1 = 1 .. Len(bcast)
      BY <1>1, <2>2
    <3> QED
      BY <2>1, <2>2, <3>1 DEF Broadcast
  <2>3. CASE chunker' = chunker /\ e = Chunk(Len(bcast) + 1)
    <3>1. ASSUME NEW i \in 1 .. Len(bcast') PROVE bcast'[i] = Chunk(i)
      <4>1. CASE i = Len(bcast) + 1
        BY <1>1, <2>3, <4>1
      <4>2. CASE i \in 1 .. Len(bcast)
        BY <2>1, <4>2
      <4> QED
        BY <1>1, <4>1, <4>2
    <3> QED
      BY <2>3, <3>1 DEF Broadcast
  <2> QED
    BY <2>2, <2>3
<1>6. Reading'
  BY DEF Inv, Reading
<1>7. Detected'
  <2> SUFFICES ASSUME NEW d \in Detectors PROVE
        /\ start[d] = -1 => dets[d] = <<>> /\ d \notin ended
        /\ start[d] >= 0 =>
             /\ start[d] <= pos[d] /\ pos[d] <= Len(bcast') /\ Len(dets[d]) = pos[d] - start[d]
             /\ \A i \in 1 .. Len(dets[d]) : dets[d][i] \in {bcast'[start[d] + i], Error}
        /\ d \notin ended \ lagged
    BY DEF Detected
  <2>1. start[d] \in {-1} \cup Nat /\ pos[d] \in Nat /\ Len(dets[d]) \in Nat
    BY Lengths DEF Inv, Types
  <2>2. d \notin ended \ lagged /\ (start[d] = -1 => dets[d] = <<>> /\ d \notin ended)
    BY DEF Inv, Detected
  <2>3. ASSUME start[d] >= 0
        PROVE  /\ start[d] <= pos[d] /\ pos[d] <= Len(bcast') /\ Len(dets[d]) = pos[d] - start[d]
               /\ \A i \in 1 .. Len(dets[d]) : dets[d][i] \in {bcast'[start[d] + i], Error}
    <3>1. /\ start[d] <= pos[d] /\ pos[d] <= Len(bcast) /\ Len(dets[d]) = pos[d] - start[d]
          /\ \A i \in 1 .. Len(dets[d]) : dets[d][i] \in {bcast[start[d] + i], Error}
      BY <2>3 DEF Inv, Detected
    <3>2. \A i \in 1 .. Len(dets[d]) : start[d] + i \in 1 .. Len(bcast)
      BY <1>1, <2>1, <2>3, <3>1
    <3> QED
      BY <1>1, <2>1, <3>1, <3>2
  <2> QED
    BY <2>2, <2>3
<1>8. NoChunkMissed'
  <2>1. ASSUME NEW d \in Detectors, NEW i \in 1 .. start[d] PROVE i \in 1 .. Len(bcast)
    <3>1. start[d] \in {-1} \cup Nat
      BY DEF Inv, Types
    <3>2. start[d] >= 0
      BY <3>1
    <3>3. start[d] <= Len(bcast)
      BY <3>2 DEF Inv, Subscribed
    <3> QED
      BY <1>1, <3>1, <3>3
  <2> QED
    BY <1>1, <2>1 DEF Inv, NoChunkMissed
<1>9. Batched' /\ CompleteOrError'
  BY CompleteKept DEF Inv, Batched, Answered
<1> QED
  BY <1>2, <1>3, <1>4, <1>5, <1>6, <1>7, <1>8, <1>9 DEF Inv

LEMMA BreaksStep == ASSUME Inv, ChunkerFails PROVE Inv'
<1>1. /\ chunker \in {"open", "deaf"} /\ chunker' = "failed" /\ bcast' = Append(bcast, Error)
      /\ UNCHANGED <<hpc, opened, start, msgs, inputDone, forwarded, got, pos, dets, ended, lagged, batched, lost, responses>>
  BY DEF ChunkerFails, setupVars, inputVars, detectVars, answerVars
<1> QED
  BY <1>1, Items, BroadcastMore

LEMMA DeafStep == ASSUME Inv, ChunkerReads, chunker' = "deaf" PROVE Inv'
<1>1. /\ chunker = "open" /\ got' = got
      /\ UNCHANGED <<hpc, opened, start, msgs, inputDone, forwarded, bcast, pos, dets, ended, lagged, batched, lost, responses>>
  <2>1. chunker' # chunker
    BY DEF ChunkerReads
  <2> QED
    BY <2>1 DEF ChunkerReads, setupVars, inputVars, detectVars, answerVars
<1>2. Types' /\ Early' /\ Subscribed' /\ NoChunkMissed' /\ Batched' /\ CompleteOrError'
  BY <1>1, CompleteKept DEF Inv, Types, Early, Subscribed, Late, NoChunkMissed, Batched, Answered
<1>3. Broadcast' /\ Reading' /\ Detected'
  BY <1>1 DEF Inv, Broadcast, Reading, Detected
<1> QED
  BY <1>2, <1>3 DEF Inv

LEMMA ReadsStep == ASSUME Inv, ChunkerReads, chunker' # "deaf" PROVE Inv'
<1>1. /\ chunker = "open" /\ got < forwarded /\ msgs[got + 1] # "error" /\ got' = got + 1
      /\ UNCHANGED <<hpc, opened, start, msgs, inputDone, forwarded, chunker, bcast, pos, dets, ended, lagged, batched, lost, responses>>
  BY DEF ChunkerReads, Unwraps, setupVars, inputVars, detectVars, answerVars
<1>2. /\ msgs \in Seq({"text", "error"}) /\ Len(msgs) \in Nat /\ forwarded \in Nat /\ got \in Nat
      /\ forwarded <= Len(msgs)
  BY DEF Inv, Types, Reading
<1>3. msgs[got + 1] = "text"
  <2>1. got + 1 \in 1 .. Len(msgs)
    BY <1>1, <1>2
  <2>2. msgs[got + 1] \in {"text", "error"}
    BY <1>2, <2>1
  <2> QED
    BY <1>1, <2>2
<1>4. Types'
  BY <1>1, <1>2 DEF Inv, Types
<1>5. Early'
  <2>1. Late
    BY <1>1, <1>2 DEF Inv, Early
  <2> QED
    BY <1>1, <2>1 DEF Inv, Early, Late
<1>6. Subscribed' /\ Broadcast' /\ Detected' /\ NoChunkMissed' /\ Batched' /\ CompleteOrError'
  BY <1>1, CompleteKept DEF Inv, Subscribed, Late, Broadcast, Detected, NoChunkMissed, Batched, Answered
<1>7. Reading'
  <2>1. \A i \in 1 .. got + 1 : msgs[i] = "text"
    BY <1>2, <1>3 DEF Inv, Reading
  <2> QED
    BY <1>1, <1>2, <2>1 DEF Inv, Reading
<1> QED
  BY <1>4, <1>5, <1>6, <1>7 DEF Inv

LEMMA EmitsStep == ASSUME Inv, ChunkerEmits PROVE Inv'
<1>1. /\ chunker \in {"open", "deaf"} /\ chunker' = chunker /\ Len(bcast) < Texts /\ bcast' = Append(bcast, Chunk(Len(bcast) + 1))
      /\ UNCHANGED <<hpc, opened, start, msgs, inputDone, forwarded, got, pos, dets, ended, lagged, batched, lost, responses>>
  BY DEF ChunkerEmits, setupVars, inputVars, detectVars, answerVars
<1>2. Len(bcast) \in Nat /\ Chunk(Len(bcast) + 1) \in Item
  BY Lengths, Items DEF Inv
<1>3. Late
  BY <1>1, <1>2, TextsRead DEF Inv, Early
<1> QED
  BY <1>1, <1>2, <1>3, BroadcastMore

LEMMA ClosesStep == ASSUME Inv, ChunkerCloses PROVE Inv'
<1>1. /\ chunker = "open" /\ chunker' = "closed" /\ inputDone /\ got = Len(msgs) /\ Len(bcast) = Texts
      /\ UNCHANGED <<hpc, opened, start, msgs, inputDone, forwarded, got, bcast, pos, dets, ended, lagged, batched, lost, responses>>
  BY DEF ChunkerCloses, setupVars, inputVars, detectVars, answerVars
<1>2. Types' /\ Early' /\ Subscribed' /\ NoChunkMissed' /\ Batched' /\ CompleteOrError'
  BY <1>1, CompleteKept DEF Inv, Types, Early, Subscribed, Late, NoChunkMissed, Batched, Answered
<1>3. Broadcast' /\ Detected'
  BY <1>1 DEF Inv, Broadcast, Detected
<1>4. Reading'
  BY <1>1, TextsRead DEF Inv, Reading
<1> QED
  BY <1>2, <1>3, <1>4 DEF Inv
-----------------------------------------------------------------------------
(* The detection tasks.                                                    *)

LEMMA DetectStep == ASSUME Inv, NEW d \in Detectors, Detect(d) PROVE Inv'
<1>1. /\ start[d] >= 0 /\ d \notin ended /\ pos[d] < Len(bcast)
      /\ pos' = [pos EXCEPT ![d] = pos[d] + 1]
      /\ \E e \in {bcast[pos[d] + 1], Error} : dets' = [dets EXCEPT ![d] = Append(dets[d], e)]
      /\ UNCHANGED <<hpc, opened, start, msgs, inputDone, forwarded, got, chunker, bcast, ended, lagged, batched, lost, responses>>
  BY DEF Detect, Running, setupVars, inputVars, chunkVars, answerVars
<1>2. PICK e \in {bcast[pos[d] + 1], Error} : dets' = [dets EXCEPT ![d] = Append(dets[d], e)]
  BY <1>1
<1>3. /\ pos \in [Detectors -> Nat] /\ dets \in [Detectors -> Seq(Item)] /\ bcast \in Seq(Item) /\ Len(bcast) \in Nat
      /\ start[d] \in {-1} \cup Nat /\ pos[d] \in Nat /\ dets[d] \in Seq(Item)
  BY DEF Inv, Types
<1>4. e \in Item
  <2>1. pos[d] + 1 \in 1 .. Len(bcast)
    BY <1>1, <1>3
  <2>2. bcast[pos[d] + 1] \in Item
    BY <1>3, <2>1
  <2> QED
    BY <2>2, Items
<1>5. /\ dets'[d] \in Seq(Item) /\ Len(dets[d]) \in Nat /\ Len(dets'[d]) = Len(dets[d]) + 1
      /\ dets'[d][Len(dets[d]) + 1] = e
      /\ \A i \in 1 .. Len(dets[d]) : dets'[d][i] = dets[d][i]
  <2>1. dets'[d] = Append(dets[d], e)
    BY <1>2, <1>3
  <2> QED
    BY <1>3, <1>4, <2>1, Appended
<1>6. /\ pos'[d] = pos[d] + 1
      /\ \A f \in Detectors \ {d} : pos'[f] = pos[f] /\ dets'[f] = dets[f]
      /\ pos' \in [Detectors -> Nat] /\ dets' \in [Detectors -> Seq(Item)]
  <2>1. pos'[d] = pos[d] + 1 /\ \A f \in Detectors \ {d} : pos'[f] = pos[f] /\ dets'[f] = dets[f]
    BY <1>1, <1>2, <1>3
  <2>2. pos' \in [Detectors -> Nat]
    BY <1>1, <1>3
  <2>3. dets' \in [Detectors -> Seq(Item)]
    <3>1. Append(dets[d], e) \in Seq(Item)
      BY <1>3, <1>4, Appended
    <3> QED
      BY <1>2, <1>3, <3>1
  <2> QED
    BY <2>1, <2>2, <2>3
<1>7. Types'
  BY <1>1, <1>6 DEF Inv, Types
<1>8. Early' /\ Subscribed' /\ Broadcast' /\ Reading' /\ NoChunkMissed'
  BY <1>1 DEF Inv, Early, Subscribed, Late, Broadcast, Reading, NoChunkMissed
<1>9. Detected'
  <2> SUFFICES ASSUME NEW f \in Detectors PROVE
        /\ start[f] = -1 => dets'[f] = <<>> /\ f \notin ended
        /\ start[f] >= 0 =>
             /\ start[f] <= pos'[f] /\ pos'[f] <= Len(bcast) /\ Len(dets'[f]) = pos'[f] - start[f]
             /\ \A i \in 1 .. Len(dets'[f]) : dets'[f][i] \in {bcast[start[f] + i], Error}
        /\ f \in ended \ lagged => chunker \in {"closed", "failed"} /\ pos'[f] = Len(bcast)
    BY <1>1 DEF Detected
  <2>1. CASE f = d
    <3>1. /\ start[d] <= pos[d] /\ Len(dets[d]) = pos[d] - start[d]
          /\ \A i \in 1 .. Len(dets[d]) : dets[d][i] \in {bcast[start[d] + i], Error}
      BY <1>1 DEF Inv, Detected
    <3>2. ASSUME NEW i \in 1 .. Len(dets'[d]) PROVE dets'[d][i] \in {bcast[start[d] + i], Error}
      <4>1. CASE i = Len(dets[d]) + 1
        <5>1. start[d] + i = pos[d] + 1
          BY <1>3, <1>5, <3>1, <4>1
        <5> QED
          BY <1>2, <1>5, <4>1, <5>1
      <4>2. CASE i \in 1 .. Len(dets[d])
        BY <1>5, <3>1, <4>2
      <4> QED
        BY <1>5, <4>1, <4>2
    <3>3. start[d] <= pos'[d] /\ pos'[d] <= Len(bcast) /\ Len(dets'[d]) = pos'[d] - start[d] /\ start[d] # -1
      <4>1. pos'[d] = pos[d] + 1 /\ Len(dets'[d]) = Len(dets[d]) + 1
        BY <1>3, <1>5, <1>6
      <4>2. start[d] \in Int /\ pos[d] \in Int /\ Len(bcast) \in Int /\ Len(dets[d]) \in Int
        BY <1>3
      <4>3. pos[d] < Len(bcast) /\ start[d] >= 0
        BY <1>1, <1>3
      <4> QED
        BY <3>1, <4>1, <4>2, <4>3
    <3> QED
      BY <1>1, <2>1, <3>2, <3>3
  <2>2. CASE f # d
    BY <1>6, <2>2 DEF Inv, Detected
  <2> QED
    BY <2>1, <2>2
<1>10. Batched'
  <2>1. ASSUME NEW f \in Detectors, NEW i \in DOMAIN dets[f] PROVE i \in DOMAIN dets'[f] /\ dets'[f][i] = dets[f][i]
    <3>1. CASE f = d
      <4>1. DOMAIN dets[d] = 1 .. Len(dets[d]) /\ DOMAIN dets'[d] = 1 .. Len(dets'[d])
        BY <1>3, <1>5
      <4> QED
        BY <1>5, <2>1, <3>1, <4>1
    <3>2. CASE f # d
      BY <1>6, <2>1, <3>2
    <3> QED
      BY <3>1, <3>2
  <2> QED
    BY <1>1, <2>1, BatchedKept DEF Inv
<1>11. CompleteOrError'
  BY <1>1, CompleteKept
<1> QED
  BY <1>7, <1>8, <1>9, <1>10, <1>11 DEF Inv

LEMMA TaskEndsStep == ASSUME Inv, NEW d \in Detectors, DetectLags(d) \/ DetectEnds(d) PROVE Inv'
<1>1. /\ start[d] >= 0 /\ ended' = ended \cup {d}
      /\ lagged' = lagged \cup {d} \/ (lagged' = lagged /\ chunker \in {"closed", "failed"} /\ pos[d] = Len(bcast))
      /\ UNCHANGED <<hpc, opened, start, msgs, inputDone, forwarded, got, chunker, bcast, pos, dets, batched, lost, responses>>
  BY DEF DetectLags, DetectEnds, Running, Closed, setupVars, inputVars, chunkVars, answerVars
<1>2. Types' /\ Early' /\ Subscribed' /\ Broadcast' /\ Reading' /\ NoChunkMissed' /\ Batched'
  BY <1>1 DEF Inv, Types, Early, Subscribed, Late, Broadcast, Reading, NoChunkMissed, Batched, Answered
<1>3. CompleteOrError'
  <2>1. lagged \subseteq lagged'
    BY <1>1
  <2> QED
    BY <1>1, <2>1, CompleteKept
<1>4. Detected'
  <2>1. start[d] # -1
    BY <1>1
  <2>2. \A f \in Detectors : /\ f \in ended' \ lagged' => f \in ended \ lagged \/ (chunker \in {"closed", "failed"} /\ f = d /\ pos[d] = Len(bcast))
                             /\ f \in ended' => f \in ended \/ f = d
    BY <1>1
  <2> QED
    BY <1>1, <2>1, <2>2 DEF Inv, Detected
<1> QED
  BY <1>2, <1>3, <1>4 DEF Inv
-----------------------------------------------------------------------------
(* The responder.                                                          *)

LEMMA RespondStep == ASSUME Inv, Respond PROVE Inv'
<1>1. /\ hpc = "running" /\ \A d \in Detectors : Answered(d, batched + 1)
      /\ batched' = batched + 1 /\ batched \in Nat
      /\ UNCHANGED <<hpc, opened, start, msgs, inputDone, forwarded, got, chunker, bcast, pos, dets, ended, lagged>>
  BY DEF Respond, setupVars, inputVars, chunkVars, detectVars, Inv, Types
<1>2. \/ responses' = Append(responses, Chunk(batched + 1)) /\ lost' = lost
      \/ lost' = TRUE /\ responses' = responses
  BY DEF Respond
<1>3. /\ Append(responses, Chunk(batched + 1)) \in Seq(Item) /\ responses \in Seq(Item)
      /\ Len(Append(responses, Chunk(batched + 1))) = Len(responses) + 1
  <2>1. Chunk(batched + 1) \in Item
    BY <1>1, Items
  <2> QED
    BY <2>1, Appended DEF Inv, Types
<1>4. lost' \in BOOLEAN
  <2>1. lost' = lost \/ lost' = TRUE
    BY <1>2, Zenon
  <2>2. lost \in BOOLEAN
    BY DEF Inv, Types
  <2> QED
    BY <2>1, <2>2, Zenon
<1>5. Types'
  <2>1. responses' = responses \/ responses' = Append(responses, Chunk(batched + 1))
    BY <1>2, Zenon
  <2>2. responses' \in Seq(Item)
    BY <1>3, <2>1
  <2> QED
    BY <1>1, <1>4, <2>2 DEF Inv, Types
<1>6. Early' /\ Subscribed' /\ Broadcast' /\ Reading' /\ Detected' /\ NoChunkMissed' /\ CompleteOrError'
  BY <1>1 DEF Inv, Early, Subscribed, Late, Broadcast, Reading, Detected, NoChunkMissed, CompleteOrError
<1>7. Batched'
  <2>1. ASSUME NEW n \in 1 .. batched', NEW d \in Detectors PROVE Answered(d, n)
    <3>1. CASE n = batched + 1
      BY <1>1, <3>1
    <3>2. CASE n \in 1 .. batched
      BY <3>2 DEF Inv, Batched
    <3> QED
      BY <1>1, <3>1, <3>2
  <2>2. ~lost' => Len(responses') = batched'
    BY <1>1, <1>2, <1>3 DEF Inv, Batched
  <2>3. dets' = dets
    BY <1>1
  <2> QED
    BY <2>1, <2>2, <2>3 DEF Batched, Answered
<1> QED
  BY <1>5, <1>6, <1>7 DEF Inv

LEMMA RespondErrorStep == ASSUME Inv, RespondError PROVE Inv'
<1>1. /\ hpc = "running" /\ hpc' = "done" /\ responses' = Append(responses, Error)
      /\ UNCHANGED <<opened, start, msgs, inputDone, forwarded, got, chunker, bcast, pos, dets, ended, lagged, batched, lost>>
  BY DEF RespondError, inputVars, chunkVars, detectVars
<1>2. responses' \in Seq(Item) /\ Len(responses) \in Nat /\ Len(responses') = Len(responses) + 1 /\ responses'[Len(responses) + 1] = Error
  BY <1>1, Items, Appended DEF Inv, Types
<1>3. Types' /\ Early' /\ Subscribed'
  BY <1>1, <1>2 DEF Inv, Types, Early, Subscribed, Late
<1>4. Broadcast' /\ Reading' /\ Detected' /\ NoChunkMissed' /\ Batched'
  BY <1>1 DEF Inv, Broadcast, Reading, Detected, NoChunkMissed, Batched, Answered
<1>5. CompleteOrError'
  <2>1. Len(responses) + 1 \in DOMAIN responses'
    BY <1>2
  <2> QED
    BY <1>2, <2>1 DEF CompleteOrError
<1> QED
  BY <1>3, <1>4, <1>5 DEF Inv

\* At the end of the batch stream each task has answered every result of the ring,
\* in its place; an error among them would have left a chunk unanswered.
LEMMA EndStep == ASSUME Inv, RespondEnd PROVE Inv'
<1>1. /\ hpc = "running" /\ hpc' = "done" /\ ended = Detectors /\ \A d \in Detectors : Len(dets[d]) = batched
      /\ UNCHANGED <<opened, start, msgs, inputDone, forwarded, got, chunker, bcast, pos, dets, ended, lagged, batched, lost, responses>>
  BY DEF RespondEnd, BatcherEmpty, inputVars, chunkVars, detectVars, answerVars
<1>2. Types' /\ Early' /\ Subscribed' /\ Broadcast' /\ Reading' /\ Detected' /\ NoChunkMissed' /\ Batched'
  BY <1>1 DEF Inv, Types, Early, Subscribed, Late, Broadcast, Reading, Detected, NoChunkMissed, Batched, Answered
<1>3. ASSUME lagged = {}, ~lost, ~ErrorMissed
      PROVE  inputDone /\ Len(responses) = Len(msgs) /\ \A i \in DOMAIN msgs : msgs[i] = "text"
  <2>1. PICK d \in Detectors : TRUE
    BY PipelineAssumption
  <2>2. start[d] = 0
    <3>1. start[d] >= 0 /\ start[d] \in {-1} \cup Nat /\ ~(start[d] > 0)
      BY <1>1, <1>3 DEF Inv, Types, Subscribed, Late, ErrorMissed
    <3> QED
      BY <3>1
  <2>3. /\ chunker \in {"closed", "failed"} /\ Len(bcast) = batched /\ batched \in Nat /\ Len(dets[d]) = batched
        /\ \A i \in 1 .. batched : dets[d][i] \in {bcast[i], Error}
    <3>1. /\ pos[d] = Len(bcast) /\ chunker \in {"closed", "failed"} /\ Len(dets[d]) = pos[d] - start[d] /\ pos[d] \in Nat
          /\ \A i \in 1 .. Len(dets[d]) : dets[d][i] \in {bcast[start[d] + i], Error}
      BY <1>1, <1>3, <2>2 DEF Inv, Types, Detected
    <3> QED
      BY <1>1, <2>2, <3>1
  <2>4. chunker # "failed"
    <3> SUFFICES ASSUME chunker = "failed" PROVE FALSE
      OBVIOUS
    <3>1. batched > 0 /\ bcast[batched] = Error /\ \A i \in 1 .. batched - 1 : bcast[i] = Chunk(i)
      BY <2>3 DEF Inv, Broadcast
    <3>2. PICK i \in 1 .. batched : dets[d][i] = Chunk(batched)
      <4>1. Answered(d, batched)
        BY <2>3, <3>1 DEF Inv, Batched
      <4>2. DOMAIN dets[d] = 1 .. batched
        BY <2>3, Lengths DEF Inv
      <4> QED
        BY <4>1, <4>2 DEF Answered
    <3>3. bcast[i] = Chunk(batched)
      BY <2>3, <3>2, Items
    <3>4. CASE i = batched
      BY <2>3, <3>1, <3>3, <3>4, Items
    <3>5. CASE i \in 1 .. batched - 1
      BY <2>3, <3>1, <3>3, <3>5, Items
    <3> QED
      BY <2>3, <3>4, <3>5
  <2>5. chunker = "closed"
    BY <2>3, <2>4 DEF Inv, Broadcast
  <2>6. inputDone /\ got = Len(msgs) /\ Len(bcast) = got /\ \A i \in 1 .. got : msgs[i] = "text"
    BY <2>5 DEF Inv, Reading
  <2>7. Len(responses) = batched
    BY <1>1, <1>3 DEF Inv, Batched
  <2> QED
    BY <2>3, <2>6, <2>7, Lengths DEF Inv
<1>4. CompleteOrError'
  BY <1>1, <1>3 DEF CompleteOrError, ErrorMissed
<1> QED
  BY <1>2, <1>4 DEF Inv
-----------------------------------------------------------------------------
LEMMA StutterStep == ASSUME Inv, UNCHANGED vars PROVE Inv'
  BY CompleteKept DEF vars, setupVars, inputVars, chunkVars, detectVars, answerVars, Inv, Types, Early, Subscribed, Late,
     Broadcast, Reading, Detected, Batched, Answered, NoChunkMissed

LEMMA InitInv == Init => Inv
<1> SUFFICES ASSUME Init PROVE Inv
  OBVIOUS
<1>1. /\ hpc = "peek" /\ msgs = <<>> /\ bcast = <<>> /\ responses = <<>> /\ chunker = "open" /\ forwarded = 0 /\ got = 0 /\ batched = 0
      /\ Len(msgs) = 0 /\ Len(bcast) = 0 /\ Len(responses) = 0 /\ lost = FALSE /\ inputDone = FALSE /\ ended = {}
      /\ start = [d \in Detectors |-> -1] /\ pos = [d \in Detectors |-> 0] /\ dets = [d \in Detectors |-> <<>>]
  BY DEF Init
<1>2. \A d \in Detectors : start[d] = -1 /\ ~(start[d] >= 0) /\ dets[d] = <<>>
  BY <1>1
<1>3. Types
  <2>1. start \in [Detectors -> {-1} \cup Nat] /\ pos \in [Detectors -> Nat] /\ dets \in [Detectors -> Seq(Item)]
    BY <1>1
  <2>2. inputDone \in BOOLEAN /\ lost \in BOOLEAN
    BY <1>1, Zenon
  <2> QED
    BY <1>1, <2>1, <2>2 DEF Types
<1>4. Early /\ Subscribed /\ Broadcast /\ Reading
  BY <1>1, <1>2 DEF Early, Late, Subscribed, Broadcast, Reading
<1>5. Detected /\ Batched /\ NoChunkMissed /\ CompleteOrError
  BY <1>1, <1>2 DEF Detected, Batched, NoChunkMissed, CompleteOrError
<1> QED
  BY <1>3, <1>4, <1>5 DEF Inv

LEMMA NextInv == Inv /\ [Next]_vars => Inv'
<1> SUFFICES ASSUME Inv, [Next]_vars PROVE Inv'
  OBVIOUS
<1>1. CASE Handler
  BY <1>1, PeekStep, OpenStep, SpawnStep, SubscribeStep DEF Handler
<1>2. CASE Input
  BY <1>2, InputStep
<1>3. CASE Chunker \/ ChunkerFails
  BY <1>3, BreaksStep, DeafStep, ReadsStep, EmitsStep, ClosesStep DEF Chunker
<1>4. CASE \E d \in Detectors : DetectionTask(d)
  BY <1>4, DetectStep, TaskEndsStep DEF DetectionTask
<1>5. CASE Responder
  BY <1>5, RespondStep, RespondErrorStep, EndStep DEF Responder
<1>6. CASE BatchStreamSpins \/ Finished \/ UNCHANGED vars
  BY <1>6, StutterStep DEF BatchStreamSpins, Finished
<1> QED
  BY <1>1, <1>2, <1>3, <1>4, <1>5, <1>6 DEF Next

LEMMA InvAlways == Spec => []Inv
  BY InitInv, NextInv, PTL DEF Spec

\* No chunk is broadcast before the last of the detection tasks has subscribed,
\* for any number of detectors: only an error can be missed.
THEOREM ChunksNeverMissed == Spec => []NoChunkMissed
<1>1. Inv => NoChunkMissed
  BY DEF Inv
<1> QED
  BY <1>1, InvAlways, PTL

\* For every capacity of the rings: a stream that closes without an error has
\* answered every message, when no task lagged and no batch was lost.
THEOREM ClosedIsComplete == Spec => []CompleteOrError
<1>1. Inv => CompleteOrError
  BY DEF Inv
<1> QED
  BY <1>1, InvAlways, PTL
-----------------------------------------------------------------------------
(* Chunks answered are of text the chunker has read.                       *)

\* The chunks in the ring, and those the client has been given.
Sent ==
    /\ chunker # "failed" => Len(bcast) <= got
    /\ chunker = "failed" => Len(bcast) - 1 <= got
    /\ \A i \in 1 .. Len(responses) : responses[i] = Error \/ \E n \in 1 .. got : responses[i] = Chunk(n)

\* What is in the ring as a chunk has been read.
LEMMA ChunkRead ==
    ASSUME Inv, Sent, NEW k \in 1 .. Len(bcast), NEW n \in Nat, bcast[k] = Chunk(n)
    PROVE  n \in 1 .. got
<1>1. got \in Nat /\ Len(bcast) \in Nat /\ Chunk(n) # Error
  BY Items, Lengths DEF Inv, Types
<1>2. CASE chunker # "failed"
  <2>1. bcast[k] = Chunk(k) /\ Len(bcast) <= got
    BY <1>2 DEF Inv, Broadcast, Sent
  <2>2. k = n
    <3>1. k \in Nat /\ Chunk(k) = Chunk(n)
      BY <1>1, <2>1
    <3> QED
      BY <3>1, Items
  <2> QED
    BY <1>1, <2>1, <2>2
<1>3. CASE chunker = "failed"
  <2>1. bcast[Len(bcast)] = Error /\ Len(bcast) - 1 <= got
        /\ \A i \in 1 .. Len(bcast) - 1 : bcast[i] = Chunk(i)
    BY <1>3 DEF Inv, Broadcast, Sent
  <2>2. k # Len(bcast)
    BY <1>1, <2>1
  <2>3. k \in 1 .. Len(bcast) - 1
    BY <1>1, <2>2
  <2>4. k = n
    <3>1. k \in Nat /\ Chunk(k) = Chunk(n)
      BY <1>1, <2>1, <2>3
    <3> QED
      BY <3>1, Items
  <2> QED
    BY <1>1, <2>1, <2>3, <2>4
<1> QED
  BY <1>2, <1>3

\* A chunk some task has answered has been read.
LEMMA AnsweredRead ==
    ASSUME Inv, Sent, NEW d \in Detectors, NEW n \in Nat, Answered(d, n)
    PROVE  n \in 1 .. got
<1>1. PICK i \in 1 .. Len(dets[d]) : dets[d][i] = Chunk(n)
  BY Lengths DEF Answered, Inv
<1>2. start[d] \in {-1} \cup Nat /\ pos[d] \in Nat /\ Len(dets[d]) \in Nat /\ Len(bcast) \in Nat
  BY Lengths DEF Inv, Types
<1>3. start[d] >= 0
  <2>1. start[d] = -1 => Len(dets[d]) = 0
    BY DEF Inv, Detected
  <2> QED
    BY <1>1, <1>2, <2>1
<1>4. /\ start[d] <= pos[d] /\ pos[d] <= Len(bcast) /\ Len(dets[d]) = pos[d] - start[d]
      /\ dets[d][i] \in {bcast[start[d] + i], Error}
  BY <1>1, <1>3 DEF Inv, Detected
<1>5. start[d] + i \in 1 .. Len(bcast)
  BY <1>2, <1>3, <1>4
<1>6. bcast[start[d] + i] = Chunk(n)
  BY <1>1, <1>4, Items
<1> QED
  BY <1>5, <1>6, ChunkRead

\* One more response.
LEMMA ResponseSent ==
    ASSUME Inv, Sent, NEW e, e = Error \/ \E n \in 1 .. got : e = Chunk(n),
           responses' = Append(responses, e), UNCHANGED <<bcast, chunker, got>>
    PROVE  Sent'
<1>1. e \in Item
  BY Items DEF Item, Inv, Types
<1>2. /\ Len(responses) \in Nat /\ Len(responses') = Len(responses) + 1 /\ responses'[Len(responses) + 1] = e
      /\ \A i \in 1 .. Len(responses) : responses'[i] = responses[i]
  BY <1>1, Appended DEF Inv, Types
<1>3. ASSUME NEW i \in 1 .. Len(responses')
      PROVE  responses'[i] = Error \/ \E n \in 1 .. got : responses'[i] = Chunk(n)
  <2>1. CASE i = Len(responses) + 1
    BY <1>2, <2>1
  <2>2. CASE i \in 1 .. Len(responses)
    BY <1>2, <2>2 DEF Sent
  <2> QED
    BY <1>2, <2>1, <2>2
<1> QED
  BY <1>3 DEF Sent

LEMMA QuietSent ==
    ASSUME Sent, UNCHANGED <<bcast, chunker, got, responses>>
    PROVE  Sent'
  BY DEF Sent

LEMMA ChunkerSent == ASSUME Inv, Sent, Chunker \/ ChunkerFails PROVE Sent'
<1>1. got \in Nat /\ Len(bcast) \in Nat /\ Texts = got /\ responses' = responses
  BY Lengths, TextsRead DEF Inv, Types, Chunker, ChunkerReads, ChunkerEmits, ChunkerCloses, ChunkerFails, answerVars
<1>2. CASE ChunkerReads
  <2>1. bcast' = bcast /\ got' \in {got, got + 1} /\ chunker = "open" /\ chunker' \in {"open", "deaf"}
    BY <1>2 DEF ChunkerReads
  <2>2. Len(bcast) <= got' /\ \A n \in 1 .. got : n \in 1 .. got'
    BY <1>1, <2>1 DEF Sent
  <2> QED
    BY <1>1, <2>1, <2>2 DEF Sent
<1>3. CASE ChunkerEmits
  <2>1. chunker \in {"open", "deaf"} /\ chunker' = chunker /\ got' = got /\ Len(bcast) < got
        /\ bcast' = Append(bcast, Chunk(Len(bcast) + 1))
    BY <1>1, <1>3 DEF ChunkerEmits
  <2>2. Len(bcast') = Len(bcast) + 1
    BY <1>1, <2>1, Items, Appended DEF Inv, Types
  <2> QED
    BY <1>1, <2>1, <2>2 DEF Sent
<1>4. CASE ChunkerCloses
  BY <1>1, <1>4 DEF ChunkerCloses, Sent
<1>5. CASE ChunkerFails
  <2>1. chunker # "failed" /\ chunker' = "failed" /\ got' = got /\ bcast' = Append(bcast, Error)
    BY <1>5 DEF ChunkerFails
  <2>2. Len(bcast') = Len(bcast) + 1
    BY <1>1, <2>1, Items, Appended DEF Inv, Types
  <2> QED
    BY <1>1, <2>1, <2>2 DEF Sent
<1> QED
  BY <1>2, <1>3, <1>4, <1>5 DEF Chunker

LEMMA ResponderSent == ASSUME Inv, Sent, Responder PROVE Sent'
<1>1. UNCHANGED <<bcast, chunker, got>>
  BY DEF Responder, Respond, RespondError, RespondEnd, chunkVars
<1>2. CASE responses' = responses
  BY <1>1, <1>2, QuietSent
<1>3. CASE RespondError
  BY <1>1, <1>3, ResponseSent DEF RespondError
<1>4. CASE Respond /\ responses' = Append(responses, Chunk(batched + 1))
  <2>1. PICK d \in Detectors : TRUE
    BY PipelineAssumption
  <2>2. Answered(d, batched + 1) /\ batched + 1 \in Nat
    BY <1>4 DEF Respond, Inv, Types
  <2>3. batched + 1 \in 1 .. got
    BY <2>2, AnsweredRead
  <2> QED
    BY <1>1, <1>4, <2>3, ResponseSent
<1> QED
  BY <1>2, <1>3, <1>4 DEF Responder, Respond, RespondEnd, answerVars

LEMMA HandlerSent == ASSUME Inv, Sent, Handler PROVE Sent'
<1>1. got' = got
  BY DEF Handler, ExtractDetectors, Validate, OpenChunkStream, SpawnTasks, Subscribe, chunkVars
<1>2. CASE UNCHANGED <<bcast, chunker, responses>>
  BY <1>1, <1>2, QuietSent
<1>3. CASE UNCHANGED <<bcast, chunker>> /\ responses' = Append(responses, Error)
  BY <1>1, <1>3, ResponseSent
<1>4. CASE chunker' = "open" /\ bcast' = <<>> /\ responses' = responses
  <2>1. Len(bcast') = 0 /\ got \in Nat
    BY <1>4 DEF Inv, Types
  <2> QED
    BY <1>1, <1>4, <2>1 DEF Sent
<1> QED
  BY <1>2, <1>3, <1>4
     DEF Handler, ExtractDetectors, Validate, OpenChunkStream, SpawnTasks, Subscribe, Refuse, chunkVars, answerVars

LEMMA NextSent == Inv /\ Sent /\ [Next]_vars => Sent'
<1> SUFFICES ASSUME Inv, Sent, [Next]_vars PROVE Sent'
  OBVIOUS
<1>1. CASE Input \/ (\E d \in Detectors : DetectionTask(d)) \/ BatchStreamSpins \/ Finished \/ UNCHANGED vars
  <2>1. UNCHANGED <<bcast, chunker, got, responses>>
    BY <1>1 DEF Input, InputNext, InputEnd, InputForward, DetectionTask, Detect, DetectLags, DetectEnds,
                BatchStreamSpins, Finished, vars, chunkVars, answerVars
  <2> QED
    BY <2>1, QuietSent
<1> QED
  BY <1>1, HandlerSent, ChunkerSent, ResponderSent DEF Next

\* For every number of detectors and messages and every capacity: no chunk that
\* reaches the client goes past an invalid message.
THEOREM NothingAnsweredPastError == Spec => []NothingPastError
<1>1. Init => Sent
  <2> SUFFICES ASSUME Init PROVE Sent
    OBVIOUS
  <2>1. Len(bcast) = 0 /\ Len(responses) = 0 /\ got = 0 /\ chunker = "open"
    BY DEF Init
  <2> QED
    BY <2>1 DEF Sent
<1>2. Inv /\ Sent => NothingPastError
  <2> SUFFICES ASSUME Inv, Sent, NEW i \in DOMAIN responses, responses[i] # Error,
                      NEW j \in 1 .. responses[i].n
               PROVE  msgs[j] = "text"
    BY DEF NothingPastError
  <2>1. PICK n \in 1 .. got : responses[i] = Chunk(n)
    BY Lengths DEF Inv, Sent
  <2>2. responses[i].n = n
    BY <2>1 DEF Chunk
  <2>3. j \in 1 .. got
    BY <2>2 DEF Inv, Types
  <2> QED
    BY <2>3 DEF Inv, Reading
<1> QED
  BY <1>1, <1>2, NextSent, InvAlways, PTL DEF Spec
==============================================================================

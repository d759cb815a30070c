---------------- MODULE StreamingClassificationWithGen_proofs ----------------
(***************************************************************************)
(* Nothing follows an error, and a response is built from the generations  *)
(* of its chunk or from none, for streams of any length, with or without   *)
(* failures, lost batches and a leaving client.                            *)
(***************************************************************************)
EXTENDS StreamingClassificationWithGen, TLAPS

Batch == {Error} \cup [tag : {"batch"}, from : Nat, upto : Nat]
Response ==
    [tag : {"nothing", "error", "input"}] \cup [tag : {"raw"}, index : Nat]
        \cup [tag : {"chunk"}, from : Nat, upto : Nat, used : Seq(Nat)]

Types ==
    /\ responses \in Seq(Response) /\ pending \in Response /\ batches \in Seq(Batch)
    /\ inputs \in Seq(Nat) /\ generations \in Seq(Nat)
    /\ count \in Nat /\ covered \in Nat /\ inputError \in BOOLEAN

\* Who may be sending: the handler before it has spawned the tasks, or the
\* responder after that.
Turns ==
    /\ gpc # "idle" \/ dpc # "idle" => hpc = "stopped"
    /\ hpc \in {"validate", "input", "open", "setup"} => count = 0

\* What is being sent as one response among others is no error, and whoever sent
\* one has stopped.
Errors ==
    /\ hpc = "forward_send" \/ dpc = "send" => pending # Error
    /\ \A i \in 1 .. Len(responses) : responses[i] = Error =>
           i = Len(responses) /\ hpc = "stopped" /\ dpc \in {"idle", "stopped"}

ErrorInv == Types /\ Turns /\ Errors

\* The texts in the pipeline are those of the first messages, up to the first
\* error, and the vector has these messages at the same places, but for the last
\* one while it is being pushed.
Feeding ==
    /\ \A i \in 1 .. Len(inputs) : inputs[i] = i - 1
    /\ \A i \in 1 .. Len(generations) : i <= Len(inputs) => generations[i] = i - 1
    /\ gpc = "idle" => inputs = <<>> /\ generations = <<>> /\ ~inputError
    /\ gpc = "send" => message \in {"ok", "error"}
    /\ gpc \in {"send", "push"} => count > 0
    /\ gpc # "idle" /\ ~inputError =>
           /\ count = Len(inputs) + (IF gpc = "send" THEN 1 ELSE 0)
           /\ Len(generations) = Len(inputs) - (IF gpc = "push" THEN 1 ELSE 0)
    /\ inputError => Len(generations) >= Len(inputs)

\* A batch spans messages whose text was sent.
Spans(b) == b.tag = "batch" => b.from <= b.upto /\ b.upto < Len(inputs)
Exact(r) == r.tag = "chunk" => r.used \in {<<>>, Range(r.from, r.upto)}

Slices ==
    /\ \A i \in 1 .. Len(batches) : Spans(batches[i])
    /\ Exact(pending)
    /\ \A i \in 1 .. Len(responses) : Exact(responses[i])

Inv == ErrorInv /\ Feeding /\ Slices
-----------------------------------------------------------------------------
(* Values.                                                                 *)

LEMMA Members ==
    /\ Error \in Response /\ Tagged("nothing") \in Response /\ Tagged("input") \in Response
    /\ \A n \in Nat : [tag |-> "raw", index |-> n] \in Response
    /\ \A m, n \in Nat : \A u \in Seq(Nat) : [tag |-> "chunk", from |-> m, upto |-> n, used |-> u] \in Response
  BY DEF Error, Tagged, Response

LEMMA BatchMembers ==
    Error \in Batch /\ \A m, n \in Nat : [tag |-> "batch", from |-> m, upto |-> n] \in Batch
  BY DEF Batch

LEMMA BatchFields == \A b \in Batch : b.tag = "batch" => b.from \in Nat /\ b.upto \in Nat
<1>1. Error.tag # "batch"
  BY DEF Error, Tagged
<1> QED
  BY <1>1 DEF Batch

LEMMA Tags ==
    /\ Error.tag = "error" /\ Tagged("nothing").tag = "nothing" /\ Tagged("input").tag = "input"
    /\ \A n : [tag |-> "raw", index |-> n].tag = "raw"
    /\ \A m, n, u : LET c == [tag |-> "chunk", from |-> m, upto |-> n, used |-> u]
                    IN  c.tag = "chunk" /\ c.from = m /\ c.upto = n /\ c.used = u
    /\ \A m, n : LET b == [tag |-> "batch", from |-> m, upto |-> n]
                 IN  b.tag = "batch" /\ b.from = m /\ b.upto = n
  BY DEF Error, Tagged

LEMMA Appended ==
    ASSUME NEW S, NEW s \in Seq(S), NEW e \in S
    PROVE  /\ Append(s, e) \in Seq(S) /\ Len(s) \in Nat /\ Len(Append(s, e)) = Len(s) + 1
           /\ Append(s, e)[Len(s) + 1] = e
           /\ \A i \in 1 .. Len(s) : Append(s, e)[i] = s[i]
  OBVIOUS

LEMMA Popped ==
    ASSUME NEW S, NEW s \in Seq(S), s # <<>>
    PROVE  /\ Tail(s) \in Seq(S) /\ Len(Tail(s)) = Len(s) - 1 /\ Len(s) \in Nat /\ Len(s) > 0
           /\ Head(s) = s[1] /\ Head(s) \in S
           /\ \A i \in 1 .. Len(Tail(s)) : Tail(s)[i] = s[i + 1]
  OBVIOUS
-----------------------------------------------------------------------------
(* Sending.                                                                *)

\* A response is added to those sent, or dropped when the client is gone.
LEMMA PutStep ==
    ASSUME Types, Slices, Put(pending)
    PROVE  /\ responses' \in Seq(Response) /\ Len(responses) \in Nat
           /\ \A i \in 1 .. Len(responses') : Exact(responses'[i])
           /\ \/ Len(responses') = Len(responses) /\ \A i \in 1 .. Len(responses) : responses'[i] = responses[i]
              \/ /\ Len(responses') = Len(responses) + 1 /\ responses'[Len(responses) + 1] = pending
                 /\ \A i \in 1 .. Len(responses) : responses'[i] = responses[i]
<1>1. responses \in Seq(Response) /\ pending \in Response
  BY DEF Types
<1>2. Len(responses) \in Nat
  BY <1>1
<1>3. CASE gone
  <2>1. responses' = responses
    BY <1>3 DEF Put
  <2> QED
    BY <1>1, <1>2, <2>1 DEF Slices
<1>4. CASE ~gone
  <2>1. responses' = Append(responses, pending)
    BY <1>4 DEF Put
  <2>2. /\ responses' \in Seq(Response) /\ Len(responses') = Len(responses) + 1
        /\ responses'[Len(responses) + 1] = pending
        /\ \A i \in 1 .. Len(responses) : responses'[i] = responses[i]
    BY <1>1, <2>1, Appended
  <2>3. \A i \in 1 .. Len(responses') : Exact(responses'[i])
    <3> SUFFICES ASSUME NEW i \in 1 .. Len(responses') PROVE Exact(responses'[i])
      OBVIOUS
    <3>1. CASE i = Len(responses) + 1
      BY <2>2, <3>1 DEF Slices
    <3>2. CASE i # Len(responses) + 1
      <4>1. i \in 1 .. Len(responses)
        BY <1>2, <2>2, <3>2
      <4> QED
        BY <2>2, <4>1 DEF Slices
    <3> QED
      BY <3>1, <3>2
  <2> QED
    BY <1>2, <2>2, <2>3
<1> QED
  BY <1>3, <1>4

\* The parts of the invariant about what a step leaves alone.
LEMMA FeedingKept ==
    ASSUME Feeding, UNCHANGED <<gpc, message, inputs, inputError, generations>>, count' = count \/ gpc = "idle"
    PROVE  Feeding'
  BY DEF Feeding

LEMMA SlicesKept ==
    ASSUME Slices, UNCHANGED <<responses, batches, inputs>>, Exact(pending')
    PROVE  Slices'
  BY DEF Slices, Spans

LEMMA TypesKept ==
    ASSUME Types, UNCHANGED <<responses, batches, inputs, generations, covered, inputError>>,
           pending' \in Response, count' \in Nat
    PROVE  Types'
  BY DEF Types

LEMMA SendStep ==
    ASSUME Inv, SendLast \/ ForwardSend \/ ResponderSends
    PROVE  Inv'
<1>1. Put(pending) /\ UNCHANGED <<request, gpc, genVars, pipeVars, pending>>
  BY DEF SendLast, ForwardSend, ResponderSends
<1>2. /\ UNCHANGED <<message, count, inputs, inputError, generations>>
      /\ UNCHANGED <<pipe, covered, batches>>
  BY <1>1 DEF genVars, pipeVars
<1>3. /\ responses' \in Seq(Response) /\ Len(responses) \in Nat
      /\ \A i \in 1 .. Len(responses') : Exact(responses'[i])
      /\ \/ Len(responses') = Len(responses) /\ \A i \in 1 .. Len(responses) : responses'[i] = responses[i]
         \/ /\ Len(responses') = Len(responses) + 1 /\ responses'[Len(responses) + 1] = pending
            /\ \A i \in 1 .. Len(responses) : responses'[i] = responses[i]
  BY <1>1, PutStep DEF Inv, ErrorInv
<1>4. Types'
  BY <1>1, <1>2, <1>3 DEF Inv, ErrorInv, Types
<1>5. Turns'
  BY <1>1, <1>2 DEF Inv, ErrorInv, Turns, SendLast, ForwardSend, ResponderSends
<1>6. Feeding'
  BY <1>1, <1>2, FeedingKept DEF Inv
<1>7. Slices'
  BY <1>1, <1>2, <1>3 DEF Inv, Slices, Spans
<1>8. \A i \in 1 .. Len(responses) : responses[i] # Error
  <2>1. CASE SendLast \/ ForwardSend
    BY <2>1 DEF Inv, ErrorInv, Errors, SendLast, ForwardSend
  <2>2. CASE ResponderSends
    BY <2>2 DEF Inv, ErrorInv, Errors, ResponderSends
  <2> QED
    BY <2>1, <2>2
<1>9. Errors'
  <2>1. ASSUME NEW i \in 1 .. Len(responses'), responses'[i] = Error
        PROVE  i = Len(responses') /\ hpc' = "stopped" /\ dpc' \in {"idle", "stopped"}
    <3>1. i = Len(responses) + 1 /\ Len(responses') = Len(responses) + 1 /\ pending = Error
      BY <1>3, <1>8, <2>1
    <3>2. CASE SendLast
      BY <3>1, <3>2 DEF SendLast, Inv, ErrorInv, Turns
    <3>3. CASE ForwardSend
      BY <3>1, <3>3 DEF ForwardSend, Inv, ErrorInv, Errors
    <3>4. CASE ResponderSends
      BY <3>1, <3>4 DEF ResponderSends, Inv, ErrorInv, Errors, Turns
    <3> QED
      BY <3>1, <3>2, <3>3, <3>4
  <2>2. ~(hpc' = "forward_send" \/ dpc' = "send")
    BY DEF SendLast, ForwardSend, ResponderSends, Inv, ErrorInv, Turns
  <2> QED
    BY <2>1, <2>2 DEF Errors
<1> QED
  BY <1>4, <1>5, <1>6, <1>7, <1>9 DEF Inv, ErrorInv
-----------------------------------------------------------------------------
(* The other steps of the handler.                                         *)

LEMMA HandlerStep ==
    ASSUME Inv, \/ Validate \/ InputDetection \/ OpenStream \/ Setup \/ ForwardEnd
                \/ \E r \in Results : ForwardNext(r)
    PROVE  Inv'
<1>1. /\ hpc \in {"validate", "input", "open", "setup", "forward"} /\ gpc = "idle" /\ dpc = "idle"
      /\ UNCHANGED <<message, inputs, inputError, generations, covered, batches, responses>>
  BY DEF Validate, InputDetection, OpenStream, Setup, ForwardEnd, ForwardNext, genVars, pipeVars, respVars,
         Inv, ErrorInv, Turns
<1>2. /\ pending' \in {pending, Error, Tagged("input"), [tag |-> "raw", index |-> count]}
      /\ count' \in {count, count + 1}
      /\ hpc' = "forward_send" => pending' = [tag |-> "raw", index |-> count]
      /\ dpc' \in {"idle", "await", "last"} /\ (gpc' # "idle" \/ dpc' # "idle" => hpc' = "stopped")
      /\ hpc' \in {"validate", "input", "open", "setup"} => count' = count /\ hpc \in {"validate", "input", "open", "setup"}
  BY <1>1 DEF Validate, InputDetection, OpenStream, NoGenerationClient, Setup, ForwardEnd, ForwardNext, Fail,
              genVars, respVars
<1>3. pending' \in Response /\ Exact(pending') /\ [tag |-> "raw", index |-> count] # Error
  BY <1>2, Members, Tags DEF Inv, ErrorInv, Types, Slices, Exact
<1>4. Types'
  BY <1>1, <1>2, <1>3, TypesKept DEF Inv, ErrorInv, Types
<1>5. Turns'
  BY <1>2 DEF Inv, ErrorInv, Turns
<1>6. Errors'
  BY <1>1, <1>2, <1>3 DEF Inv, ErrorInv, Errors
<1>7. Slices'
  BY <1>1, <1>3, SlicesKept DEF Inv
<1>8. Feeding'
  <2>1. CASE Setup
    <3>1. count' = 0 /\ gpc' = "next" /\ inputs' = <<>> /\ generations' = <<>> /\ ~inputError'
      BY <1>1, <2>1 DEF Setup, genVars, Inv, ErrorInv, Turns, Feeding
    <3>2. Len(inputs') = 0 /\ Len(generations') = 0
      BY <3>1
    <3> QED
      BY <3>1, <3>2 DEF Feeding
  <2>2. CASE ~Setup
    <3>1. gpc' = gpc
      BY <2>2 DEF Validate, InputDetection, OpenStream, ForwardEnd, ForwardNext
    <3> QED
      BY <1>1, <3>1, FeedingKept DEF Inv
  <2> QED
    BY <2>1, <2>2
<1> QED
  BY <1>4, <1>5, <1>6, <1>7, <1>8 DEF Inv, ErrorInv
-----------------------------------------------------------------------------
(* The generator.                                                          *)

LEMMA GeneratorStep == ASSUME Inv, Generator PROVE Inv'
<1>1. /\ gpc # "idle" /\ gpc' # "idle" /\ hpc = "stopped"
      /\ UNCHANGED <<hpc, dpc, pending, responses, covered, batches>>
  BY DEF Generator, GenNext, GenSend, GenPush, GenEnd, pipeVars, respVars, Inv, ErrorInv, Turns
<1>2. /\ inputs \in Seq(Nat) /\ generations \in Seq(Nat) /\ count \in Nat /\ inputError \in BOOLEAN
      /\ Len(inputs) \in Nat /\ Len(generations) \in Nat
  BY DEF Inv, ErrorInv, Types
<1>3. Turns' /\ Errors'
  BY <1>1 DEF Inv, ErrorInv, Turns, Errors
<1>4. ASSUME inputs' \in Seq(Nat), generations' \in Seq(Nat), count' \in Nat, inputError' \in BOOLEAN,
             Feeding', Len(inputs') >= Len(inputs)
      PROVE  Inv'
  <2>1. Types'
    BY <1>1, <1>4 DEF Inv, ErrorInv, Types
  <2>2. Slices'
    <3>1. ASSUME NEW i \in 1 .. Len(batches) PROVE Spans(batches[i])'
      <4>1. batches[i] \in Batch /\ Spans(batches[i]) /\ batches' = batches
        BY <1>1, <3>1 DEF Inv, ErrorInv, Types, Slices
      <4>2. Len(inputs') \in Nat
        BY <1>4
      <4> QED
        BY <1>2, <1>4, <4>1, <4>2, BatchFields DEF Spans
    <3> QED
      BY <1>1, <3>1 DEF Inv, Slices
  <2> QED
    BY <1>3, <1>4, <2>1, <2>2 DEF Inv, ErrorInv
<1>5. CASE \E r \in Results : GenNext(r)
  <2>1. /\ gpc = "next" /\ gpc' = "send" /\ count' = count + 1 /\ message' \in {"ok", "error"}
        /\ UNCHANGED <<inputs, inputError, generations>>
    BY <1>5 DEF GenNext, Results
  <2>2. Feeding'
    BY <1>2, <2>1 DEF Inv, Feeding
  <2> QED
    BY <1>2, <1>4, <2>1, <2>2
<1>6. CASE GenSend
  <2>1. /\ gpc = "send" /\ UNCHANGED <<count, generations>> /\ message \in {"ok", "error"} /\ message' = message
        /\ gpc' = IF message = "ok" THEN "push" ELSE "next"
        /\ inputError' = (inputError \/ message = "error")
        /\ inputs' = IF message = "ok" /\ ~inputError THEN Append(inputs, count - 1) ELSE inputs
    BY <1>6 DEF GenSend, Inv, Feeding
  <2>2. CASE message = "ok" /\ ~inputError
    <3>1. inputs' = Append(inputs, count - 1) /\ count = Len(inputs) + 1 /\ Len(generations) = Len(inputs)
      BY <1>1, <2>1, <2>2 DEF Inv, Feeding
    <3>2. count - 1 \in Nat
      BY <1>2, <3>1
    <3>3. /\ inputs' \in Seq(Nat) /\ Len(inputs') = Len(inputs) + 1 /\ inputs'[Len(inputs) + 1] = Len(inputs)
          /\ \A i \in 1 .. Len(inputs) : inputs'[i] = inputs[i]
      BY <1>2, <3>1, <3>2, Appended
    <3>4. \A i \in 1 .. Len(inputs') : inputs'[i] = i - 1
      <4> SUFFICES ASSUME NEW i \in 1 .. Len(inputs') PROVE inputs'[i] = i - 1
        OBVIOUS
      <4>1. CASE i = Len(inputs) + 1
        BY <1>2, <3>3, <4>1
      <4>2. CASE i \in 1 .. Len(inputs)
        BY <3>3, <4>2 DEF Inv, Feeding
      <4> QED
        BY <1>2, <3>3, <4>1, <4>2
    <3>5. \A i \in 1 .. Len(generations') : i <= Len(inputs') => generations'[i] = i - 1
      BY <1>2, <2>1, <3>1, <3>3 DEF Inv, Feeding
    <3>6. gpc' = "push" /\ ~inputError' /\ inputError' \in BOOLEAN
      BY <1>2, <2>1, <2>2
    <3>7. Feeding'
      BY <1>2, <2>1, <3>1, <3>3, <3>4, <3>5, <3>6 DEF Feeding
    <3> QED
      BY <1>2, <1>4, <2>1, <3>3, <3>6, <3>7
  <2>3. CASE ~(message = "ok" /\ ~inputError)
    <3>1. inputs' = inputs /\ inputError' = TRUE /\ gpc' \in {"push", "next"}
      BY <1>2, <2>1, <2>3
    <3>2. Len(generations) >= Len(inputs)
      BY <1>1, <1>2, <2>1 DEF Inv, Feeding
    <3>3. Feeding'
      BY <2>1, <3>1, <3>2 DEF Inv, Feeding
    <3> QED
      BY <1>2, <1>4, <2>1, <3>1, <3>3
  <2> QED
    BY <2>2, <2>3
<1>7. CASE GenPush
  <2>1. /\ gpc = "push" /\ gpc' = "next" /\ UNCHANGED <<message, count, inputs, inputError>>
        /\ generations' = Append(generations, count - 1)
    BY <1>7 DEF GenPush
  <2>2. count - 1 \in Nat
    BY <1>2, <2>1 DEF Inv, Feeding
  <2>3. /\ generations' \in Seq(Nat) /\ Len(generations') = Len(generations) + 1
        /\ generations'[Len(generations) + 1] = count - 1
        /\ \A i \in 1 .. Len(generations) : generations'[i] = generations[i]
    BY <1>2, <2>1, <2>2, Appended
  <2>4. IF inputError THEN Len(generations) >= Len(inputs)
        ELSE count = Len(inputs) /\ Len(generations) = Len(inputs) - 1
    BY <1>1, <1>2, <2>1 DEF Inv, Feeding
  <2>5. \A i \in 1 .. Len(generations') : i <= Len(inputs') => generations'[i] = i - 1
    <3> SUFFICES ASSUME NEW i \in 1 .. Len(generations'), i <= Len(inputs') PROVE generations'[i] = i - 1
      OBVIOUS
    <3>1. CASE i = Len(generations) + 1
      BY <1>2, <2>1, <2>3, <2>4, <3>1
    <3>2. CASE i \in 1 .. Len(generations)
      BY <2>1, <2>3, <3>2 DEF Inv, Feeding
    <3> QED
      BY <1>2, <2>3, <3>1, <3>2
  <2>6. Feeding'
    BY <1>2, <2>1, <2>3, <2>4, <2>5 DEF Inv, Feeding
  <2> QED
    BY <1>2, <1>4, <2>1, <2>3, <2>6
<1>8. CASE GenEnd
  <2>1. gpc = "next" /\ gpc' = "closed" /\ UNCHANGED <<message, count, inputs, inputError, generations>>
    BY <1>8 DEF GenEnd, genVars
  <2>2. Feeding'
    BY <2>1 DEF Inv, Feeding
  <2> QED
    BY <1>2, <1>4, <2>1, <2>2
<1> QED
  BY <1>5, <1>6, <1>7, <1>8 DEF Generator
-----------------------------------------------------------------------------
(* The pipeline.                                                           *)

\* The messages of a chunk of uncovered text.
LEMMA ChunkSpans ==
    ASSUME Inv, NEW h \in Uncovered
    PROVE  /\ MessageOf(covered + 1) \in Nat /\ MessageOf(h) \in Nat
           /\ MessageOf(covered + 1) <= MessageOf(h) /\ MessageOf(h) < Len(inputs)
<1>1. /\ covered \in Nat /\ h \in Nat /\ covered < h /\ Len(inputs) \in Nat /\ h <= 2 * Len(inputs)
  BY DEF Inv, ErrorInv, Types, Uncovered
<1>2. \A k \in Nat : k > covered /\ k <= h => (k + 1) \div 2 \in 1 .. Len(inputs)
  BY <1>1
<1>3. (covered + 2) \div 2 <= (h + 1) \div 2
  BY <1>1
<1>4. MessageOf(covered + 1) = ((covered + 2) \div 2) - 1 /\ MessageOf(h) = ((h + 1) \div 2) - 1
  <2>1. (covered + 2) \div 2 \in 1 .. Len(inputs) /\ (h + 1) \div 2 \in 1 .. Len(inputs)
    BY <1>1, <1>2
  <2>2. covered + 1 + 1 = covered + 2
    BY <1>1
  <2> QED
    BY <2>1, <2>2 DEF MessageOf, Inv, Feeding
<1>5. (covered + 2) \div 2 \in 1 .. Len(inputs) /\ (h + 1) \div 2 \in 1 .. Len(inputs)
  BY <1>1, <1>2
<1> QED
  BY <1>1, <1>3, <1>4, <1>5

\* What the pipeline adds to the batch stream.
LEMMA BatchAdded ==
    ASSUME Inv, UNCHANGED <<tasks, genVars, respVars>>, covered' \in Nat,
           \/ batches' = batches
           \/ \E b \in Batch : Spans(b) /\ batches' = Append(batches, b)
    PROVE  Inv'
<1>1. UNCHANGED <<hpc, gpc, dpc, message, count, inputs, inputError, generations, pending, responses>>
  BY DEF tasks, genVars, respVars
<1>2. Turns' /\ Errors' /\ Feeding'
  BY <1>1, FeedingKept DEF Inv, ErrorInv, Turns, Errors
<1>3. batches' \in Seq(Batch) /\ \A i \in 1 .. Len(batches') : Spans(batches'[i])
  <2>1. CASE batches' = batches
    BY <2>1 DEF Inv, ErrorInv, Types, Slices
  <2>2. CASE \E b \in Batch : Spans(b) /\ batches' = Append(batches, b)
    <3>1. PICK b \in Batch : Spans(b) /\ batches' = Append(batches, b)
      BY <2>2
    <3>2. /\ batches' \in Seq(Batch) /\ Len(batches) \in Nat /\ Len(batches') = Len(batches) + 1
          /\ batches'[Len(batches) + 1] = b
          /\ \A i \in 1 .. Len(batches) : batches'[i] = batches[i]
      BY <3>1, Appended DEF Inv, ErrorInv, Types
    <3>3. ASSUME NEW i \in 1 .. Len(batches') PROVE Spans(batches'[i])
      <4>1. CASE i = Len(batches) + 1
        BY <3>1, <3>2, <4>1
      <4>2. CASE i \in 1 .. Len(batches)
        BY <3>2, <4>2 DEF Inv, Slices
      <4> QED
        BY <3>2, <4>1, <4>2
    <3> QED
      BY <3>2, <3>3
  <2> QED
    BY <2>1, <2>2
<1>4. Slices'
  BY <1>1, <1>3 DEF Inv, Slices, Spans
<1>5. Types'
  BY <1>1, <1>3 DEF Inv, ErrorInv, Types
<1> QED
  BY <1>2, <1>4, <1>5 DEF Inv, ErrorInv

LEMMA PipelineStep == ASSUME Inv, Pipeline \/ PipeFails \/ PipeForwardsError PROVE Inv'
<1>1. covered \in Nat
  BY DEF Inv, ErrorInv, Types
<1>2. \A h \in Uncovered : h \in Nat
  BY <1>1 DEF Inv, ErrorInv, Types, Uncovered
<1>3. CASE \E h \in Uncovered : PipeBatch(h)
  <2>1. PICK h \in Uncovered : PipeBatch(h)
    BY <1>3
  <2> DEFINE b == [tag |-> "batch", from |-> MessageOf(covered + 1), upto |-> MessageOf(h)]
  <2>2. b \in Batch /\ Spans(b)
    BY <2>1, ChunkSpans, BatchMembers, Tags DEF Spans
  <2> QED
    BY <1>2, <2>1, <2>2, BatchAdded DEF PipeBatch
<1>4. CASE \E h \in Uncovered : PipeLoses(h)
  BY <1>2, <1>4, BatchAdded DEF PipeLoses
<1>5. CASE PipeError
  BY <1>1, <1>5, BatchAdded, BatchMembers, Tags DEF PipeError, Spans
<1>6. CASE PipeCloses
  BY <1>1, <1>6, BatchAdded DEF PipeCloses
<1> QED
  BY <1>3, <1>4, <1>5, <1>6 DEF Pipeline, PipeFails, PipeForwardsError
-----------------------------------------------------------------------------
(* The responder.                                                          *)

\* The vector holds the messages of a chunk in their places, or is too short.
LEMMA SliceExact ==
    ASSUME Inv, NEW m \in Nat, NEW n \in Nat, m <= n, n < Len(inputs)
    PROVE  Slice(m, n) \in Seq(Nat) /\ Slice(m, n) \in {<<>>, Range(m, n)}
<1>1. generations \in Seq(Nat) /\ Len(generations) \in Nat /\ Len(inputs) \in Nat
  BY DEF Inv, ErrorInv, Types
<1>2. CASE n < Len(generations)
  <2>1. Slice(m, n) = SubSeq(generations, m + 1, n + 1)
    BY <1>2 DEF Slice
  <2>2. SubSeq(generations, m + 1, n + 1) = [i \in 1 .. (n - m + 1) |-> generations[m + i]]
    BY <1>1, <1>2
  <2>3. \A i \in 1 .. (n - m + 1) : generations[m + i] = m + i - 1
    BY <1>1, <1>2 DEF Inv, Feeding
  <2>4. Slice(m, n) = Range(m, n)
    BY <2>1, <2>2, <2>3 DEF Range
  <2>5. Slice(m, n) \in Seq(Nat)
    BY <1>1, <1>2, <2>1
  <2> QED
    BY <2>4, <2>5
<1>3. CASE ~(n < Len(generations))
  BY <1>3 DEF Slice
<1> QED
  BY <1>2, <1>3

LEMMA RespondStep == ASSUME Inv, Respond \/ RespondError PROVE Inv'
<1>1. /\ dpc = "await" /\ batches # <<>> /\ batches' = Tail(batches) /\ hpc = "stopped"
      /\ dpc' \in {"panicked", "send", "last"}
      /\ UNCHANGED <<hpc, gpc, message, count, inputs, inputError, generations, covered, responses>>
  BY DEF Respond, RespondError, genVars, Inv, ErrorInv, Turns
<1>2. /\ batches' \in Seq(Batch) /\ Len(batches) \in Nat /\ Len(batches') = Len(batches) - 1 /\ Len(batches) > 0
      /\ Head(batches) = batches[1] /\ Head(batches) \in Batch
      /\ \A i \in 1 .. Len(batches') : batches'[i] = batches[i + 1]
  BY <1>1, Popped DEF Inv, ErrorInv, Types
<1>3. Spans(Head(batches))
  BY <1>2 DEF Inv, Slices
<1>4. pending' \in Response /\ Exact(pending') /\ (dpc' = "send" => pending' # Error)
  <2>1. CASE RespondError
    BY <2>1, Members, Tags DEF RespondError, Exact
  <2>2. CASE Respond
    <3> DEFINE b == Head(batches)
               used == Slice(b.from, b.upto)
    <3>1. b.from \in Nat /\ b.upto \in Nat /\ b.from <= b.upto /\ b.upto < Len(inputs)
      BY <1>2, <1>3, <2>2, BatchFields DEF Respond, Spans
    <3>2. used \in Seq(Nat) /\ used \in {<<>>, Range(b.from, b.upto)}
      BY <3>1, SliceExact
    <3>3. MkChunk(b, used) \in Response /\ Exact(MkChunk(b, used)) /\ MkChunk(b, used) # Error
      BY <3>1, <3>2, Members, Tags DEF MkChunk, Exact
    <3>4. (pending' = pending /\ dpc' = "panicked") \/ pending' = MkChunk(b, used)
      BY <2>2 DEF Respond
    <3> QED
      BY <3>3, <3>4 DEF Inv, ErrorInv, Types, Slices
  <2> QED
    BY <2>1, <2>2
<1>5. Types'
  BY <1>1, <1>2, <1>4 DEF Inv, ErrorInv, Types
<1>6. Turns'
  BY <1>1 DEF Inv, ErrorInv, Turns
<1>7. Errors'
  BY <1>1, <1>4 DEF Inv, ErrorInv, Errors
<1>8. Feeding'
  BY <1>1, FeedingKept DEF Inv
<1>9. Slices'
  <2>1. ASSUME NEW i \in 1 .. Len(batches') PROVE Spans(batches'[i])
    BY <1>2, <2>1 DEF Inv, Slices
  <2> QED
    BY <1>1, <1>4, <2>1 DEF Inv, Slices, Spans
<1> QED
  BY <1>5, <1>6, <1>7, <1>8, <1>9 DEF Inv, ErrorInv

\* Steps that touch neither messages nor responses.
LEMMA QuietStep ==
    ASSUME Inv, UNCHANGED <<hpc, gpc, genVars, covered, batches, respVars>>,
           dpc' = dpc \/ (dpc = "await" /\ dpc' = "stopped")
    PROVE  Inv'
<1>1. UNCHANGED <<hpc, gpc, message, count, inputs, inputError, generations, covered, batches, pending, responses>>
  BY DEF genVars, respVars
<1>2. Types' /\ Feeding' /\ Slices'
  BY <1>1, TypesKept, FeedingKept, SlicesKept DEF Inv, ErrorInv, Types, Slices
<1>3. Turns' /\ Errors'
  BY <1>1 DEF Inv, ErrorInv, Turns, Errors
<1> QED
  BY <1>2, <1>3 DEF Inv, ErrorInv
-----------------------------------------------------------------------------
LEMMA InitStep == Init => Inv
<1> SUFFICES ASSUME Init PROVE Inv
  OBVIOUS
<1>1. /\ responses = <<>> /\ batches = <<>> /\ inputs = <<>> /\ generations = <<>> /\ count = 0 /\ covered = 0
      /\ pending = Tagged("nothing") /\ hpc = "validate" /\ gpc = "idle" /\ dpc = "idle" /\ inputError = FALSE
      /\ Len(responses) = 0 /\ Len(batches) = 0 /\ Len(inputs) = 0 /\ Len(generations) = 0
  BY DEF Init
<1>2. Types /\ Turns
  <2>1. pending \in Response /\ inputError \in BOOLEAN
    BY <1>1, Members, Zenon
  <2>2. responses \in Seq(Response) /\ batches \in Seq(Batch) /\ inputs \in Seq(Nat) /\ generations \in Seq(Nat)
    BY <1>1
  <2> QED
    BY <1>1, <2>1, <2>2 DEF Types, Turns
<1>3. Errors /\ Feeding /\ Slices
  BY <1>1, Tags DEF Errors, Feeding, Slices, Exact
<1> QED
  BY <1>2, <1>3 DEF Inv, ErrorInv

LEMMA NextStep == Inv /\ [Next]_vars => Inv'
<1> SUFFICES ASSUME Inv, [Next]_vars PROVE Inv'
  OBVIOUS
<1>1. CASE Handler
  BY <1>1, SendStep, HandlerStep DEF Handler
<1>2. CASE Generator
  BY <1>2, GeneratorStep
<1>3. CASE Pipeline \/ PipeFails \/ PipeForwardsError
  BY <1>3, PipelineStep
<1>4. CASE Responder
  <2>1. CASE ResponderEnd
    BY <2>1, QuietStep DEF ResponderEnd, pipeVars
  <2> QED
    BY <1>4, <2>1, SendStep, RespondStep DEF Responder
<1>5. CASE ClientReads \/ ClientLeaves \/ Finished \/ UNCHANGED vars
  <2>1. UNCHANGED <<hpc, gpc, genVars, covered, batches, respVars>> /\ dpc' = dpc
    BY <1>5 DEF ClientReads, ClientLeaves, Finished, vars, tasks, pipeVars
  <2> QED
    BY <2>1, QuietStep
<1> QED
  BY <1>1, <1>2, <1>3, <1>4, <1>5 DEF Next

LEMMA InvAlways == Spec => []Inv
  BY InitStep, NextStep, PTL DEF Spec

\* Whichever task sends an error, nothing is sent after it.
THEOREM ErrorAlwaysLast == Spec => []ErrorIsLast
<1>1. Inv => ErrorIsLast
  <2> SUFFICES ASSUME Inv, NEW i \in 1 .. Len(responses) - 1 PROVE responses[i] # Error
    BY DEF ErrorIsLast
  <2>1. Len(responses) \in Nat
    BY DEF Inv, ErrorInv, Types
  <2> QED
    BY <2>1 DEF Inv, ErrorInv, Errors
<1> QED
  BY <1>1, InvAlways, PTL

\* The responder reads the vector while the generator pushes to it: what it finds
\* are the messages of the chunk, or nothing, and never other messages.
THEOREM SlicesAlwaysExact == Spec => []SliceIsExactOrEmpty
<1>1. Inv => SliceIsExactOrEmpty
  BY DEF Inv, ErrorInv, Types, Slices, Exact, SliceIsExactOrEmpty
<1> QED
  BY <1>1, InvAlways, PTL
==============================================================================
